--------------------------- MODULE TransfersProofs ---------------------------
(***************************************************************************)
(* The proof that the invariants of the transfers hold, for every size of  *)
(* files, chunks, buffers and pools and every number of threads.           *)
(*                                                                         *)
(* A behaviour has one user, and the inductive invariant one part for each *)
(* of them: where the bytes are at every stage of its operations.          *)
(***************************************************************************)
EXTENDS Transfers, FiniteSetTheorems, SequenceTheorems, TLAPS

------------------------------------------------------------------------------
(* The parts of the inductive invariant.                                    *)

Bytes == Seq(Nat)

CallType ==
  /\ call.buffer \in Bytes /\ call.size \in Int
  /\ call = [at |-> call.at, buffer |-> call.buffer, size |-> call.size, payload |-> call.payload]

ServerType == committed \in Bytes /\ next_expected_ \in Nat

(* UploadFile().                                                            *)

FileType ==
  /\ ServerType /\ CallType /\ file \in Bytes
  /\ position \in Nat /\ source_size \in Int /\ expected \in Int

InProgress == Uploading \/ Resetting

Clean == mishap \subseteq {"early"}

(* What the server has is the beginning of the file.                        *)
Begun ==
  /\ Len(committed) <= Len(file)
  /\ \A i \in 1..Len(committed) : committed[i] = file[i]

(* The session knows how much that is, and it can only end between quanta.  *)
Known == next_expected_ = Len(committed) /\ Len(committed) % Quantum = 0

(* The next chunk will be read from where the server stopped.               *)
AtStart ==
  \/ ~fail /\ ~eof /\ position = next_expected_ /\ source_size = Len(file)
  \/ fail /\ file = <<>>

(* The chunk in the call is what follows in the file.                       *)
ChunkFollows ==
  /\ call.size = Len(file)
  /\ next_expected_ + Len(call.buffer) <= Len(file)
  /\ \A i \in 1..Len(call.buffer) : call.buffer[i] = file[next_expected_ + i]
  /\ \/ /\ ~fail /\ ~eof /\ source_size = Len(file) /\ Len(call.buffer) = ChunkSize
        /\ position = next_expected_ + ChunkSize /\ expected = position - 1
     \/ fail /\ next_expected_ + Len(call.buffer) = Len(file)

(* A chunk that did not end the file was sent.                              *)
ChunkSent ==
  \/ /\ ~fail /\ ~eof /\ source_size = Len(file) /\ expected = position - 1
     /\ position % Quantum = 0
  \/ fail /\ file = <<>>

FileClean ==
  /\ Begun
  /\ finalized => committed = file /\ call.payload /\ call.at \in {"ok", "none"}
  /\ ~finalized => /\ Known
                   /\ call.at = "none" => AtStart
                   /\ InProgress => ChunkFollows
                   /\ call.at = "ok" => ChunkSent

FileInv ==
  /\ FileType
  /\ (call.payload \/ status = "OK") => finalized
  /\ Clean => FileClean

------------------------------------------------------------------------------
(* The stream with a session.                                               *)

OpType ==
  /\ op.bytes \in Bytes /\ op.trailing \in Bytes
  /\ op = [name |-> op.name, bytes |-> op.bytes, stage |-> op.stage, trailing |-> op.trailing]
  /\ op.name = "none" => op = Idle

StreamType ==
  /\ ServerType /\ CallType /\ OpType
  /\ current_ios_buffer_ \in Bytes /\ hashed \in Bytes /\ written \in Bytes
  /\ put \in Nat /\ closes \in Nat
  /\ op.name \in {"none", "write", "sync", "close", "do_close"}
  /\ op.name # "none" => op.stage \in {"flush", "ok", "failed"}
  /\ call.at \in {"none", "upload", "ok", "error"}
  /\ call.at # "none" => op.stage = "flush"
  /\ closes = 0 => open /\ op.name \notin {"close", "do_close"}
  /\ op.name \in {"write", "sync"} => closes = 0
  /\ op.name = "close" \/ (op.name = "do_close" /\ op.stage = "flush") => open

(* Flush(false) comes before Flush(true), which only Close() calls.         *)
Early == op.name \in {"write", "sync", "close"}
FlushAt(at) == op.stage = "flush" /\ call.at = at
PutAway == "put" \notin mishap

(* The hash is that of what the server has.                                 *)
Even ==
  /\ hashed = committed /\ next_expected_ = Len(committed) /\ Len(committed) # 1
  /\ ~finalized

HashedIsStored ==
  /\ op = Idle => (open => Even) /\ (Hashing => hashed = committed)
  /\ Early /\ (FlushAt("none") \/ FlushAt("ok") \/ op.stage = "ok") => Even
  /\ Early /\ FlushAt("upload") =>
       /\ hashed = committed \o call.buffer /\ Len(call.buffer) > 1
       /\ next_expected_ = Len(committed) /\ Len(committed) # 1 /\ ~finalized
  /\ op.name = "do_close" /\ FlushAt("none") => Even \/ put > 0
  /\ op.name = "do_close" /\ op.stage = "ok" => Even \/ (last_response_ = "metadata" /\ ~open)

(* What was written is hashed or in the buffer.                             *)
Buffered ==
  /\ hashed \o current_ios_buffer_ = written /\ put = Len(current_ios_buffer_)
  /\ last_response_ # "400" => put > 0
  /\ Len(committed) <= Len(hashed) /\ next_expected_ <= Len(hashed)

(* A chunk was hashed and is still in the buffer: it will be hashed again.  *)
HashedTwice ==
  /\ put > max_buffer_size_ /\ next_expected_ + max_buffer_size_ <= Len(hashed)
  /\ Len(committed) <= Len(hashed)

WrittenIsSent ==
  /\ op = Idle /\ closes = 0 => Buffered
  /\ op = Idle /\ closes # 0 =>
       ~open /\ (Hashing /\ "last" \notin mishap => finalized /\ committed = written)
  /\ Early /\ (FlushAt("none") \/ op.stage = "ok") => Buffered
  /\ Early /\ (FlushAt("upload") \/ FlushAt("ok")) =>
       hashed \o op.trailing = written /\ Len(op.trailing) > 0
  /\ Early /\ FlushAt("ok") => Len(committed) <= Len(hashed) /\ next_expected_ <= Len(hashed)
  /\ Early /\ (FlushAt("upload") \/ FlushAt("error")) => HashedTwice
  /\ op.name = "close" /\ op.stage = "failed" => HashedTwice
  /\ op.name = "do_close" /\ FlushAt("none") => Buffered \/ HashedTwice
  /\ op.name = "do_close" /\ FlushAt("upload") =>
       \/ hashed = written
       \/ Len(committed) < Len(hashed) /\ next_expected_ + put < Len(hashed)
  /\ op.name = "do_close" /\ FlushAt("ok") => hashed = written \/ Len(committed) < Len(hashed)
  /\ op.name = "do_close" /\ op.stage = "ok" =>
       \/ ~open /\ (hashed = written \/ Len(committed) < Len(hashed))
       \/ last_response_ = "400"

(* What is sent, and that the last chunk creates the object.                *)
FlushInv ==
  /\ Early /\ FlushAt("upload") => call.size = 0 /\ Len(call.buffer) = max_buffer_size_
  /\ Early /\ op.stage = "flush" /\ call.at # "none" => put > max_buffer_size_
  /\ op.name = "close" /\ op.stage = "failed" => put > max_buffer_size_
  /\ op.name = "do_close" /\ FlushAt("upload") =>
       call.size = next_expected_ + put /\ Len(call.buffer) = put /\ put > 0
  /\ op.name = "do_close" /\ FlushAt("ok") /\ "last" \notin mishap => call.payload /\ finalized
  /\ op.name = "do_close" /\ op.stage = "ok" /\ ~open /\ "last" \notin mishap =>
       last_response_ = "metadata" /\ finalized

StreamInv ==
  /\ StreamType
  /\ ~bad => /\ FlushInv
             /\ mishap \intersect {"early", "last"} = {} => HashedIsStored
             /\ PutAway => WrittenIsSent

------------------------------------------------------------------------------
(* The download.                                                            *)

(* A stream has not begun.                                                  *)
Fresh == /\ ~closing_ /\ ~curl_closed_ /\ ~at_end /\ ~bad /\ op = Idle
         /\ buffer_ = <<>> /\ region = <<>> /\ got = <<>>

ReadType ==
  /\ object \in Bytes /\ todo \in Bytes /\ buffer_ \in Bytes
  /\ region \in Bytes /\ got \in Bytes /\ code \in {0, 200, 400}
  /\ op.stage = "none" /\ op.name \in {"none", "get_more", "close_read"}
  /\ op.name = "none" => op = Idle

ReadInv ==
  /\ ReadType
  /\ code = 200 /\ "garbled" \notin mishap => ((got \o region) \o buffer_) \o todo = object
  /\ received_hash_ # {} => code = 200
  /\ curl_closed_ /\ ~closing_ /\ mishap = {} => todo = <<>> /\ code # 0
  /\ op.name # "none" => request[Streamer].at = "transfer"
  /\ request[Streamer].at = "transfer" /\ mishap = {} => code # 0
  /\ op.name = "get_more" => region = <<>> /\ ~at_end /\ ~closing_
  /\ op.name = "close_read" => closing_
  /\ closing_ => curl_closed_ \/ op.name = "close_read"
  /\ curl_closed_ /\ op = Idle /\ ~closing_ /\ ~bad => code < 300 /\ buffer_ = <<>>
  /\ at_end => curl_closed_ /\ op = Idle /\ region = <<>>
  /\ ReadIsWhole

------------------------------------------------------------------------------
(* The stream without a session.                                            *)

SimpleType ==
  /\ committed \in Bytes /\ buffer_ \in Bytes /\ OpType
  /\ current_ios_buffer_ \in Bytes /\ hashed \in Bytes /\ written \in Bytes
  /\ put \in Nat /\ closes \in {0, 1}
  /\ op.name \in {"none", "write", "overflow", "sync", "close", "do_close"}
  /\ op.name # "none" => op.stage \in {"swap", "flush", "closing"}
  /\ op.stage \in {"flush", "closing"} => op.name \in {"sync", "close", "do_close"}
  /\ op.stage = "closing" => op.name = "do_close"
  /\ op.name \in {"close", "do_close"} <=> closes = 1 /\ op # Idle
  /\ op.stage = "swap" /\ op.name # "overflow" => op.bytes = <<>>

(* What was written is hashed, in the buffer, or in the hand of overflow(). *)
WrittenIsHashed ==
  /\ op = Idle /\ closes = 0 =>
       hashed \o current_ios_buffer_ = written /\ put = Len(current_ios_buffer_)
  /\ op.stage = "swap" => written = hashed \o op.bytes
  /\ op.stage = "flush" => current_ios_buffer_ = <<>> /\ put = 0
  /\ op.stage \in {"flush", "closing"} => hashed = written

(* What is hashed was received or is on its way.                            *)
HashedIsSent ==
  /\ op.stage # "swap" => hashed = committed \o buffer_
  /\ op.stage = "swap" => hashed = (committed \o buffer_) \o current_ios_buffer_

SimpleInv ==
  /\ SimpleType
  /\ closes = 1 /\ op = Idle => curl_closed_
  /\ curl_closed_ => (code = 200 /\ finalized) \/ code = 400 \/ "unanswered" \in mishap
  /\ PutAway => WrittenIsHashed
  /\ PutAway /\ ~curl_closed_ => HashedIsSent
  /\ WrittenMeansStored

------------------------------------------------------------------------------
(* The handles and the token.                                               *)

Handle == Nat \ {NoHandle}

RequestOk(r) ==
  /\ r = [at |-> r.at, handle |-> r.handle, multi |-> r.multi, header |-> r.header]
  /\ r.at \in {"none", "builder", "account", "token", "ready", "request", "transfer", "done"}
  /\ r.handle \in Nat /\ r.multi \in Nat
  /\ r.at = "none" <=> r.handle = NoHandle
  /\ r.at \notin {"transfer", "done"} => r.multi = NoHandle
  /\ r.at = "transfer" => r.multi # NoHandle

RequestType ==
  /\ request = [t \in Thread |-> request[t]]
  /\ \A t \in Thread : RequestOk(request[t])

(* Who uses which handle, of both kinds.                                    *)
HandleOf == [t \in Thread |-> request[t].handle]
MultiOf == [t \in Thread |-> request[t].multi]

(* A pool of handles of one kind, and the requests that use the others.     *)
PoolInv(pool, use) ==
  /\ pool \in Seq(Handle) /\ Len(pool) <= maximum_size_
  /\ \A i, j \in 1..Len(pool) : pool[i] = pool[j] => i = j
  /\ \A t \in Thread : \A i \in 1..Len(pool) : use[t] # pool[i]
  /\ \A t, u \in Thread : use[t] = use[u] /\ use[t] # NoHandle => t = u

(* The stream of the Streamer is over and has given up its handles.         *)
Over == op = Idle /\ \/ user = "read" /\ curl_closed_
                     \/ user = "simple" /\ closing_

Attaches(t, p) ==
  /\ p = <<request[t].handle, request[t].multi>> /\ request[t].at = "transfer"
  /\ t = Streamer => ~Over

AttachedInv == "suspended" \notin mishap => \A p \in attached : \E t \in Thread : Attaches(t, p)

TokenInv ==
  /\ \A t \in Thread : request[t].at \in {"account", "token"} => mu_ = t
  /\ mu_ # NoThread => ~IsValid

(* Only the last wait of a stream without a session closes it.              *)
ClosingInv == closing_ => op.stage = "closing" \/ (op = Idle /\ closes = 1)

StreamerInv ==
  /\ requests = [t \in Thread |-> requests[t]] /\ \A t \in Thread : requests[t] \in Nat
  /\ requests[Streamer] = 0 => request[Streamer].at = "none"
  /\ requests[Streamer] = 0 \/ request[Streamer].at \in {"builder", "account", "token", "ready"}
       => Fresh

TransportInv ==
  /\ RequestType
  /\ PoolInv(handles_, HandleOf) /\ PoolInv(multi_handles_, MultiOf)
  /\ attached \subseteq Handle \X Handle /\ AttachedInv
  /\ TokenInv

------------------------------------------------------------------------------

(* The rest: who is not at work has done nothing.                           *)
Others ==
  /\ user # "file" => status = "none"
  /\ user # "read" => ~at_end
  /\ user \notin {"stream", "simple"} => closes = 0
  /\ user \in {"file", "stream"} => attached = {}

Inv ==
  /\ user = "file" => FileInv
  /\ user = "stream" => StreamInv
  /\ user = "read" => ReadInv /\ StreamerInv
  /\ user = "simple" => SimpleInv /\ ClosingInv /\ StreamerInv
  /\ TransportInv
  /\ Others

------------------------------------------------------------------------------
(* Arithmetic and sequences.                                                *)

(* A multiple of q has a quotient.                                          *)
LEMMA Quotient ==
  ASSUME NEW q \in Nat, q > 1, NEW a \in Int, a % q = 0
  PROVE  \E k \in Int : a = q * k
<1>1. a = q * (a \div q) + (a % q)
  BY SMTT(10)
<1>2. a \div q \in Int
  BY SMTT(10)
<1> DEFINE k == a \div q
<1>3. q * k \in Int /\ a = q * k
  BY <1>1, <1>2
<1> HIDE DEF k
<1> QED BY <1>2, <1>3 DEF k

LEMMA Multiple ==
  ASSUME NEW q \in Nat, q > 1, NEW k \in Int
  PROVE  (q * k) % q = 0
BY SMTT(30)

LEMMA SumOfMultiples ==
  ASSUME NEW q \in Nat, q > 1, NEW a \in Int, NEW b \in Int, a % q = 0, b % q = 0
  PROVE  (a + b) % q = 0
<1>1. PICK k \in Int : a = q * k BY Quotient
<1>2. PICK l \in Int : b = q * l BY Quotient
<1>3. a + b = q * (k + l) BY <1>1, <1>2, SMT
<1>4. k + l \in Int OBVIOUS
<1> QED BY <1>3, <1>4, Multiple

(* Two neighbours are not both multiples.                                   *)
LEMMA Neighbours ==
  ASSUME NEW q \in Nat, q > 1, NEW a \in Int, a % q = 0
  PROVE  (a - 1) % q # 0
BY SMTT(30)

LEMMA SmallRemainders ==
  ASSUME NEW q \in Nat, q > 1
  PROVE  0 % q = 0 /\ 1 % q # 0
BY SMTT(30)

(* What SubSeq() returns of a sequence of bytes.                            *)
LEMMA SubSeqOfBytes ==
  ASSUME NEW s \in Bytes, NEW m \in Nat, m > 0, NEW n \in Nat, n <= Len(s)
  PROVE  /\ SubSeq(s, m, n) \in Bytes
         /\ Len(SubSeq(s, m, n)) = IF m <= n THEN n - m + 1 ELSE 0
         /\ \A i \in 1..(n - m + 1) : SubSeq(s, m, n)[i] = s[m + i - 1]
<1>1. \A i \in m..n : s[i] \in Nat
  BY DEF Bytes
<1>2. m \in Int /\ n \in Int
  OBVIOUS
<1> QED BY <1>1, <1>2, SubSeqProperties DEF Bytes

LEMMA CutBytes ==
  ASSUME NEW s \in Bytes, NEW n \in Nat, n <= Len(s)
  PROVE  /\ SubSeq(s, 1, n) \in Bytes /\ SubSeq(s, n + 1, Len(s)) \in Bytes
         /\ Len(SubSeq(s, 1, n)) = n /\ Len(SubSeq(s, n + 1, Len(s))) = Len(s) - n
         /\ SubSeq(s, 1, n) \o SubSeq(s, n + 1, Len(s)) = s
<1>1. Len(s) \in Nat /\ n + 1 \in Nat /\ n + 1 > 0
  BY DEF Bytes
<1> DEFINE a == SubSeq(s, 1, n)
           b == SubSeq(s, n + 1, Len(s))
<1>2. /\ a \in Bytes /\ Len(a) = IF 1 <= n THEN n - 1 + 1 ELSE 0
      /\ \A i \in 1..(n - 1 + 1) : a[i] = s[1 + i - 1]
  <2>1. 1 \in Nat /\ 1 > 0
    OBVIOUS
  <2> QED BY <2>1, SubSeqOfBytes
<1>3. /\ b \in Bytes /\ Len(b) = IF n + 1 <= Len(s) THEN Len(s) - (n + 1) + 1 ELSE 0
      /\ \A i \in 1..(Len(s) - (n + 1) + 1) : b[i] = s[n + 1 + i - 1]
  BY <1>1, SubSeqOfBytes
<1> HIDE DEF a, b
<1>4. Len(a) = n /\ Len(b) = Len(s) - n
  BY <1>1, <1>2, <1>3
<1>5. /\ \A i \in 1..n : a[i] = s[i]
      /\ \A i \in 1..(Len(s) - n) : b[i] = s[n + i]
  BY <1>1, <1>2, <1>3
<1>6. a \o b = s
  <2>1. a \in Seq(Nat) /\ b \in Seq(Nat) /\ s \in Seq(Nat)
    BY <1>2, <1>3 DEF Bytes
  <2>2. /\ a \o b \in Seq(Nat) /\ Len(a \o b) = Len(a) + Len(b)
        /\ \A i \in 1..(Len(a) + Len(b)) :
             (a \o b)[i] = IF i <= Len(a) THEN a[i] ELSE b[i - Len(a)]
    BY <2>1, ConcatProperties
  <2>3. \A i \in 1..Len(a \o b) : (a \o b)[i] = s[i]
    <3> TAKE i \in 1..Len(a \o b)
    <3>1. CASE i <= n
      BY <1>1, <1>4, <1>5, <2>2, <3>1
    <3>2. CASE i > n
      <4>1. i - n \in 1..(Len(s) - n) /\ n + (i - n) = i
        BY <1>1, <1>4, <2>2, <3>2
      <4>2. b[i - n] = s[n + (i - n)]
        BY <4>1, <1>5
      <4> QED BY <1>1, <1>4, <2>2, <3>2, <4>1, <4>2
    <3> QED BY <3>1, <3>2, <1>1
  <2>4. Len(a \o b) = Len(s)
    BY <1>1, <1>4, <2>2
  <2> QED BY <2>1, <2>2, <2>3, <2>4, SeqEqual
<1> QED BY <1>2, <1>3, <1>4, <1>6 DEF a, b

(* Pieces of sequences of bytes can be joined in any order.                 *)
LEMMA Joined ==
  ASSUME NEW a \in Bytes, NEW b \in Bytes
  PROVE  /\ a \o b \in Bytes /\ Len(a \o b) = Len(a) + Len(b)
         /\ Len(a) \in Nat /\ Len(b) \in Nat
         /\ a \o <<>> = a /\ <<>> \o a = a
         /\ <<>> \in Bytes /\ Len(<<>>) = 0
         /\ Len(a) = 0 <=> a = <<>>
BY ConcatProperties, ConcatEmptySeq DEF Bytes

Associates(a, b, c) == (a \o b) \o c = a \o (b \o c)

LEMMA JoinedThree ==
  ASSUME NEW a \in Bytes, NEW b \in Bytes, NEW c \in Bytes
  PROVE  Associates(a, b, c)
<1>1. a \in Seq(Nat) /\ b \in Seq(Nat) /\ c \in Seq(Nat)
  BY DEF Bytes
<1>2. (a \o b) \o c = a \o (b \o c)
  BY <1>1, ConcatAssociative, SMTT(60)
<1> QED BY <1>2 DEF Associates

(* std::string::resize().                                                   *)
LEMMA ResizeFacts ==
  ASSUME NEW s \in Bytes, NEW n \in Nat
  PROVE  /\ resize(s, n) \in Bytes /\ Len(resize(s, n)) = n
         /\ n <= Len(s) => resize(s, n) = SubSeq(s, 1, n)
<1> DEFINE r == resize(s, n)
<1>1. /\ r \in [1..n -> Nat]
      /\ \A i \in 1..n : r[i] = IF i <= Len(s) THEN s[i] ELSE 0
  BY DEF resize, Bytes
<1> HIDE DEF r
<1>2. r \in Bytes /\ Len(r) = n
  BY <1>1 DEF Bytes
<1>3. ASSUME n <= Len(s) PROVE r = SubSeq(s, 1, n)
  <2>1. 1 \in Nat /\ 1 > 0 /\ Len(s) \in Nat
    BY DEF Bytes
  <2>2. /\ SubSeq(s, 1, n) \in Bytes
        /\ Len(SubSeq(s, 1, n)) = IF 1 <= n THEN n - 1 + 1 ELSE 0
        /\ \A i \in 1..(n - 1 + 1) : SubSeq(s, 1, n)[i] = s[1 + i - 1]
    BY <1>3, <2>1, SubSeqOfBytes
  <2> DEFINE a == SubSeq(s, 1, n)
  <2> HIDE DEF a
  <2>3. Len(r) = Len(a) /\ \A i \in 1..Len(r) : r[i] = a[i]
    BY <1>1, <1>2, <1>3, <2>1, <2>2 DEF a
  <2>4. r \in Seq(Nat) /\ a \in Seq(Nat)
    BY <1>2, <2>2 DEF a, Bytes
  <2>5. r = a
    BY <2>3, <2>4, SeqEqual
  <2> QED BY <2>5 DEF a
<1> QED BY <1>2, <1>3 DEF r

LEMMA ResizeSame ==
  ASSUME NEW s \in Bytes
  PROVE  resize(s, Len(s)) = s
<1>1. Len(s) \in Nat /\ Len(s) <= Len(s)
  BY DEF Bytes
<1>2. resize(s, Len(s)) = SubSeq(s, 1, Len(s))
  BY <1>1, ResizeFacts
<1> QED BY <1>2, SubSeqFull DEF Bytes

LEMMA NextBytesFacts ==
  ASSUME written \in Bytes, NEW n \in Nat
  PROVE  NextBytes(n) \in Bytes /\ Len(NextBytes(n)) = n
<1>1. Len(written) \in Nat
  BY DEF Bytes
<1>2. NextBytes(n) \in [1..n -> Nat]
  BY <1>1 DEF NextBytes
<1> QED BY <1>2 DEF Bytes

------------------------------------------------------------------------------
(* The session.                                                             *)

(* The server appends what it does not have of the bytes in the request.    *)
LEMMA StoreFacts ==
  ASSUME ServerType, CallType, NEW k \in Storable, Store(k)
  PROVE  /\ next_expected_ <= Len(committed)
         /\ k \in Nat /\ k <= Len(call.buffer)
         /\ committed' \in Bytes /\ Len(committed) <= Len(committed')
         /\ finalized => finalized' /\ committed' = committed
         /\ finalized' <=> finalized \/ (call.size # 0 /\ Len(committed') >= call.size)
         /\ ~finalized =>
              /\ Len(committed') = IF next_expected_ + k <= Len(committed) THEN Len(committed)
                                   ELSE next_expected_ + k
              /\ \A i \in 1..Len(committed) : committed'[i] = committed[i]
              /\ \A i \in 1..Len(committed') :
                   i > Len(committed) => committed'[i] = call.buffer[i - next_expected_]
<1>1. /\ Len(committed) \in Nat /\ Len(call.buffer) \in Nat /\ next_expected_ \in Nat
      /\ committed \in Bytes /\ call.buffer \in Bytes
  BY DEF ServerType, CallType, Bytes
<1>2. next_expected_ <= Len(committed) /\ k \in Nat /\ k <= Len(call.buffer)
  BY <1>1 DEF Storable
<1>3. finalized' <=> finalized \/ (call.size # 0 /\ Len(committed') >= call.size)
  BY DEF Store
<1>4. CASE finalized \/ next_expected_ + k <= Len(committed)
  <2>1. committed' = committed
    BY <1>4 DEF Store
  <2>2. ~finalized => next_expected_ + k <= Len(committed)
    BY <1>4
  <2> QED BY <1>1, <1>2, <1>3, <2>1, <2>2
<1>5. CASE ~(finalized \/ next_expected_ + k <= Len(committed))
  <2> DEFINE m == Len(committed) - next_expected_ + 1
             b == SubSeq(call.buffer, m, k)
  <2>1. m \in Nat /\ m > 0 /\ m <= k
    BY <1>1, <1>2, <1>5
  <2>2. committed' = committed \o b
    BY <1>5 DEF Store
  <2>3. b \in Bytes /\ Len(b) = k - m + 1 /\ \A i \in 1..(k - m + 1) : b[i] = call.buffer[m + i - 1]
    <3> HIDE DEF m
    <3> QED BY <1>1, <1>2, <2>1, SubSeqOfBytes
  <2> HIDE DEF b
  <2>4. /\ committed' \in Bytes /\ Len(committed') = Len(committed) + Len(b)
        /\ \A i \in 1..(Len(committed) + Len(b)) :
             committed'[i] = IF i <= Len(committed) THEN committed[i] ELSE b[i - Len(committed)]
    BY <1>1, <2>2, <2>3, ConcatProperties DEF Bytes
  <2>5. Len(b) = next_expected_ + k - Len(committed) /\ Len(committed') = next_expected_ + k
    BY <1>1, <1>2, <2>1, <2>3, <2>4
  <2>6. ASSUME NEW i \in 1..Len(committed'), i > Len(committed)
        PROVE  committed'[i] = call.buffer[i - next_expected_]
    <3>1. i \in 1..(Len(committed) + Len(b)) /\ i - Len(committed) \in 1..(k - m + 1)
      BY <1>1, <1>2, <2>1, <2>3, <2>4, <2>5, <2>6
    <3>2. committed'[i] = b[i - Len(committed)]
      BY <2>4, <2>6, <3>1, <1>1
    <3>3. b[i - Len(committed)] = call.buffer[m + (i - Len(committed)) - 1]
      BY <2>3, <3>1
    <3>4. m + (i - Len(committed)) - 1 = i - next_expected_
      BY <1>1, <2>6
    <3> QED BY <3>2, <3>3, <3>4
  <2>7. \A i \in 1..Len(committed) : committed'[i] = committed[i]
    BY <1>1, <2>3, <2>4, <2>5
  <2>8. ~finalized /\ ~(next_expected_ + k <= Len(committed))
    BY <1>5
  <2> QED BY <1>1, <1>2, <1>3, <2>4, <2>5, <2>6, <2>7, <2>8
<1> QED BY <1>4, <1>5

(* What the session makes of the range in an answer.                        *)
LEMMA UpdateFacts ==
  ASSUME committed' \in Bytes, NEW range \in RangeHeader, Update(range)
  PROVE  /\ next_expected_' \in Nat /\ next_expected_' <= Len(committed')
         /\ ~finalized' /\ Len(committed') # 1 => next_expected_' = Len(committed')
<1>1. Len(committed') \in Nat
  BY DEF Bytes
<1>2. range \in {0, Len(committed')} /\ (~finalized' => range = Len(committed'))
  BY DEF RangeHeader
<1>3. next_expected_' = IF range = 0 \/ range = 1 THEN 0 ELSE range
  BY <1>1, <1>2 DEF Update, LastCommittedByte
<1> DEFINE L == Len(committed')
<1>4. L \in Nat /\ range \in {0, L} /\ (~finalized' => range = L)
  BY <1>1, <1>2
<1> HIDE DEF L
<1>5. next_expected_' \in Nat /\ next_expected_' <= L
  BY <1>3, <1>4
<1>6. ASSUME ~finalized', L # 1 PROVE next_expected_' = L
  BY <1>3, <1>4, <1>6
<1> QED BY <1>5, <1>6 DEF L

------------------------------------------------------------------------------
(* UploadFile().                                                            *)

LEMMA SendChunkInv ==
  ASSUME FileInv, SendChunk
  PROVE  FileInv'
<1> USE SessionAssumption, UploadAssumption
<1>1. /\ committed \in Bytes /\ next_expected_ \in Nat /\ file \in Bytes
      /\ position \in Nat /\ source_size \in Int /\ Len(file) \in Nat /\ Len(committed) \in Nat
      /\ ChunkSize \in Nat /\ ChunkSize > 0
  BY DEF FileInv, FileType, ServerType, Bytes
<1> DEFINE g == Gcount
           b == SubSeq(file, position + 1, position + g)
           n == IF g < ChunkSize THEN next_expected_ + g ELSE source_size
<1>2. /\ UNCHANGED <<committed, finalized, mishap, next_expected_, status, file>>
      /\ call.at = "none" /\ ~call.payload /\ ~eof /\ status = "none"
      /\ eof' <=> (g < ChunkSize /\ ~fail)
      /\ fail' <=> (fail \/ g < ChunkSize)
      /\ source_size' = n
      /\ position' = position + g /\ expected' = next_expected_ + g - 1
  BY DEF SendChunk, UploadChunk, serverVars
<1>3. /\ call' = [at |-> call'.at, buffer |-> b, size |-> n, payload |-> FALSE]
      /\ call'.at \in {"threw", "upload"}
  BY DEF SendChunk, UploadChunk
<1>4. /\ g \in Int /\ position + g \in Nat /\ g <= ChunkSize
      /\ ~fail => position + g <= Len(file)
      /\ fail => g = 0
      /\ ~fail /\ position <= Len(file) => g \in Nat /\ (g < ChunkSize => position + g = Len(file))
  BY <1>1 DEF Gcount
<1> HIDE DEF g
<1>5. b \in Bytes /\ (fail => b = <<>>)
  <2>1. position + 1 \in Nat /\ position + 1 > 0 /\ position + 1 \in Int /\ position + g \in Int
    BY <1>1, <1>4
  <2>2. CASE fail
    <3>1. position + g < position + 1
      BY <1>1, <1>4, <2>2
    <3>2. b = <<>>
      BY <2>1, <3>1, SubSeqEmpty
    <3>3. <<>> \in Bytes
      BY EmptySeq DEF Bytes
    <3> HIDE DEF b
    <3> QED BY <3>2, <3>3
  <2>3. CASE ~fail
    <3>1. position + g \in Nat /\ position + g <= Len(file)
      BY <1>4, <2>3
    <3>2. b \in Bytes
      BY <1>1, <2>1, <3>1, SubSeqOfBytes
    <3> QED BY <2>3, <3>2
  <2> QED BY <2>2, <2>3
<1>6. n \in Int
  BY <1>1, <1>4
<1> HIDE DEF n, b
<1>7. /\ call'.buffer = b /\ call'.size = n /\ ~call'.payload
      /\ call' = [at |-> call'.at, buffer |-> call'.buffer, size |-> call'.size,
                  payload |-> call'.payload]
  BY <1>3
<1>8. FileType'
  BY <1>1, <1>2, <1>4, <1>5, <1>6, <1>7 DEF FileType, ServerType, CallType
<1>9. ASSUME Clean' PROVE FileClean'
  <2>1. Clean /\ FileClean
    BY <1>2, <1>9 DEF Clean, FileInv
  <2>2. ~finalized /\ Begun /\ Known /\ AtStart
    BY <1>2, <2>1 DEF FileClean
  <2>3. ~finalized' /\ Begun' /\ Known'
    BY <1>2, <2>2 DEF Begun, Known
  <2>4. ChunkFollows'
    <3>1. CASE ~fail
      <4>1. /\ position = next_expected_ /\ source_size = Len(file)
            /\ next_expected_ = Len(committed) /\ Len(committed) <= Len(file)
        BY <3>1, <2>2 DEF AtStart, Known, Begun
      <4>2. /\ g \in Nat /\ (g < ChunkSize => position + g = Len(file))
            /\ position + g <= Len(file)
        BY <1>1, <1>4, <3>1, <4>1
      <4>3. n = Len(file)
        BY <1>1, <4>1, <4>2 DEF n
      <4>4. Len(b) = g /\ \A i \in 1..g : b[i] = file[position + i]
        <5>1. position + 1 \in Nat /\ position + 1 > 0 /\ position + g \in Nat
          BY <1>1, <4>2
        <5>2. /\ Len(b) = IF position + 1 <= position + g THEN position + g - (position + 1) + 1 ELSE 0
              /\ \A i \in 1..(position + g - (position + 1) + 1) : b[i] = file[position + 1 + i - 1]
          BY <5>1, <4>2, <1>1, SubSeqOfBytes DEF b
        <5> QED BY <1>1, <4>2, <5>2
      <4>5. call'.size = Len(file)' /\ (next_expected_ + Len(call.buffer) <= Len(file))'
        BY <1>1, <1>2, <1>7, <4>1, <4>2, <4>3, <4>4
      <4>6. (\A i \in 1..Len(call.buffer) : call.buffer[i] = file[next_expected_ + i])'
        BY <1>2, <1>7, <4>1, <4>4
      <4>7. CASE g < ChunkSize
        BY <1>1, <1>2, <1>7, <4>1, <4>2, <4>4, <4>5, <4>6, <4>7 DEF ChunkFollows
      <4>8. CASE ~(g < ChunkSize)
        <5>1. g = ChunkSize
          BY <1>1, <1>4, <4>8
        <5> QED BY <1>1, <1>2, <1>7, <3>1, <4>1, <4>2, <4>3, <4>4, <4>5, <4>6, <5>1 DEF ChunkFollows
      <4> QED BY <4>7, <4>8
    <3>2. CASE fail
      <4>1. file = <<>> /\ Len(file) = 0 /\ next_expected_ = 0
        BY <1>1, <2>2, <3>2 DEF AtStart, Known, Begun
      <4>2. g = 0 /\ n = 0 /\ b = <<>>
        BY <1>1, <1>4, <1>5, <3>2, <4>1 DEF n
      <4> QED BY <1>1, <1>2, <1>7, <3>2, <4>1, <4>2 DEF ChunkFollows
    <3> QED BY <3>1, <3>2
  <2>5. call'.at # "none" /\ call'.at # "ok"
    BY <1>3
  <2> QED BY <2>3, <2>4, <2>5 DEF FileClean
<1>10. (call'.payload \/ status' = "OK") => finalized'
  BY <1>2, <1>7
<1> QED BY <1>8, <1>9, <1>10 DEF FileInv

LEMMA FileUploadAnswered ==
  ASSUME FileInv, UploadAnswered, UNCHANGED <<uploadVars, file>>
  PROVE  FileInv'
<1> USE SessionAssumption, UploadAssumption
<1>1. /\ committed \in Bytes /\ next_expected_ \in Nat /\ file \in Bytes /\ call.buffer \in Bytes
      /\ Len(file) \in Nat /\ Len(committed) \in Nat /\ Len(call.buffer) \in Nat
      /\ position \in Nat /\ ServerType /\ CallType
  BY DEF FileInv, FileType, ServerType, CallType, Bytes
<1>2. PICK k \in Storable : Store(k) /\ mishap' = mishap \union StoredInPart(k)
  BY DEF UploadAnswered
<1>3. PICK range \in RangeHeader : Update(range)
  BY DEF UploadAnswered
<1>4. /\ call'.at = "ok" /\ (call'.payload <=> finalized')
      /\ call'.buffer = call.buffer /\ call'.size = call.size
      /\ call' = [at |-> call'.at, buffer |-> call'.buffer, size |-> call'.size,
                  payload |-> call'.payload]
  BY <1>1 DEF UploadAnswered, CallType
<1>5. UNCHANGED <<position, eof, fail, source_size, expected, status, file>>
  BY DEF uploadVars, sourceVars
<1>6. /\ next_expected_ <= Len(committed)
      /\ k \in Nat /\ k <= Len(call.buffer)
      /\ committed' \in Bytes /\ Len(committed) <= Len(committed')
      /\ finalized => finalized' /\ committed' = committed
      /\ finalized' <=> finalized \/ (call.size # 0 /\ Len(committed') >= call.size)
      /\ ~finalized =>
           /\ Len(committed') = IF next_expected_ + k <= Len(committed) THEN Len(committed)
                                ELSE next_expected_ + k
           /\ \A i \in 1..Len(committed) : committed'[i] = committed[i]
           /\ \A i \in 1..Len(committed') :
                i > Len(committed) => committed'[i] = call.buffer[i - next_expected_]
  BY <1>1, <1>2, StoreFacts
<1>7. /\ next_expected_' \in Nat /\ next_expected_' <= Len(committed')
      /\ ~finalized' /\ Len(committed') # 1 => next_expected_' = Len(committed')
  BY <1>3, <1>6, UpdateFacts
<1>8. FileType'
  BY <1>4, <1>5, <1>6, <1>7 DEF FileInv, FileType, ServerType, CallType
<1>9. (call'.payload \/ status' = "OK") => finalized'
  BY <1>4, <1>5, <1>6 DEF FileInv
<1>10. ASSUME Clean' PROVE FileClean'
  <2>1. Clean /\ FileClean /\ "last" \notin mishap'
    BY <1>2, <1>10 DEF Clean, FileInv
  <2>2. InProgress /\ call.at \notin {"ok", "none"}
    BY DEF UploadAnswered, InProgress, Uploading
  <2>3. ~finalized
    BY <2>1, <2>2 DEF FileClean
  <2>4. Begun /\ Known /\ ChunkFollows
    BY <2>1, <2>2, <2>3 DEF FileClean
  <2>5. next_expected_ = Len(committed) /\ Len(committed) % Quantum = 0
    BY <2>4 DEF Known
  <2>6. /\ call.size = Len(file) /\ next_expected_ + Len(call.buffer) <= Len(file)
        /\ \A i \in 1..Len(call.buffer) : call.buffer[i] = file[next_expected_ + i]
    BY <2>4 DEF ChunkFollows
  <2>7. Len(committed') = next_expected_ + k /\ Len(committed') \in Nat /\ Len(committed') <= Len(file)
    BY <1>1, <1>6, <2>3, <2>5, <2>6
  <2>8. \A i \in 1..Len(committed') : committed'[i] = file[i]
    <3> TAKE i \in 1..Len(committed')
    <3>1. CASE i <= Len(committed)
      <4>1. i \in 1..Len(committed)
        BY <1>1, <2>7, <3>1
      <4> QED BY <1>6, <2>3, <2>4, <4>1 DEF Begun
    <3>2. CASE i > Len(committed)
      <4>1. committed'[i] = call.buffer[i - next_expected_]
        BY <1>6, <2>3, <3>2
      <4>2. i - next_expected_ \in 1..Len(call.buffer) /\ next_expected_ + (i - next_expected_) = i
        BY <1>1, <1>6, <2>5, <2>7, <3>2
      <4>3. call.buffer[i - next_expected_] = file[next_expected_ + (i - next_expected_)]
        BY <2>6, <4>2
      <4> QED BY <4>1, <4>2, <4>3
    <3> QED BY <1>1, <2>7, <3>1, <3>2
  <2>9. Begun'
    BY <1>5, <2>7, <2>8 DEF Begun
  <2>10. Len(committed') = Len(file) => committed' = file
    BY <1>1, <1>6, <2>8, SeqEqual DEF Bytes
  <2>11. finalized' => committed' = file'
    BY <1>1, <1>5, <1>6, <2>3, <2>6, <2>7, <2>10
  <2>12. ASSUME ~finalized' PROVE Known' /\ ChunkSent'
    <3>1. call.size = 0 \/ next_expected_ + k < call.size
      BY <1>1, <1>6, <2>3, <2>6, <2>7, <2>12
    <3>2. CASE fail
      <4>1. next_expected_ + Len(call.buffer) = Len(file)
        BY <2>4, <3>2 DEF ChunkFollows
      <4>2. Len(file) = 0
        <5>1. CASE k = Len(call.buffer)
          BY <1>1, <2>6, <3>1, <4>1, <5>1
        <5>2. CASE k # Len(call.buffer)
          <6>1. ~LastChunk
            BY <1>2, <2>1, <2>3, <5>2 DEF StoredInPart
          <6> QED BY <1>1, <2>6, <4>1, <6>1 DEF LastChunk
        <5> QED BY <5>1, <5>2
      <4>3. file = <<>> /\ Len(committed') = 0
        BY <1>1, <2>7, <4>2 DEF Bytes
      <4>4. 0 % Quantum = 0
        BY SmallRemainders
      <4>5. next_expected_' = Len(committed')
        BY <1>7, <2>12, <4>3
      <4>6. Known'
        BY <4>3, <4>4, <4>5 DEF Known
      <4> QED BY <1>5, <3>2, <4>3, <4>6 DEF ChunkSent
    <3>3. CASE ~fail
      <4>1. /\ ~eof /\ source_size = Len(file) /\ Len(call.buffer) = ChunkSize
            /\ position = next_expected_ + ChunkSize /\ expected = position - 1
        BY <2>4, <3>3 DEF ChunkFollows
      <4>2. next_expected_ % Quantum = 0 /\ ChunkSize % Quantum = 0 /\ ChunkSize \in Nat
            /\ Quantum \in Nat /\ Quantum > 1
        BY <2>5
      <4>3. (next_expected_ + ChunkSize) % Quantum = 0
        <5>1. next_expected_ \in Int /\ ChunkSize \in Int
          BY <1>1, <4>2
        <5> QED BY <4>2, <5>1, SumOfMultiples
      <4>4. (next_expected_ + k) % Quantum = 0
        <5>1. k = Len(call.buffer) \/ (next_expected_ + k) % Quantum = 0
          BY <1>1, <2>3, <2>5 DEF Storable
        <5> QED BY <4>1, <4>3, <5>1
      <4>5. Len(committed') % Quantum = 0
        BY <4>4, <2>7
      <4>6. Len(committed') # 1
        BY <4>2, <4>5, SmallRemainders
      <4>7. Known'
        BY <1>7, <2>12, <4>5, <4>6 DEF Known
      <4>8. position' % Quantum = 0
        BY <1>5, <4>1, <4>3
      <4> QED BY <1>5, <3>3, <4>1, <4>7, <4>8 DEF ChunkSent
    <3> QED BY <3>2, <3>3
  <2>13. call'.at = "ok" /\ ~InProgress'
    BY <1>4 DEF InProgress, Uploading, Resetting
  <2> QED BY <1>4, <2>9, <2>11, <2>12, <2>13 DEF FileClean
<1> QED BY <1>8, <1>9, <1>10 DEF FileInv

(* A step that only moves the call on, or tells the session what it knows.  *)
LEMMA FileMovesOn ==
  ASSUME FileInv, InProgress,
         NEW at \in {"upload_again", "reset", "reset_again", "error", "threw"},
         call' = [call EXCEPT !.at = at],
         UNCHANGED <<committed, finalized, mishap, uploadVars, file>>,
         next_expected_' \in Nat, Clean => next_expected_' = next_expected_
  PROVE  FileInv'
<1>1. /\ call'.at = at /\ (call'.payload <=> call.payload)
      /\ call'.buffer = call.buffer /\ call'.size = call.size
      /\ call' = [at |-> call'.at, buffer |-> call'.buffer, size |-> call'.size,
                  payload |-> call'.payload]
  BY DEF FileInv, FileType, CallType
<1>2. UNCHANGED <<position, eof, fail, source_size, expected, status, file>>
  BY DEF uploadVars, sourceVars
<1>3. FileType'
  BY <1>1, <1>2 DEF FileInv, FileType, ServerType, CallType
<1>4. (call'.payload \/ status' = "OK") => finalized'
  BY <1>1, <1>2 DEF FileInv
<1>5. ASSUME Clean' PROVE FileClean'
  <2>1. Clean /\ FileClean /\ next_expected_' = next_expected_
    BY <1>5 DEF Clean, FileInv
  <2>2. call.at \notin {"ok", "none"}
    BY DEF InProgress, Uploading, Resetting
  <2>3. ~finalized
    BY <2>1, <2>2 DEF FileClean
  <2>4. Begun /\ Known /\ ChunkFollows
    BY <2>1, <2>3 DEF FileClean
  <2>5. Begun' /\ Known' /\ ChunkFollows'
    BY <1>1, <1>2, <2>1, <2>4 DEF Begun, Known, ChunkFollows
  <2>6. call'.at \notin {"ok", "none"} /\ ~finalized'
    BY <1>1, <2>3
  <2> QED BY <2>5, <2>6 DEF FileClean
<1> QED BY <1>3, <1>4, <1>5 DEF FileInv

(* A failed attempt moves the call on.                                      *)
LEMMA FailedFacts ==
  ASSUME user = "file", NEW c, Failed(c)
  PROVE  \E at \in {"reset", "reset_again", "error"} : call' = [call EXCEPT !.at = at]
BY DEF Failed, Retried, Returns

LEMMA FileSessionStep ==
  ASSUME FileInv, user = "file", SessionStep, UNCHANGED <<uploadVars, file>>
  PROVE  FileInv'
<1>1. committed \in Bytes /\ next_expected_ \in Nat /\ ServerType /\ CallType
      /\ Len(committed) \in Nat
  BY DEF FileInv, FileType, ServerType, Bytes
<1>2. CASE UploadAnswered
  BY <1>2, FileUploadAnswered
<1>3. CASE ResetExhausted
  <2>1. InProgress /\ \E at \in {"error", "threw"} : call' = [call EXCEPT !.at = at]
    BY <1>3 DEF ResetExhausted, InProgress, Returns
  <2>2. UNCHANGED <<committed, finalized, mishap, uploadVars, file, next_expected_>>
    BY <1>3 DEF ResetExhausted, serverVars
  <2> QED BY <1>1, <2>1, <2>2, FileMovesOn
<1>4. CASE QueryAnswered
  <2>1. InProgress /\ call' = [call EXCEPT !.at = "upload_again"]
    BY <1>4 DEF QueryAnswered, InProgress, Returns
  <2>2. UNCHANGED <<committed, finalized, mishap, uploadVars, file>>
    BY <1>4 DEF QueryAnswered, serverVars
  <2>3. PICK range \in RangeHeader : Update(range)
    BY <1>4 DEF QueryAnswered
  <2>4. /\ next_expected_' \in Nat
        /\ ~finalized' /\ Len(committed') # 1 => next_expected_' = Len(committed')
    BY <1>1, <2>2, <2>3, UpdateFacts
  <2>5. ASSUME Clean PROVE next_expected_' = next_expected_
    <3>1. FileClean /\ call.at \notin {"ok", "none"}
      BY <1>4, <2>5 DEF FileInv, QueryAnswered, Resetting
    <3>2. ~finalized /\ Known
      BY <3>1 DEF FileClean
    <3>3. Len(committed) # 1
      BY <3>2, SmallRemainders, SessionAssumption DEF Known
    <3> QED BY <2>2, <2>4, <3>2, <3>3 DEF Known
  <2> QED BY <2>1, <2>2, <2>4, <2>5, FileMovesOn
<1>5. CASE UploadExhausted
  <2>1. InProgress /\ call' = [call EXCEPT !.at = "error"]
    BY <1>5 DEF UploadExhausted, InProgress, Uploading, Returns
  <2>2. UNCHANGED <<committed, finalized, mishap, uploadVars, file, next_expected_>>
    BY <1>5 DEF UploadExhausted, serverVars
  <2> QED BY <1>1, <2>1, <2>2, FileMovesOn
<1>6. ASSUME NEW c \in Code, QueryFails(c) PROVE FileInv'
  <2>1. InProgress /\ \E at \in {"reset", "reset_again", "error"} : call' = [call EXCEPT !.at = at]
    BY <1>6, FailedFacts DEF QueryFails, InProgress
  <2>2. UNCHANGED <<committed, finalized, mishap, uploadVars, file, next_expected_>>
    BY <1>6 DEF QueryFails, serverVars
  <2> QED BY <1>1, <2>1, <2>2, FileMovesOn
<1>7. ASSUME NEW c \in Code, UploadFails(c) PROVE FileInv'
  <2>1. PICK at \in {"reset", "reset_again", "error"} : call' = [call EXCEPT !.at = at]
    BY <1>7, FailedFacts DEF UploadFails
  <2>2. InProgress /\ next_expected_' = next_expected_
    BY <1>7 DEF UploadFails, InProgress
  <2>3. CASE UNCHANGED serverVars
    BY <1>1, <2>1, <2>2, <2>3, FileMovesOn DEF serverVars
  <2>4. CASE (\E k \in Storable : Store(k)) /\ mishap' = mishap \union {"lost"}
    <3>1. committed' \in Bytes /\ (finalized => finalized')
      BY <1>1, <2>4, StoreFacts
    <3>2. ~Clean'
      BY <2>4 DEF Clean
    <3>3. /\ (call'.payload <=> call.payload)
          /\ call'.buffer = call.buffer /\ call'.size = call.size
          /\ call' = [at |-> call'.at, buffer |-> call'.buffer, size |-> call'.size,
                      payload |-> call'.payload]
      BY <2>1 DEF FileInv, FileType, CallType
    <3>4. UNCHANGED <<position, eof, fail, source_size, expected, status, file>>
      BY DEF uploadVars, sourceVars
    <3>5. FileType'
      BY <2>2, <3>1, <3>3, <3>4 DEF FileInv, FileType, ServerType, CallType
    <3>6. (call'.payload \/ status' = "OK") => finalized'
      BY <3>1, <3>3, <3>4 DEF FileInv
    <3> QED BY <3>2, <3>5, <3>6 DEF FileInv
  <2> QED BY <1>7, <2>3, <2>4 DEF UploadFails
<1> QED BY <1>2, <1>3, <1>4, <1>5, <1>6, <1>7 DEF SessionStep

LEMMA CheckChunkInv ==
  ASSUME FileInv, CheckChunk
  PROVE  FileInv'
<1>1. /\ committed \in Bytes /\ next_expected_ \in Nat /\ Len(committed) \in Nat
      /\ position \in Nat /\ expected \in Int
  BY DEF FileInv, FileType, ServerType, Bytes
<1>2. /\ call'.at = "none" /\ (call'.payload <=> call.payload)
      /\ call'.buffer = call.buffer /\ call'.size = call.size
      /\ call' = [at |-> call'.at, buffer |-> call'.buffer, size |-> call'.size,
                  payload |-> call'.payload]
  BY DEF CheckChunk, FileInv, FileType, CallType
<1>3. /\ UNCHANGED <<committed, finalized, mishap, next_expected_, source_size, expected, status, file>>
      /\ (fail' <=> fail) /\ call.at = "ok"
      /\ position' \in Nat
      /\ next_expected_ # expected => ~eof' /\ (~fail => position' = next_expected_)
  BY <1>1 DEF CheckChunk, serverVars, sourceVars, seekg
<1>4. FileType'
  BY <1>2, <1>3 DEF FileInv, FileType, ServerType, CallType
<1>5. (call'.payload \/ status' = "OK") => finalized'
  BY <1>2, <1>3 DEF FileInv
<1>6. ASSUME Clean' PROVE FileClean'
  <2>1. Clean /\ FileClean
    BY <1>3, <1>6 DEF Clean, FileInv
  <2>2. Begun'
    BY <1>3, <2>1 DEF FileClean, Begun
  <2>3. finalized' => committed' = file' /\ call'.payload
    BY <1>2, <1>3, <2>1 DEF FileClean
  <2>4. ASSUME ~finalized PROVE Known' /\ AtStart'
    <3>1. Known /\ ChunkSent
      BY <1>3, <2>1, <2>4 DEF FileClean
    <3>2. CASE fail
      BY <1>3, <3>1, <3>2 DEF Known, ChunkSent, AtStart
    <3>3. CASE ~fail
      <4>1. source_size = Len(file) /\ expected = position - 1 /\ position % Quantum = 0
        BY <3>1, <3>3 DEF ChunkSent
      <4>2. (position - 1) % Quantum # 0
        <5>1. position \in Int
          BY <1>1
        <5> QED BY <4>1, <5>1, Neighbours, SessionAssumption
      <4>3. next_expected_ # expected
        BY <3>1, <4>1, <4>2 DEF Known
      <4> QED BY <1>3, <3>1, <3>3, <4>1, <4>3 DEF Known, AtStart
    <3> QED BY <3>2, <3>3
  <2>5. call'.at = "none" /\ ~InProgress'
    BY <1>2 DEF InProgress, Uploading, Resetting
  <2> QED BY <1>3, <2>2, <2>3, <2>4, <2>5 DEF FileClean
<1> QED BY <1>4, <1>5, <1>6 DEF FileInv

(* A step that leaves the file, the session and the server alone.           *)
LEMMA FileKept ==
  ASSUME FileInv, status' = "OK" => status = "OK" \/ call.payload,
         UNCHANGED <<committed, finalized, mishap, next_expected_, call, sourceVars,
                     source_size, expected, file>>
  PROVE  FileInv'
BY DEF FileInv, FileType, ServerType, CallType, Clean, FileClean, Begun, Known, AtStart,
       InProgress, Uploading, Resetting, ChunkFollows, ChunkSent, sourceVars

LEMMA FileStepInv ==
  ASSUME FileInv, FileStep(UploadNext)
  PROVE  FileInv'
<1>1. user = "file"
  BY DEF FileStep
<1>2. CASE SendChunk
  BY <1>2, SendChunkInv
<1>3. CASE CheckChunk
  BY <1>3, CheckChunkInv
<1>4. CASE LoopEnds
  <2>1. UNCHANGED <<committed, finalized, mishap, next_expected_, call, sourceVars,
                    source_size, expected, file>>
    BY <1>4 DEF LoopEnds, sessionVars, serverVars
  <2>2. status' = "OK" => call.payload
    BY <1>4 DEF LoopEnds
  <2> QED BY <2>1, <2>2, FileKept
<1>5. CASE UploadFailed
  <2>1. UNCHANGED <<committed, finalized, mishap, next_expected_, call, sourceVars,
                    source_size, expected, file>>
    BY <1>5 DEF UploadFailed, sessionVars, serverVars
  <2>2. status' # "OK"
    BY <1>5 DEF UploadFailed
  <2> QED BY <2>1, <2>2, FileKept
<1>6. CASE SessionStep /\ UNCHANGED <<uploadVars, file>>
  BY <1>1, <1>6, FileSessionStep
<1>7. CASE UploadReturned
  <2>1. UNCHANGED <<committed, finalized, mishap, next_expected_, call, sourceVars,
                    source_size, expected, file, status>>
    BY <1>7 DEF UploadReturned, sessionVars, serverVars, uploadVars
  <2> QED BY <2>1, FileKept
<1>8. CASE Expire /\ UNCHANGED <<uploadVars, file>>
  <2>1. UNCHANGED <<committed, finalized, mishap, next_expected_, call, sourceVars,
                    source_size, expected, file, status>>
    BY <1>8 DEF Expire, serverVars, uploadVars
  <2> QED BY <2>1, FileKept
<1> QED BY <1>2, <1>3, <1>4, <1>5, <1>6, <1>7, <1>8 DEF FileStep, UploadNext, Progress

------------------------------------------------------------------------------
(* The stream with a session.                                               *)

Whole == mishap \intersect {"early", "last"} = {}

LEMMA IdleFacts ==
  /\ Idle.name = "none" /\ Idle.stage = "none" /\ Idle.bytes = <<>> /\ Idle.trailing = <<>>
  /\ <<>> \in Bytes /\ Len(<<>>) = 0
BY EmptySeq DEF Idle, Bytes

(* A member function is called.                                             *)
LEMMA StartInv ==
  ASSUME StreamInv, NEW name \in {"write", "sync", "close"}, NEW bytes \in Bytes,
         Start(name, bytes),
         name = "close" => open /\ closes' = closes + 1,
         name # "close" => closes = 0 /\ closes' = closes
  PROVE  StreamInv'
<1>1. /\ op = Idle /\ op.name = "none" /\ op.stage = "none"
      /\ UNCHANGED <<committed, finalized, mishap, next_expected_, call, current_ios_buffer_, put,
                     open, last_response_, hashed, written, bad>>
  BY IdleFacts DEF Start, sessionVars, serverVars, bufferVars
<1>2. /\ op' = [name |-> name, bytes |-> bytes, stage |-> "flush", trailing |-> <<>>]
      /\ op'.name = name /\ op'.stage = "flush" /\ op'.bytes = bytes /\ op'.trailing = <<>>
  BY DEF Start, Idle
<1>3. StreamType /\ call.at = "none"
  BY <1>1 DEF StreamInv, StreamType
<1>4. op'.name # "none" /\ op' # Idle
  BY <1>2, IdleFacts
<1>5. StreamType'
  <2>1. OpType'
    BY <1>2, <1>4, IdleFacts DEF OpType
  <2>2. ServerType' /\ CallType'
    BY <1>1, <1>3 DEF StreamType, ServerType, CallType
  <2>3. closes' \in Nat /\ (closes' = 0 => closes = 0 /\ name # "close")
    BY <1>3 DEF StreamType
  <2> QED BY <1>1, <1>2, <1>3, <2>1, <2>2, <2>3 DEF StreamType
<1>6. FlushAt("none")' /\ ~FlushAt("ok")' /\ ~FlushAt("upload")' /\ ~FlushAt("error")' /\ Early'
  BY <1>1, <1>2, <1>3 DEF FlushAt, Early
<1>7. ASSUME ~bad' PROVE FlushInv'
  BY <1>1, <1>2, <1>3, <1>6 DEF FlushInv
<1>8. ASSUME ~bad', Whole' PROVE HashedIsStored'
  <2>1. HashedIsStored
    BY <1>1, <1>8 DEF StreamInv, Whole
  <2>2. open
    BY <1>3 DEF StreamType
  <2>3. Even
    BY <1>1, <2>1, <2>2 DEF HashedIsStored
  <2>4. Even'
    BY <1>1, <2>3 DEF Even
  <2> QED BY <1>2, <1>4, <1>6, <2>4 DEF HashedIsStored
<1>9. ASSUME ~bad', PutAway' PROVE WrittenIsSent'
  <2>1. WrittenIsSent
    BY <1>1, <1>9 DEF StreamInv, PutAway
  <2>2. open
    BY <1>3 DEF StreamType
  <2>3. Buffered
    BY <1>1, <2>1, <2>2 DEF WrittenIsSent
  <2>4. Buffered'
    BY <1>1, <2>3 DEF Buffered
  <2> QED BY <1>2, <1>4, <1>6, <2>4 DEF WrittenIsSent
<1> QED BY <1>5, <1>7, <1>8, <1>9 DEF StreamInv, Whole

(* put() with room.                                                         *)
LEMMA PutFitsInv ==
  ASSUME StreamInv, PutFits
  PROVE  StreamInv'
<1>1. /\ op = Idle /\ op.name = "none" /\ op.stage = "none"
      /\ UNCHANGED <<committed, finalized, next_expected_, call, current_ios_buffer_, op,
                     open, last_response_, hashed, bad, closes>>
      /\ mishap' = mishap \union {"put"} /\ put' = put + 1
      /\ written' = written \o NextBytes(1)
  BY IdleFacts DEF PutFits
<1>2. StreamType /\ call.at = "none"
  BY <1>1 DEF StreamInv, StreamType
<1>3. written' \in Bytes /\ put' \in Nat
  <2>1. written \in Bytes /\ put \in Nat
    BY <1>2 DEF StreamType
  <2>2. NextBytes(1) \in Bytes
    BY <2>1, NextBytesFacts
  <2> QED BY <1>1, <2>1, <2>2, Joined
<1>4. StreamType'
  BY <1>1, <1>2, <1>3 DEF StreamType, ServerType, CallType, OpType
<1>5. ASSUME ~bad' PROVE FlushInv'
  BY <1>1, <1>2 DEF FlushInv, FlushAt, Early
<1>6. ASSUME ~bad', Whole' PROVE HashedIsStored'
  <2>1. HashedIsStored
    BY <1>1, <1>6 DEF StreamInv, Whole
  <2> QED BY <1>1, <2>1 DEF HashedIsStored, Even, FlushAt, Early
<1>7. ~PutAway'
  BY <1>1 DEF PutAway
<1> QED BY <1>4, <1>5, <1>6, <1>7 DEF StreamInv, Whole

LEMMA FlushSkipsInv ==
  ASSUME StreamInv, FlushSkips
  PROVE  StreamInv'
<1>1. /\ op.stage = "flush" /\ call.at = "none" /\ NothingToFlush
      /\ op' = [op EXCEPT !.stage = "ok"]
      /\ UNCHANGED <<committed, finalized, mishap, next_expected_, call, current_ios_buffer_, put,
                     open, last_response_, hashed, written, bad, closes>>
  BY DEF FlushSkips, Flushing, Stage, sessionVars, serverVars, bufferVars
<1>2. StreamType /\ op # Idle /\ op.name # "none"
  BY <1>1, IdleFacts DEF StreamInv, StreamType, OpType
<1>3. /\ op' = [name |-> op'.name, bytes |-> op'.bytes, stage |-> op'.stage, trailing |-> op'.trailing]
      /\ op'.name = op.name /\ op'.stage = "ok" /\ op'.bytes = op.bytes /\ op'.trailing = op.trailing
  BY <1>1, <1>2 DEF StreamType, OpType
<1>4. op' # Idle
  BY <1>2, <1>3, IdleFacts
<1>5. StreamType'
  <2>1. OpType'
    BY <1>2, <1>3 DEF StreamType, OpType
  <2>2. ServerType' /\ CallType'
    BY <1>1, <1>2 DEF StreamType, ServerType, CallType
  <2> QED BY <1>1, <1>2, <1>3, <2>1, <2>2 DEF StreamType
<1>6. ~FlushAt("none")' /\ ~FlushAt("ok")' /\ ~FlushAt("upload")' /\ ~FlushAt("error")' /\ FlushAt("none")
  BY <1>1, <1>3 DEF FlushAt
<1>7. op.name = "do_close" => put = 0 /\ open
  BY <1>1, <1>2 DEF NothingToFlush, Final, StreamType
<1>8. ASSUME ~bad' PROVE FlushInv'
  BY <1>1, <1>3, <1>6, <1>7 DEF FlushInv
<1>9. ASSUME ~bad', Whole' PROVE HashedIsStored'
  <2>1. HashedIsStored
    BY <1>1, <1>9 DEF StreamInv, Whole
  <2>2. Even
    BY <1>1, <1>2, <1>6, <1>7, <2>1 DEF HashedIsStored, Early, StreamType
  <2>3. Even'
    BY <1>1, <2>2 DEF Even
  <2> QED BY <1>3, <1>4, <1>6, <2>3 DEF HashedIsStored, Early
<1>10. ASSUME ~bad', PutAway' PROVE WrittenIsSent'
  <2>1. WrittenIsSent
    BY <1>1, <1>10 DEF StreamInv, PutAway
  <2>2. CASE Early
    <3>1. Buffered
      BY <1>6, <2>1, <2>2 DEF WrittenIsSent
    <3>2. Buffered'
      BY <1>1, <3>1 DEF Buffered
    <3> QED BY <1>3, <1>4, <1>6, <2>2, <3>2 DEF WrittenIsSent, Early
  <2>3. CASE op.name = "do_close"
    <3>1. Buffered \/ HashedTwice
      BY <1>6, <2>1, <2>3 DEF WrittenIsSent
    <3>2. last_response_ = "400"
      BY <1>7, <2>3, <3>1, WriteAssumption DEF Buffered, HashedTwice
    <3> QED BY <1>1, <1>3, <1>4, <1>6, <2>3, <3>2 DEF WrittenIsSent, Early
  <2> QED BY <1>2, <2>2, <2>3 DEF Early, StreamType
<1> QED BY <1>5, <1>8, <1>9, <1>10 DEF StreamInv, Whole

(* Flush() sends a chunk: the first part of the buffer, or all that is left.*)
LEMMA FlushSendsInv ==
  ASSUME StreamInv, FlushSends, user = "stream"
  PROVE  StreamInv'
<1> USE WriteAssumption
<1> DEFINE n == IF Final THEN put ELSE max_buffer_size_
           chunk == resize(current_ios_buffer_, n)
           rest == IF Final THEN <<>>
                   ELSE SubSeq(current_ios_buffer_, max_buffer_size_ + 1, Len(current_ios_buffer_))
           size == IF Final THEN next_expected_ + put ELSE 0
<1>1. /\ op.stage = "flush" /\ call.at = "none" /\ ~NothingToFlush
      /\ Final \/ Len(current_ios_buffer_) >= max_buffer_size_
      /\ UNCHANGED <<committed, finalized, mishap, next_expected_, put, open, last_response_,
                     written, bad, closes>>
  BY DEF FlushSends, Flushing, UploadChunk, serverVars
<1>2. current_ios_buffer_' = chunk /\ hashed' = hashed \o chunk
  BY DEF FlushSends
<1>3. call' = [at |-> "upload", buffer |-> chunk, size |-> size, payload |-> FALSE]
  BY DEF FlushSends, UploadChunk, Retried
<1>4. op' = [op EXCEPT !.trailing = rest]
  BY DEF FlushSends
<1>5. StreamType /\ op # Idle /\ op.name # "none"
  BY <1>1, IdleFacts DEF StreamInv, StreamType, OpType
<1>6. /\ current_ios_buffer_ \in Bytes /\ put \in Nat /\ next_expected_ \in Nat /\ hashed \in Bytes
      /\ committed \in Bytes /\ written \in Bytes
      /\ Len(current_ios_buffer_) \in Nat /\ Len(hashed) \in Nat /\ Len(committed) \in Nat
      /\ max_buffer_size_ \in Nat
  BY <1>5 DEF StreamType, ServerType, Bytes
<1>7. /\ n \in Nat /\ n > 0 /\ put > 0 /\ (~Final => put > max_buffer_size_)
  BY <1>1, <1>6 DEF NothingToFlush
<1>8. n > 1 \/ Final
  <2>1. max_buffer_size_ # 1
    BY SmallRemainders, SessionAssumption
  <2> QED BY <1>6, <2>1
<1>9. chunk \in Bytes /\ Len(chunk) = n
  BY <1>6, <1>7, ResizeFacts
<1>10. rest \in Bytes /\ (~Final => chunk \o rest = current_ios_buffer_)
                      /\ (~Final => Len(rest) = Len(current_ios_buffer_) - n)
  <2>1. CASE Final
    BY <2>1, EmptySeq DEF Bytes
  <2>2. CASE ~Final
    <3>1. max_buffer_size_ <= Len(current_ios_buffer_)
      BY <1>1, <1>6, <2>2
    <3>2. chunk = SubSeq(current_ios_buffer_, 1, max_buffer_size_)
      BY <1>6, <2>2, <3>1, ResizeFacts
    <3>3. rest = SubSeq(current_ios_buffer_, max_buffer_size_ + 1, Len(current_ios_buffer_))
      BY <2>2
    <3> HIDE DEF chunk, rest
    <3>4. /\ rest \in Bytes /\ chunk \o rest = current_ios_buffer_
          /\ Len(rest) = Len(current_ios_buffer_) - max_buffer_size_
      BY <1>6, <3>1, <3>2, <3>3, CutBytes
    <3> QED BY <2>2, <3>4 DEF chunk
  <2> QED BY <2>1, <2>2
<1>11. size \in Int /\ (~Final => size = 0) /\ (Final => size = next_expected_ + put)
  BY <1>6
<1>12. ~Final => n = max_buffer_size_
  OBVIOUS
<1>13. Final => n = put
  OBVIOUS
<1>14. Final => chunk = resize(current_ios_buffer_, put)
  OBVIOUS
<1> HIDE DEF n, chunk, rest, size
<1>15. /\ call'.at = "upload" /\ call'.buffer = chunk /\ call'.size = size
       /\ call' = [at |-> call'.at, buffer |-> call'.buffer, size |-> call'.size,
                   payload |-> call'.payload]
  BY <1>3
<1>16. /\ op' = [name |-> op'.name, bytes |-> op'.bytes, stage |-> op'.stage, trailing |-> op'.trailing]
       /\ op'.name = op.name /\ op'.stage = "flush" /\ op'.bytes = op.bytes /\ op'.trailing = rest
  BY <1>1, <1>4, <1>5 DEF StreamType, OpType
<1>17. op' # Idle
  BY <1>5, <1>16, IdleFacts
<1>18. hashed' \in Bytes /\ Len(hashed') = Len(hashed) + n
  BY <1>2, <1>6, <1>9, Joined
<1>19. StreamType'
  <2>1. OpType'
    BY <1>5, <1>10, <1>16 DEF StreamType, OpType
  <2>2. ServerType' /\ CallType'
    BY <1>1, <1>5, <1>9, <1>11, <1>15 DEF StreamType, ServerType, CallType
  <2> QED BY <1>1, <1>2, <1>5, <1>9, <1>15, <1>16, <1>18, <2>1, <2>2 DEF StreamType
<1>20. /\ FlushAt("upload")' /\ ~FlushAt("ok")' /\ ~FlushAt("none")' /\ ~FlushAt("error")'
       /\ FlushAt("none") /\ (Final <=> op'.name = "do_close") /\ (Early' <=> Early)
       /\ (Early <=> ~Final)
  BY <1>1, <1>5, <1>15, <1>16 DEF FlushAt, Final, Early, StreamType
<1>21. ASSUME ~bad' PROVE FlushInv'
  BY <1>1, <1>7, <1>9, <1>11, <1>12, <1>13, <1>15, <1>16, <1>20 DEF FlushInv
<1>22. ASSUME ~bad', Whole' PROVE HashedIsStored'
  <2>1. HashedIsStored
    BY <1>1, <1>22 DEF StreamInv, Whole
  <2>2. CASE Final
    BY <1>16, <1>17, <1>20, <2>2 DEF HashedIsStored
  <2>3. CASE ~Final
    <3>1. Even
      BY <1>20, <2>1, <2>3 DEF HashedIsStored
    <3>2. hashed' = committed' \o chunk /\ Len(call'.buffer) > 1
      BY <1>1, <1>2, <1>8, <1>9, <1>15, <2>3, <3>1 DEF Even
    <3>3. (next_expected_ = Len(committed) /\ Len(committed) # 1 /\ ~finalized)'
      BY <1>1, <3>1 DEF Even
    <3> QED BY <1>15, <1>16, <1>17, <1>20, <2>3, <3>2, <3>3 DEF HashedIsStored
  <2> QED BY <2>2, <2>3
<1>23. ASSUME ~bad', PutAway' PROVE WrittenIsSent'
  <2>1. WrittenIsSent
    BY <1>1, <1>23 DEF StreamInv, PutAway
  <2>2. CASE ~Final
    <3>1. Buffered
      BY <1>20, <2>1, <2>2 DEF WrittenIsSent
    <3>2. hashed' \o op'.trailing = written'
      <4>0. hashed \in Bytes /\ chunk \in Bytes /\ rest \in Bytes
        BY <1>6, <1>9, <1>10
      <4>1. Associates(hashed, chunk, rest)
        BY <4>0, JoinedThree
      <4> QED BY <1>1, <1>2, <1>10, <1>16, <2>2, <3>1, <4>1 DEF Buffered, Associates
    <3>3. Len(op'.trailing) > 0
      BY <1>6, <1>7, <1>10, <1>12, <1>16, <2>2, <3>1 DEF Buffered
    <3>4. HashedTwice'
      BY <1>1, <1>6, <1>7, <1>12, <1>18, <2>2, <3>1 DEF Buffered, HashedTwice
    <3> QED BY <1>16, <1>17, <1>20, <2>2, <3>2, <3>3, <3>4 DEF WrittenIsSent
  <2>3. CASE Final
    <3>1. CASE Buffered
      <4>1. chunk = current_ios_buffer_
        BY <1>6, <1>14, <2>3, <3>1, ResizeSame DEF Buffered
      <4>2. hashed' = written'
        BY <1>1, <1>2, <3>1, <4>1 DEF Buffered
      <4> QED BY <1>16, <1>17, <1>20, <2>3, <4>2 DEF WrittenIsSent
    <3>2. CASE HashedTwice
      <4>1. (Len(committed) < Len(hashed) /\ next_expected_ + put < Len(hashed))'
        BY <1>1, <1>6, <1>7, <1>13, <1>18, <2>3, <3>2 DEF HashedTwice
      <4> QED BY <1>16, <1>17, <1>20, <2>3, <4>1 DEF WrittenIsSent
    <3>3. Buffered \/ HashedTwice
      BY <1>16, <1>20, <2>1, <2>3 DEF WrittenIsSent
    <3> QED BY <3>1, <3>2, <3>3
  <2> QED BY <2>2, <2>3
<1> QED BY <1>19, <1>21, <1>22, <1>23 DEF StreamInv, Whole

LEMMA FlushReturnsInv ==
  ASSUME StreamInv, FlushReturns
  PROVE  StreamInv'
<1> USE WriteAssumption
<1>1. /\ op.stage = "flush" /\ call.at \in {"ok", "error", "threw"}
      /\ UNCHANGED <<committed, finalized, mishap, next_expected_, hashed, written, bad, closes>>
  BY DEF FlushReturns, Returned, serverVars
<1>2. StreamType /\ op # Idle /\ op.name # "none" /\ call.at \in {"ok", "error"}
  BY <1>1, IdleFacts DEF StreamInv, StreamType, OpType
<1>3. /\ op.trailing \in Bytes /\ Len(op.trailing) \in Nat /\ Len(hashed) \in Nat
      /\ current_ios_buffer_ \in Bytes /\ put \in Nat /\ open
  BY <1>1, <1>2 DEF StreamType, OpType, Bytes
<1>4. /\ call' = [call EXCEPT !.at = "none"]
      /\ call'.at = "none" /\ call'.buffer = call.buffer /\ call'.size = call.size
      /\ call' = [at |-> call'.at, buffer |-> call'.buffer, size |-> call'.size,
                  payload |-> call'.payload]
  BY <1>2 DEF FlushReturns, StreamType, CallType
<1>5. /\ op' = [op EXCEPT !.stage = IF call.at = "ok" THEN "ok" ELSE "failed"]
      /\ op' = [name |-> op'.name, bytes |-> op'.bytes, stage |-> op'.stage, trailing |-> op'.trailing]
      /\ op'.name = op.name /\ op'.bytes = op.bytes /\ op'.trailing = op.trailing
      /\ op'.stage = IF call.at = "ok" THEN "ok" ELSE "failed"
  BY <1>2 DEF FlushReturns, Stage, StreamType, OpType
<1>6. op' # Idle
  BY <1>2, <1>5, IdleFacts
<1>7. ASSUME call.at = "ok"
      PROVE  /\ current_ios_buffer_' = op.trailing /\ put' = Len(op.trailing)
             /\ (open' <=> op.name # "do_close")
             /\ last_response_' = IF call.payload THEN "metadata" ELSE "empty"
  BY <1>7 DEF FlushReturns, Final
<1>8. ASSUME call.at # "ok"
      PROVE  UNCHANGED <<current_ios_buffer_, put, open, last_response_>>
  BY <1>8 DEF FlushReturns, bufferVars
<1>9. /\ ~FlushAt("none")' /\ ~FlushAt("ok")' /\ ~FlushAt("upload")' /\ ~FlushAt("error")'
      /\ (Early' <=> Early) /\ (Early <=> op.name # "do_close")
      /\ (FlushAt("ok") <=> call.at = "ok") /\ (FlushAt("error") <=> call.at = "error")
  BY <1>1, <1>2, <1>5 DEF FlushAt, Early, StreamType
<1>10. StreamType'
  <2>1. OpType'
    BY <1>2, <1>5 DEF StreamType, OpType
  <2>2. ServerType' /\ CallType'
    BY <1>1, <1>2, <1>4 DEF StreamType, ServerType, CallType
  <2>3. current_ios_buffer_' \in Bytes /\ put' \in Nat
    BY <1>3, <1>7, <1>8
  <2>4. (closes = 0 \/ op.name = "close") => open'
    BY <1>2, <1>3, <1>7, <1>8 DEF StreamType
  <2> QED BY <1>1, <1>2, <1>4, <1>5, <2>1, <2>2, <2>3, <2>4 DEF StreamType
<1>11. ASSUME ~bad' PROVE FlushInv'
  <2>1. FlushInv
    BY <1>1, <1>11 DEF StreamInv
  <2>2. CASE call.at = "ok"
    <3>1. op.name = "do_close" /\ "last" \notin mishap => call.payload /\ finalized
      BY <1>9, <2>1, <2>2 DEF FlushInv
    <3> QED BY <1>1, <1>5, <1>7, <1>9, <2>2, <3>1 DEF FlushInv
  <2>3. CASE call.at = "error"
    <3>1. Early => put > max_buffer_size_
      BY <1>1, <2>1, <2>3 DEF FlushInv
    <3> QED BY <1>5, <1>8, <1>9, <2>3, <3>1 DEF FlushInv
  <2> QED BY <1>2, <2>2, <2>3
<1>12. ASSUME ~bad', Whole' PROVE HashedIsStored'
  <2>1. HashedIsStored /\ FlushInv /\ "last" \notin mishap
    BY <1>1, <1>12 DEF StreamInv, Whole
  <2>2. CASE call.at = "ok"
    <3>1. Early => Even
      BY <1>9, <2>1, <2>2 DEF HashedIsStored
    <3>2. Early => Even'
      BY <1>1, <3>1 DEF Even
    <3>3. op.name = "do_close" => last_response_' = "metadata" /\ ~open'
      BY <1>7, <1>9, <2>1, <2>2 DEF FlushInv
    <3> QED BY <1>5, <1>6, <1>9, <2>2, <3>2, <3>3 DEF HashedIsStored
  <2>3. CASE call.at = "error"
    BY <1>5, <1>6, <1>9, <2>3 DEF HashedIsStored
  <2> QED BY <1>2, <2>2, <2>3
<1>13. ASSUME ~bad', PutAway' PROVE WrittenIsSent'
  <2>1. WrittenIsSent
    BY <1>1, <1>13 DEF StreamInv, PutAway
  <2>2. CASE call.at = "ok"
    <3>1. CASE Early
      <4>1. /\ hashed \o op.trailing = written /\ Len(op.trailing) > 0
            /\ Len(committed) <= Len(hashed) /\ next_expected_ <= Len(hashed)
        BY <1>9, <2>1, <2>2, <3>1 DEF WrittenIsSent
      <4>2. Buffered'
        BY <1>1, <1>7, <2>2, <4>1 DEF Buffered
      <4> QED BY <1>5, <1>6, <1>9, <2>2, <3>1, <4>2 DEF WrittenIsSent
    <3>2. CASE ~Early
      <4>1. hashed = written \/ Len(committed) < Len(hashed)
        BY <1>9, <2>1, <2>2, <3>2 DEF WrittenIsSent
      <4> QED BY <1>1, <1>5, <1>6, <1>7, <1>9, <2>2, <3>2, <4>1 DEF WrittenIsSent
    <3> QED BY <3>1, <3>2
  <2>3. CASE call.at = "error"
    <3>1. Early => HashedTwice
      BY <1>9, <2>1, <2>3 DEF WrittenIsSent
    <3>2. Early => HashedTwice'
      BY <1>1, <1>8, <2>3, <3>1 DEF HashedTwice
    <3> QED BY <1>5, <1>6, <1>9, <2>3, <3>2 DEF WrittenIsSent
  <2> QED BY <1>2, <2>2, <2>3
<1> QED BY <1>10, <1>11, <1>12, <1>13 DEF StreamInv, Whole

(* A stream that is bad needs its type only.                                *)
LEMMA BadStream ==
  ASSUME StreamType', bad'
  PROVE  StreamInv'
BY DEF StreamInv

LEMMA FlushThrowsInv ==
  ASSUME StreamInv, FlushThrows
  PROVE  StreamInv'
<1>1. /\ bad' /\ op' = Idle /\ call.at = "none"
      /\ UNCHANGED <<committed, finalized, mishap, next_expected_, call, current_ios_buffer_, put,
                     open, last_response_, hashed, written, closes>>
  BY DEF FlushThrows, Flushing, sessionVars, serverVars, bufferVars
<1>2. OpType'
  BY <1>1, IdleFacts DEF OpType, Idle
<1>3. ServerType' /\ CallType'
  BY <1>1 DEF StreamInv, StreamType, ServerType, CallType
<1>4. StreamType'
  BY <1>1, <1>2, <1>3, IdleFacts DEF StreamInv, StreamType
<1> QED BY <1>1, <1>4, BadStream

LEMMA FinishWriteInv ==
  ASSUME StreamInv, FinishWrite
  PROVE  StreamInv'
<1>1. /\ op' = Idle /\ op.name \in {"write", "sync"} /\ op.stage \in {"ok", "failed"}
      /\ UNCHANGED <<committed, finalized, mishap, next_expected_, call, open, last_response_,
                     hashed, closes>>
  BY DEF FinishWrite, Flushed, sessionVars, serverVars
<1>2. StreamType /\ op.bytes \in Bytes /\ call.at = "none" /\ closes = 0 /\ open
  BY <1>1 DEF StreamInv, StreamType, OpType
<1>3. /\ written \in Bytes /\ current_ios_buffer_ \in Bytes /\ put \in Nat /\ hashed \in Bytes
      /\ Len(op.bytes) \in Nat
  BY <1>2 DEF StreamType, Bytes
<1>4. CASE op.stage = "ok"
  <2>1. /\ current_ios_buffer_' = current_ios_buffer_ \o op.bytes
        /\ put' = put + Len(op.bytes) /\ written' = written \o op.bytes
        /\ UNCHANGED bad
    BY <1>4 DEF FinishWrite
  <2>2. /\ written' \in Bytes /\ current_ios_buffer_' \in Bytes /\ put' \in Nat
        /\ Len(current_ios_buffer_') = Len(current_ios_buffer_) + Len(op.bytes)
    <3>1. written \o op.bytes \in Bytes
      BY <1>2, <1>3, Joined
    <3>2. /\ current_ios_buffer_ \o op.bytes \in Bytes
          /\ Len(current_ios_buffer_ \o op.bytes) = Len(current_ios_buffer_) + Len(op.bytes)
      BY <1>2, <1>3, Joined
    <3> QED BY <1>3, <2>1, <3>1, <3>2
  <2>3. StreamType'
    <3>1. OpType'
      BY <1>1, IdleFacts DEF OpType, Idle
    <3>2. ServerType' /\ CallType'
      BY <1>1, <1>2 DEF StreamType, ServerType, CallType
    <3> QED BY <1>1, <1>2, <2>2, <3>1, <3>2, IdleFacts DEF StreamType
  <2>4. ~Early' /\ op'.name # "do_close" /\ op'.name # "close"
    BY <1>1, IdleFacts DEF Early
  <2>5. Early
    BY <1>1 DEF Early
  <2>6. ASSUME ~bad' PROVE FlushInv'
    BY <2>4 DEF FlushInv
  <2>7. ASSUME ~bad', Whole' PROVE HashedIsStored'
    <3>1. Even
      BY <1>1, <1>4, <2>1, <2>5, <2>7 DEF StreamInv, Whole, HashedIsStored
    <3>2. Even'
      BY <1>1, <3>1 DEF Even
    <3> QED BY <2>4, <3>2 DEF HashedIsStored, Even
  <2>8. ASSUME ~bad', PutAway' PROVE WrittenIsSent'
    <3>1. Buffered
      BY <1>1, <1>4, <2>1, <2>5, <2>8 DEF StreamInv, PutAway, WrittenIsSent
    <3>2. (hashed \o current_ios_buffer_) \o op.bytes = hashed \o (current_ios_buffer_ \o op.bytes)
      <4>1. Associates(hashed, current_ios_buffer_, op.bytes)
        BY <1>2, <1>3, JoinedThree
      <4> QED BY <4>1 DEF Associates
    <3>3. hashed' \o current_ios_buffer_' = written'
      BY <1>1, <2>1, <3>1, <3>2 DEF Buffered
    <3>4. put' = Len(current_ios_buffer_') /\ (put > 0 => put' > 0)
      BY <1>3, <2>1, <2>2, <3>1 DEF Buffered
    <3>5. Buffered'
      BY <1>1, <3>1, <3>3, <3>4 DEF Buffered
    <3> QED BY <1>1, <1>2, <2>4, <3>5 DEF WrittenIsSent
  <2> QED BY <2>3, <2>6, <2>7, <2>8 DEF StreamInv, Whole
<1>5. CASE op.stage = "failed"
  <2>1. bad' /\ UNCHANGED <<current_ios_buffer_, put, written>>
    BY <1>5 DEF FinishWrite
  <2>2. OpType'
    BY <1>1, IdleFacts DEF OpType, Idle
  <2>3. ServerType' /\ CallType'
    BY <1>1, <1>2 DEF StreamType, ServerType, CallType
  <2>4. StreamType'
    BY <1>1, <1>2, <2>1, <2>2, <2>3, IdleFacts DEF StreamType
  <2> QED BY <2>1, <2>4, BadStream
<1> QED BY <1>1, <1>4, <1>5

LEMMA DoCloseInv ==
  ASSUME StreamInv, DoClose
  PROVE  StreamInv'
<1> USE WriteAssumption
<1>1. /\ op.name = "close" /\ op.stage \in {"ok", "failed"}
      /\ UNCHANGED <<committed, finalized, mishap, next_expected_, call, current_ios_buffer_, put,
                     open, last_response_, hashed, written, bad, closes>>
  BY DEF DoClose, Flushed, sessionVars, serverVars, bufferVars
<1>2. /\ op' = [name |-> "do_close", bytes |-> <<>>, stage |-> "flush", trailing |-> <<>>]
      /\ op'.name = "do_close" /\ op'.stage = "flush" /\ op'.bytes = <<>> /\ op'.trailing = <<>>
  BY DEF DoClose, Idle
<1>3. StreamType /\ call.at = "none" /\ open /\ closes # 0 /\ Early /\ put \in Nat
  BY <1>1 DEF StreamInv, StreamType, Early
<1>4. op' # Idle
  BY <1>2, IdleFacts
<1>5. StreamType'
  <2>1. OpType'
    BY <1>2, IdleFacts DEF OpType
  <2>2. ServerType' /\ CallType'
    BY <1>1, <1>3 DEF StreamType, ServerType, CallType
  <2> QED BY <1>1, <1>2, <1>3, <2>1, <2>2 DEF StreamType
<1>6. FlushAt("none")' /\ ~FlushAt("ok")' /\ ~FlushAt("upload")' /\ ~FlushAt("error")' /\ ~Early'
  BY <1>1, <1>2, <1>3 DEF FlushAt, Early
<1>7. ASSUME ~bad' PROVE FlushInv'
  BY <1>2, <1>6 DEF FlushInv
<1>8. ASSUME ~bad', Whole' PROVE HashedIsStored'
  <2>1. HashedIsStored /\ FlushInv
    BY <1>1, <1>8 DEF StreamInv, Whole
  <2>2. Even \/ put > max_buffer_size_
    BY <1>1, <1>3, <2>1 DEF HashedIsStored, FlushInv
  <2>3. Even' \/ put' > 0
    BY <1>1, <1>3, <2>2 DEF Even
  <2> QED BY <1>2, <1>4, <1>6, <2>3 DEF HashedIsStored
<1>9. ASSUME ~bad', PutAway' PROVE WrittenIsSent'
  <2>1. WrittenIsSent
    BY <1>1, <1>9 DEF StreamInv, PutAway
  <2>2. Buffered \/ HashedTwice
    BY <1>1, <1>3, <2>1 DEF WrittenIsSent
  <2>3. Buffered' \/ HashedTwice'
    BY <1>1, <2>2 DEF Buffered, HashedTwice
  <2> QED BY <1>2, <1>4, <1>6, <2>3 DEF WrittenIsSent
<1> QED BY <1>5, <1>7, <1>8, <1>9 DEF StreamInv, Whole

LEMMA FinishCloseInv ==
  ASSUME StreamInv, FinishClose
  PROVE  StreamInv'
<1>1. /\ op' = Idle /\ op.name = "do_close" /\ op.stage \in {"ok", "failed"}
      /\ UNCHANGED <<committed, finalized, mishap, next_expected_, call, current_ios_buffer_, put,
                     open, last_response_, hashed, written, closes>>
      /\ ~bad' => ~bad /\ op.stage = "ok" /\ last_response_ # "400" /\ ValidateHash
  BY DEF FinishClose, Flushed, sessionVars, serverVars, bufferVars
<1>2. StreamType /\ call.at = "none" /\ closes # 0 /\ Len(committed) \in Nat /\ Len(hashed) \in Nat
  BY <1>1 DEF StreamInv, StreamType, ServerType, Bytes
<1>3. StreamType'
  <2>1. OpType'
    BY <1>1, IdleFacts DEF OpType, Idle
  <2>2. ServerType' /\ CallType'
    BY <1>1, <1>2 DEF StreamType, ServerType, CallType
  <2> QED BY <1>1, <1>2, <2>1, <2>2, IdleFacts DEF StreamType
<1>4. ~Early' /\ op'.name # "do_close" /\ op'.name # "close"
  BY <1>1, IdleFacts DEF Early
<1>5. ASSUME ~bad' PROVE FlushInv'
  BY <1>4 DEF FlushInv
<1>6. ASSUME ~bad', Whole' PROVE HashedIsStored'
  <2>1. HashedIsStored
    BY <1>1, <1>6 DEF StreamInv, Whole
  <2>2. Even \/ (last_response_ = "metadata" /\ ~open)
    BY <1>1, <1>6, <2>1 DEF HashedIsStored
  <2>3. (open => Even) /\ (Hashing => hashed = committed)
    BY <1>1, <1>6, <2>2 DEF Even, ValidateHash
  <2>4. (open' => Even') /\ (Hashing => hashed' = committed')
    BY <1>1, <2>3 DEF Even
  <2> QED BY <1>4, <2>4 DEF HashedIsStored
<1>7. ASSUME ~bad', PutAway' PROVE WrittenIsSent'
  <2>1. WrittenIsSent /\ FlushInv
    BY <1>1, <1>7 DEF StreamInv, PutAway
  <2>2. ~open /\ (hashed = written \/ Len(committed) < Len(hashed))
    BY <1>1, <1>7, <2>1 DEF WrittenIsSent
  <2>3. ASSUME Hashing, "last" \notin mishap PROVE finalized /\ committed = written
    <3>1. last_response_ = "metadata" /\ finalized
      BY <1>1, <1>7, <2>1, <2>2, <2>3 DEF FlushInv
    <3>2. hashed = committed
      BY <1>1, <1>7, <2>3, <3>1 DEF ValidateHash
    <3> QED BY <1>2, <2>2, <3>1, <3>2
  <2> QED BY <1>1, <1>2, <1>4, <2>2, <2>3 DEF WrittenIsSent
<1> QED BY <1>3, <1>5, <1>6, <1>7 DEF StreamInv, Whole

LEMMA StreamAnsweredInv ==
  ASSUME StreamInv, UploadAnswered, UNCHANGED streamVars
  PROVE  StreamInv'
<1> USE WriteAssumption
<1>1. /\ StreamType /\ ServerType /\ CallType /\ committed \in Bytes /\ next_expected_ \in Nat
      /\ Len(committed) \in Nat /\ Len(call.buffer) \in Nat /\ call.buffer \in Bytes
      /\ hashed \in Bytes /\ Len(hashed) \in Nat /\ put \in Nat
      /\ max_buffer_size_ \in Nat
  BY DEF StreamInv, StreamType, ServerType, CallType, Bytes
<1>2. PICK k \in Storable : Store(k) /\ mishap' = mishap \union StoredInPart(k)
  BY DEF UploadAnswered
<1>3. PICK range \in RangeHeader : Update(range)
  BY DEF UploadAnswered
<1>4. /\ call'.at = "ok" /\ (call'.payload <=> finalized')
      /\ call'.buffer = call.buffer /\ call'.size = call.size
      /\ call' = [at |-> call'.at, buffer |-> call'.buffer, size |-> call'.size,
                  payload |-> call'.payload]
  BY <1>1 DEF UploadAnswered, CallType
<1>5. UNCHANGED <<current_ios_buffer_, put, open, last_response_, hashed, written, bad, closes, op>>
  BY DEF streamVars, bufferVars
<1>6. /\ next_expected_ <= Len(committed)
      /\ k \in Nat /\ k <= Len(call.buffer)
      /\ committed' \in Bytes /\ Len(committed) <= Len(committed')
      /\ finalized => finalized' /\ committed' = committed
      /\ finalized' <=> finalized \/ (call.size # 0 /\ Len(committed') >= call.size)
      /\ ~finalized =>
           /\ Len(committed') = IF next_expected_ + k <= Len(committed) THEN Len(committed)
                                ELSE next_expected_ + k
           /\ \A i \in 1..Len(committed) : committed'[i] = committed[i]
           /\ \A i \in 1..Len(committed') :
                i > Len(committed) => committed'[i] = call.buffer[i - next_expected_]
  BY <1>1, <1>2, StoreFacts
<1>7. /\ next_expected_' \in Nat /\ next_expected_' <= Len(committed')
      /\ ~finalized' /\ Len(committed') # 1 => next_expected_' = Len(committed')
      /\ Len(committed') \in Nat
  BY <1>3, <1>6, UpdateFacts DEF Bytes
<1>8. call.at = "upload" /\ op.stage = "flush" /\ op # Idle /\ op.name # "none"
  BY <1>1, IdleFacts DEF UploadAnswered, Uploading, StreamType, OpType
<1>9. StreamType'
  <2>1. OpType'
    BY <1>1, <1>5 DEF StreamType, OpType
  <2>2. ServerType' /\ CallType'
    BY <1>1, <1>4, <1>6, <1>7 DEF ServerType, CallType
  <2> QED BY <1>1, <1>4, <1>5, <1>8, <2>1, <2>2 DEF StreamType
<1>10. /\ FlushAt("upload") /\ FlushAt("ok")' /\ ~FlushAt("none")' /\ ~FlushAt("upload")'
       /\ ~FlushAt("error")' /\ (Early' <=> Early) /\ (Early <=> op.name # "do_close")
  BY <1>1, <1>4, <1>5, <1>8 DEF FlushAt, Early, StreamType
(* The server has at most what is sent, and all of the last chunk.          *)
<1>11. Len(committed') <= Len(committed) \/ Len(committed') <= next_expected_ + Len(call.buffer)
  BY <1>1, <1>6, <1>7
<1>12. k = Len(call.buffer) => finalized' \/ Len(committed') >= next_expected_ + Len(call.buffer)
  BY <1>1, <1>6, <1>7
<1>13. mishap \subseteq mishap'
  BY <1>2
<1>14. ASSUME ~bad' PROVE FlushInv'
  <2>1. FlushInv
    BY <1>5, <1>14 DEF StreamInv
  <2>2. Early => put' > max_buffer_size_
    BY <1>5, <1>8, <2>1 DEF FlushInv
  <2>3. ASSUME op.name = "do_close", "last" \notin mishap' PROVE finalized'
    <3>1. call.size = next_expected_ + put /\ Len(call.buffer) = put /\ put > 0
      BY <1>10, <2>1, <2>3 DEF FlushInv
    <3>2. LastChunk
      BY <1>1, <3>1 DEF LastChunk
    <3>3. finalized \/ k = Len(call.buffer)
      BY <1>2, <2>3, <3>2 DEF StoredInPart
    <3> QED BY <1>1, <1>6, <1>7, <1>12, <3>1, <3>3
  <2> QED BY <1>4, <1>5, <1>8, <1>10, <2>2, <2>3 DEF FlushInv
<1>15. ASSUME ~bad', Whole' PROVE HashedIsStored'
  <2>1. HashedIsStored /\ FlushInv
    BY <1>5, <1>13, <1>15 DEF StreamInv, Whole
  <2>2. ASSUME Early PROVE Even'
    <3>1. /\ hashed = committed \o call.buffer /\ Len(call.buffer) > 1
          /\ next_expected_ = Len(committed) /\ Len(committed) # 1 /\ ~finalized
      BY <1>10, <2>1, <2>2 DEF HashedIsStored
    <3>2. call.size = 0
      BY <1>10, <2>1, <2>2 DEF FlushInv
    <3>3. ~finalized'
      BY <1>6, <3>1, <3>2
    <3>4. k = Len(call.buffer)
      BY <1>2, <1>15, <3>1 DEF StoredInPart, Whole
    <3>5. Len(committed') = Len(committed) + Len(call.buffer)
      BY <1>1, <1>6, <3>1, <3>4
    <3>6. committed' = committed \o call.buffer
      <4>1. /\ committed \o call.buffer \in Seq(Nat)
            /\ Len(committed \o call.buffer) = Len(committed) + Len(call.buffer)
            /\ \A i \in 1..(Len(committed) + Len(call.buffer)) : (committed \o call.buffer)[i] =
                 IF i <= Len(committed) THEN committed[i] ELSE call.buffer[i - Len(committed)]
        BY <1>1, ConcatProperties DEF Bytes
      <4>2. \A i \in 1..Len(committed') : committed'[i] = (committed \o call.buffer)[i]
        <5> TAKE i \in 1..Len(committed')
        <5>1. CASE i <= Len(committed)
          <6>1. i \in 1..Len(committed)
            BY <1>1, <1>7, <5>1
          <6> QED BY <1>6, <3>1, <3>5, <4>1, <5>1, <6>1
        <5>2. CASE ~(i <= Len(committed))
          <6>1. i > Len(committed)
            BY <1>1, <1>7, <5>2
          <6> QED BY <1>6, <3>1, <3>5, <4>1, <5>2, <6>1
        <5> QED BY <5>1, <5>2
      <4> DEFINE joined == committed \o call.buffer
      <4>3. /\ committed' \in Seq(Nat) /\ joined \in Seq(Nat)
            /\ Len(committed') = Len(joined)
            /\ \A i \in 1..Len(committed') : committed'[i] = joined[i]
        BY <1>6, <3>5, <4>1, <4>2 DEF Bytes
      <4> HIDE DEF joined
      <4>4. committed' = joined
        BY <4>3, SeqEqual
      <4> QED BY <4>4 DEF joined
    <3>7. Len(committed') # 1
      BY <1>1, <3>1, <3>5
    <3> QED BY <1>5, <1>7, <3>1, <3>3, <3>6, <3>7 DEF Even
  <2> QED BY <1>5, <1>8, <1>10, <2>2 DEF HashedIsStored
<1>16. ASSUME ~bad', PutAway' PROVE WrittenIsSent'
  <2>1. WrittenIsSent /\ FlushInv
    BY <1>5, <1>13, <1>16 DEF StreamInv, PutAway
  <2>2. CASE Early
    <3>1. hashed \o op.trailing = written /\ Len(op.trailing) > 0 /\ HashedTwice
      BY <1>10, <2>1, <2>2 DEF WrittenIsSent
    <3>2. Len(call.buffer) = max_buffer_size_
      BY <1>10, <2>1, <2>2 DEF FlushInv
    <3>3. Len(committed') <= Len(hashed)
      BY <1>1, <1>7, <1>11, <3>1, <3>2 DEF HashedTwice
    <3>4. next_expected_' <= Len(hashed)
      BY <1>1, <1>7, <3>3
    <3> QED BY <1>5, <1>8, <1>10, <2>2, <3>1, <3>3, <3>4 DEF WrittenIsSent
  <2>3. CASE op.name = "do_close"
    <3>1. \/ hashed = written
          \/ Len(committed) < Len(hashed) /\ next_expected_ + put < Len(hashed)
      BY <1>10, <2>1, <2>3 DEF WrittenIsSent
    <3>2. Len(call.buffer) = put
      BY <1>10, <2>1, <2>3 DEF FlushInv
    <3>3. hashed = written \/ Len(committed') < Len(hashed)
      BY <1>1, <1>7, <1>11, <3>1, <3>2
    <3> QED BY <1>5, <1>8, <1>10, <2>3, <3>3 DEF WrittenIsSent
  <2> QED BY <1>10, <2>2, <2>3
<1> QED BY <1>9, <1>14, <1>15, <1>16 DEF StreamInv, Whole

LEMMA StreamFailsInv ==
  ASSUME StreamInv, NEW c, UploadFails(c), UNCHANGED streamVars, user = "stream"
  PROVE  StreamInv'
<1> USE WriteAssumption
<1>1. /\ StreamType /\ ServerType /\ CallType /\ committed \in Bytes /\ next_expected_ \in Nat
      /\ Len(committed) \in Nat /\ Len(call.buffer) \in Nat /\ call.buffer \in Bytes
      /\ Len(hashed) \in Nat /\ put \in Nat /\ max_buffer_size_ \in Nat
  BY DEF StreamInv, StreamType, ServerType, CallType, Bytes
<1>2. call' = [call EXCEPT !.at = "error"]
  BY DEF UploadFails, Failed, Retried, Returns
<1>3. /\ call'.at = "error"
      /\ call'.buffer = call.buffer /\ call'.size = call.size
      /\ call' = [at |-> call'.at, buffer |-> call'.buffer, size |-> call'.size,
                  payload |-> call'.payload]
  BY <1>1, <1>2 DEF CallType
<1>4. UNCHANGED <<current_ios_buffer_, put, open, last_response_, hashed, written, bad, closes, op,
                  next_expected_>>
  BY DEF streamVars, bufferVars, UploadFails
<1>5. /\ committed' \in Bytes /\ mishap \subseteq mishap'
      /\ Len(committed') <= Len(committed) \/ Len(committed') <= next_expected_ + Len(call.buffer)
  <2>1. CASE UNCHANGED serverVars
    BY <1>1, <2>1 DEF serverVars
  <2>2. CASE (\E k \in Storable : Store(k)) /\ mishap' = mishap \union {"lost"}
    <3>1. PICK k \in Storable : Store(k)
      BY <2>2
    <3>2. /\ k \in Nat /\ k <= Len(call.buffer) /\ committed' \in Bytes
          /\ finalized => committed' = committed
          /\ ~finalized => Len(committed') = IF next_expected_ + k <= Len(committed) THEN Len(committed)
                                             ELSE next_expected_ + k
      BY <1>1, <3>1, StoreFacts
    <3> QED BY <1>1, <2>2, <3>2
  <2> QED BY <2>1, <2>2 DEF UploadFails
<1>6. call.at = "upload" /\ op.stage = "flush" /\ op # Idle /\ op.name # "none"
  BY <1>1, IdleFacts DEF UploadFails, Uploading, StreamType, OpType
<1>7. StreamType'
  <2>1. OpType'
    BY <1>1, <1>4 DEF StreamType, OpType
  <2>2. ServerType' /\ CallType'
    BY <1>1, <1>3, <1>4, <1>5 DEF ServerType, CallType
  <2> QED BY <1>1, <1>3, <1>4, <1>6, <2>1, <2>2 DEF StreamType
<1>8. /\ FlushAt("upload") /\ ~FlushAt("ok")' /\ ~FlushAt("none")' /\ ~FlushAt("upload")'
      /\ FlushAt("error")' /\ (Early' <=> Early) /\ (Early <=> op.name # "do_close")
  BY <1>1, <1>3, <1>4, <1>6 DEF FlushAt, Early, StreamType
<1>9. ASSUME ~bad' PROVE FlushInv'
  <2>1. FlushInv
    BY <1>4, <1>9 DEF StreamInv
  <2>2. Early => put' > max_buffer_size_
    BY <1>4, <1>6, <2>1 DEF FlushInv
  <2> QED BY <1>4, <1>6, <1>8, <2>2 DEF FlushInv
<1>10. ASSUME ~bad', Whole' PROVE HashedIsStored'
  BY <1>4, <1>6, <1>8 DEF HashedIsStored
<1>11. ASSUME ~bad', PutAway' PROVE WrittenIsSent'
  <2>1. WrittenIsSent /\ FlushInv
    BY <1>4, <1>5, <1>11 DEF StreamInv, PutAway
  <2>2. ASSUME Early PROVE HashedTwice'
    <3>1. HashedTwice /\ Len(call.buffer) = max_buffer_size_
      BY <1>8, <2>1, <2>2 DEF WrittenIsSent, FlushInv
    <3>2. Len(committed') \in Nat
      BY <1>5 DEF Bytes
    <3> QED BY <1>1, <1>4, <1>5, <3>1, <3>2 DEF HashedTwice
  <2> QED BY <1>4, <1>6, <1>8, <2>2 DEF WrittenIsSent
<1> QED BY <1>7, <1>9, <1>10, <1>11 DEF StreamInv, Whole

LEMMA StreamKept ==
  ASSUME StreamInv, UNCHANGED <<sessionVars, streamVars>>
  PROVE  StreamInv'
<1>1. UNCHANGED <<committed, finalized, mishap, next_expected_, call, current_ios_buffer_, put,
                  open, last_response_, hashed, written, bad, closes, op>>
  BY DEF sessionVars, serverVars, streamVars, bufferVars
<1>2. StreamType'
  BY <1>1 DEF StreamInv, StreamType, ServerType, CallType, OpType
<1>3. FlushInv => FlushInv'
  BY <1>1 DEF FlushInv, FlushAt, Early
<1>4. HashedIsStored => HashedIsStored'
  BY <1>1 DEF HashedIsStored, Even, FlushAt, Early
<1>5. WrittenIsSent => WrittenIsSent'
  BY <1>1 DEF WrittenIsSent, Buffered, HashedTwice, FlushAt, Early
<1> QED BY <1>1, <1>2, <1>3, <1>4, <1>5 DEF StreamInv, PutAway

LEMMA StreamStepInv ==
  ASSUME StreamInv, StreamStep(WriteNext)
  PROVE  StreamInv'
<1> USE WriteAssumption
<1>1. user = "stream" /\ written \in Bytes /\ <<>> \in Bytes
  BY IdleFacts DEF StreamStep, StreamInv, StreamType
<1>2. ASSUME NEW n \in WriteSizes, Write(n) PROVE StreamInv'
  <2>1. n \in Nat
    OBVIOUS
  <2>2. NextBytes(n) \in Bytes
    BY <1>1, <2>1, NextBytesFacts
  <2>3. Start("write", NextBytes(n)) /\ closes = 0 /\ closes' = closes
    BY <1>2 DEF Write, Usable
  <2> QED BY <2>2, <2>3, StartInv
<1>3. CASE PutOverflows
  <2>1. NextBytes(1) \in Bytes
    BY <1>1, NextBytesFacts
  <2>2. Start("write", NextBytes(1)) /\ closes = 0 /\ closes' = closes
    BY <1>3 DEF PutOverflows, Usable
  <2> QED BY <2>1, <2>2, StartInv
<1>4. CASE PutFits
  BY <1>4, PutFitsInv
<1>5. CASE Sync
  <2>1. Start("sync", <<>>) /\ closes = 0 /\ closes' = closes
    BY <1>5 DEF Sync, Usable
  <2> QED BY <1>1, <2>1, StartInv
<1>6. CASE Close
  <2>1. Start("close", <<>>) /\ open /\ closes' = closes + 1
    BY <1>6 DEF Close
  <2> QED BY <1>1, <2>1, StartInv
<1>7. CASE FlushSkips
  BY <1>7, FlushSkipsInv
<1>8. CASE FlushSends
  BY <1>1, <1>8, FlushSendsInv
<1>9. CASE FlushThrows
  BY <1>9, FlushThrowsInv
<1>10. CASE FlushReturns
  BY <1>10, FlushReturnsInv
<1>11. CASE FinishWrite
  BY <1>11, FinishWriteInv
<1>12. CASE DoClose
  BY <1>12, DoCloseInv
<1>13. CASE FinishClose
  BY <1>13, FinishCloseInv
<1>14. CASE UploadAnswered /\ UNCHANGED streamVars
  BY <1>14, StreamAnsweredInv
<1>15. CASE (\E c \in Code : UploadFails(c)) /\ UNCHANGED streamVars
  BY <1>1, <1>15, StreamFailsInv
<1>16. CASE WriteEnded
  BY <1>16, StreamKept DEF WriteEnded
<1>17. WriteNext
  BY DEF StreamStep
<1> QED BY <1>2, <1>3, <1>4, <1>5, <1>6, <1>7, <1>8, <1>9, <1>10, <1>11, <1>12, <1>13, <1>14,
           <1>15, <1>16, <1>17 DEF WriteNext, WriteInternal

------------------------------------------------------------------------------
(* The download.                                                            *)

(* A block moves from the beginning of t to the end of b.                   *)
Moved(b, t, more, rest) == t # <<>> /\ more = Append(b, Head(t)) /\ rest = Tail(t)

LEMMA MoveOne ==
  ASSUME NEW a \in Bytes, NEW b \in Bytes, NEW t \in Bytes,
         NEW more, NEW rest, Moved(b, t, more, rest)
  PROVE  /\ more \in Bytes /\ rest \in Bytes
         /\ (a \o more) \o rest = (a \o b) \o t
<1>1. /\ Head(t) \in Nat /\ Tail(t) \in Seq(Nat) /\ Len(Tail(t)) = Len(t) - 1 /\ t \in Seq(Nat)
      /\ Head(t) = t[1] /\ \A i \in 1..(Len(t) - 1) : Tail(t)[i] = t[i + 1]
      /\ Len(t) \in Nat /\ Len(t) > 0
  BY DEF Bytes, Moved
<1> DEFINE one == <<Head(t)>>
<1> USE DEF Moved
<1>2. one \in Seq(Nat) /\ Len(one) = 1 /\ one[1] = t[1]
  BY <1>1
<1>3. more = b \o one
  BY <1>1, AppendIsConcat DEF Bytes
<1>4. rest \in Seq(Nat) /\ Len(rest) = Len(t) - 1 /\ \A i \in 1..(Len(t) - 1) : rest[i] = t[i + 1]
  BY <1>1
<1> HIDE DEF one, Moved
<1>5. one \o rest = t
  <2>1. /\ one \o rest \in Seq(Nat) /\ Len(one \o rest) = Len(one) + Len(rest)
        /\ \A i \in 1..(Len(one) + Len(rest)) :
             (one \o rest)[i] = IF i <= Len(one) THEN one[i] ELSE rest[i - Len(one)]
    <3>1. one \in Seq(Nat) /\ rest \in Seq(Nat)
      BY <1>2, <1>4
    <3> QED BY <3>1, ConcatProperties
  <2>2. Len(one \o rest) = Len(t)
    BY <1>1, <1>2, <1>4, <2>1
  <2>3. ASSUME NEW i \in 1..Len(one \o rest) PROVE (one \o rest)[i] = t[i]
    <3>1. Len(t) \in Nat /\ i \in 1..Len(t)
      BY <1>1, <2>2
    <3>2. CASE i = 1
      BY <1>2, <1>4, <2>1, <3>1, <3>2
    <3>3. CASE i # 1
      <4>1. (one \o rest)[i] = rest[i - 1]
        BY <1>2, <1>4, <2>1, <3>1, <3>3
      <4>2. rest[i - 1] = t[(i - 1) + 1]
        BY <1>4, <3>1, <3>3
      <4> QED BY <3>1, <4>1, <4>2
    <3> QED BY <3>2, <3>3
  <2> QED BY <1>1, <2>1, <2>2, <2>3, SeqEqual
<1>6. one \in Bytes /\ rest \in Bytes
  BY <1>2, <1>4 DEF Bytes
<1>7. b \o one \in Bytes /\ a \o b \in Bytes
  BY <1>6, Joined
<1>8. a \o (b \o one) = (a \o b) \o one
  <2>1. Associates(a, b, one)
    BY <1>6, JoinedThree
  <2> QED BY <2>1 DEF Associates
<1> DEFINE c == a \o b
<1>9. (c \o one) \o rest = c \o (one \o rest)
  <2>1. c \in Bytes
    BY <1>7
  <2> HIDE DEF c
  <2>2. Associates(c, one, rest)
    BY <1>6, <2>1, JoinedThree
  <2> QED BY <2>2 DEF Associates
<1> QED BY <1>3, <1>5, <1>6, <1>7, <1>8, <1>9

InOrder == ((got \o region) \o buffer_) \o todo = object

LEMMA BuildTransferRequest ==
  ASSUME TransportInv, NEW t \in Thread, BuildTransfer(t)
  PROVE  request'[t].at = "transfer"
<1>1. request' = [request EXCEPT ![t] = [At(t, "transfer") EXCEPT !.multi = CreateMultiHandle]]
  BY DEF BuildTransfer, Becomes
<1>2. DOMAIN request = Thread
  BY DEF TransportInv, RequestType
<1> DEFINE r == At(t, "transfer")
<1>3. r.at = "transfer" /\ DOMAIN r = DOMAIN request[t] /\ DOMAIN request[t] = {"at", "handle", "multi", "header"}
  BY DEF At, TransportInv, RequestType, RequestOk
<1> HIDE DEF r
<1>4. request'[t] = [r EXCEPT !.multi = CreateMultiHandle]
  BY <1>1, <1>2 DEF r
<1> QED BY <1>3, <1>4

LEMMA ReadObjectInv ==
  ASSUME ReadInv, TransportInv, Fresh, ReadObject
  PROVE  ReadInv'
<1>1. /\ ~closing_ /\ ~curl_closed_ /\ ~at_end /\ ~bad /\ op = Idle
      /\ buffer_ = <<>> /\ region = <<>> /\ got = <<>>
  BY DEF Fresh
<1>2. /\ UNCHANGED <<closing_, curl_closed_, buffer_, region, got, at_end, mishap, bad>>
      /\ op' = [Idle EXCEPT !.name = "get_more"]
  BY DEF ReadObject, Waits, sessionVars, serverVars
<1>3. op'.name = "get_more" /\ op'.stage = "none" /\ op' # Idle
  BY <1>2, IdleFacts DEF Idle
<1>4. PICK n \in Blocks : object' = [i \in 1..n |-> i]
  BY DEF ReadObject
<1>5. n \in Nat
  BY DownloadAssumption
<1>6. object' \in Bytes
  <2>1. object' \in [1..n -> Nat]
    BY <1>4, <1>5
  <2> QED BY <1>5, <2>1 DEF Bytes
<1>7. \/ code' = 200 /\ todo' = object'
      \/ code' = 400 /\ todo' = <<0>> /\ received_hash_' = {}
  BY DEF ReadObject
<1>8. todo' \in Bytes
  <2>1. <<0>> \in Seq(Nat)
    OBVIOUS
  <2> QED BY <1>6, <1>7, <2>1 DEF Bytes
<1>9. ReadType'
  BY <1>1, <1>2, <1>3, <1>6, <1>7, <1>8, IdleFacts DEF ReadType
<1>10. request'[Streamer].at = "transfer"
  BY BuildTransferRequest DEF ReadObject, Thread
<1>11. code' = 200 => InOrder'
  <2>1. ASSUME code' = 200 PROVE ((<<>> \o <<>>) \o <<>>) \o object' = object'
    BY <1>6, IdleFacts, Joined
  <2> QED BY <1>1, <1>2, <1>7, <2>1 DEF InOrder
<1> QED BY <1>1, <1>2, <1>3, <1>7, <1>9, <1>10, <1>11 DEF ReadInv, ReadIsWhole, InOrder

LEMMA WriteCallbackInv ==
  ASSUME ReadInv, WriteCallback
  PROVE  ReadInv'
<1>1. /\ UNCHANGED <<closing_, curl_closed_, code, object, validator, received_hash_, region, got,
                     at_end, bad, op, request>>
      /\ ~curl_closed_ /\ todo # <<>> /\ op.name \in {"get_more", "close_read"} /\ ~closing_
      /\ op # Idle
  BY IdleFacts DEF WriteCallback, Performing, transportVars
<1>2. object \in Bytes /\ todo \in Bytes /\ buffer_ \in Bytes /\ region \in Bytes /\ got \in Bytes
  BY DEF ReadInv, ReadType
<1>3. mishap \subseteq mishap'
  BY DEF WriteCallback
<1>4. buffer_' \in Bytes /\ todo' \in Bytes /\ ("garbled" \notin mishap' /\ InOrder => InOrder')
  <2>1. CASE UNCHANGED <<buffer_, todo>>
    BY <1>1, <1>2, <2>1 DEF InOrder
  <2>2. CASE buffer_' = Append(buffer_, Head(todo)) /\ todo' = Tail(todo)
    <3> DEFINE read == got \o region
    <3>1. read \in Bytes
      BY <1>2, Joined
    <3> HIDE DEF read
    <3>2. /\ buffer_' \in Bytes /\ todo' \in Bytes
          /\ (read \o buffer_') \o todo' = (read \o buffer_) \o todo
      <4>1. todo # <<>>
        BY <1>1
      <4>2. todo \in Bytes /\ buffer_ \in Bytes
        BY <1>2
      <4>3. Moved(buffer_, todo, buffer_', todo')
        BY <4>1, <2>2 DEF Moved
      <4> QED BY <4>2, <4>3, <3>1, MoveOne
    <3> QED BY <1>1, <2>2, <3>2 DEF InOrder, read
  <2>3. CASE buffer_' = Append(buffer_, 0) /\ todo' = Tail(todo) /\ mishap' = mishap \union {"garbled"}
    <3>1. Append(buffer_, 0) \in Bytes /\ Tail(todo) \in Bytes
      BY <1>1, <1>2 DEF Bytes
    <3> QED BY <2>3, <3>1
  <2> QED BY <2>1, <2>2, <2>3 DEF WriteCallback
<1>5. ReadType'
  BY <1>1, <1>4 DEF ReadInv, ReadType
<1>6. mishap' = {} => mishap = {}
  BY <1>3
<1>7. "garbled" \notin mishap' => "garbled" \notin mishap
  BY <1>3
<1>8. code' = 200 /\ "garbled" \notin mishap' => InOrder'
  BY <1>1, <1>4, <1>7 DEF ReadInv, InOrder
<1>9. ~at_end
  BY <1>1 DEF ReadInv
<1>10. request'[Streamer].at = "transfer" /\ (mishap' = {} => code' # 0)
  <2>1. op.name # "none"
    BY <1>1
  <2> QED BY <1>1, <1>6, <2>1 DEF ReadInv
<1>11. op.name = "get_more" => region = <<>>
  BY DEF ReadInv
<1>12. op.name # "close_read" /\ (received_hash_ # {} => code = 200)
  BY <1>1 DEF ReadInv
<1> QED BY <1>1, <1>5, <1>8, <1>9, <1>10, <1>11, <1>12 DEF ReadInv, ReadIsWhole, InOrder

LEMMA DownloadEndsInv ==
  ASSUME ReadInv, DownloadEnds
  PROVE  ReadInv'
<1>1. /\ UNCHANGED <<closing_, buffer_, object, todo, paused, validator, region, got, at_end,
                     bad, op, request>>
      /\ ~curl_closed_ /\ op.name \in {"get_more", "close_read"} /\ op # Idle
      /\ curl_closed_'
  BY IdleFacts DEF DownloadEnds, Performing, transportVars
<1>2. \/ /\ todo = <<>> \/ closing_
         /\ UNCHANGED <<code, received_hash_, mishap>>
      \/ /\ mishap' = mishap \union {"broken"}
         /\ UNCHANGED <<code, received_hash_>> \/ (code' = 0 /\ received_hash_' = {})
  BY DEF DownloadEnds
<1>3. ReadType'
  BY <1>1, <1>2 DEF ReadInv, ReadType
<1>4. "garbled" \notin mishap' => "garbled" \notin mishap
  BY <1>2
<1>5. code' = 200 => code = 200
  BY <1>2
<1>6. code' = 200 /\ "garbled" \notin mishap' => InOrder'
  BY <1>1, <1>4, <1>5 DEF ReadInv, InOrder
<1>7. ~at_end /\ request[Streamer].at = "transfer"
  BY <1>1 DEF ReadInv
<1>8. mishap' = {} => code' # 0 /\ (todo' = <<>> \/ closing_')
  BY <1>1, <1>2, <1>7 DEF ReadInv
<1>9. op.name = "get_more" => region = <<>> /\ ~closing_
  BY DEF ReadInv
<1>10. op.name = "close_read" => closing_
  BY DEF ReadInv
<1>11. received_hash_' # {} => code' = 200
  BY <1>2 DEF ReadInv
<1> QED BY <1>1, <1>3, <1>6, <1>7, <1>8, <1>9, <1>10, <1>11 DEF ReadInv, ReadIsWhole, InOrder

(* The buffer becomes the get area.                                         *)
LEMMA TakeBuffer ==
  ASSUME NEW g \in Bytes, NEW b \in Bytes, NEW t \in Bytes
  PROVE  ((g \o b) \o <<>>) \o t = ((g \o <<>>) \o b) \o t
<1>1. g \o b \in Bytes
  BY Joined
<1>2. (g \o b) \o <<>> = g \o b
  <2> DEFINE c == g \o b
  <2> HIDE DEF c
  <2>1. c \o <<>> = c
    BY <1>1, Joined DEF c
  <2> QED BY <2>1 DEF c
<1>3. g \o <<>> = g
  BY Joined
<1> QED BY <1>2, <1>3

LEMMA GetMoreInv ==
  ASSUME ReadInv, GetMore
  PROVE  ReadInv'
<1>1. /\ UNCHANGED <<closing_, curl_closed_, code, object, todo, validator, received_hash_, got,
                     at_end, bad, request, mishap>>
      /\ ~curl_closed_ /\ op.name = "get_more" /\ op' = Idle
      /\ region' = buffer_ /\ buffer_' = <<>>
  BY DEF GetMore, Waiting, transportVars, sessionVars, serverVars
<1>2. /\ object \in Bytes /\ todo \in Bytes /\ buffer_ \in Bytes /\ got \in Bytes
      /\ region = <<>> /\ ~at_end /\ ~closing_
  BY <1>1 DEF ReadInv, ReadType
<1>3. ReadType'
  BY <1>1, <1>2, IdleFacts DEF ReadInv, ReadType
<1>4. InOrder => InOrder'
  BY <1>1, <1>2, TakeBuffer DEF InOrder
<1>5. code' = 200 /\ "garbled" \notin mishap' => InOrder'
  BY <1>1, <1>4 DEF ReadInv, InOrder
<1>6. op'.name = "none"
  BY <1>1, IdleFacts
<1>7. request'[Streamer].at = "transfer" /\ mishap' = {} => code' # 0
  BY <1>1 DEF ReadInv
<1>8. received_hash_' # {} => code' = 200
  BY <1>1 DEF ReadInv
<1> QED BY <1>1, <1>2, <1>3, <1>5, <1>6, <1>7, <1>8 DEF ReadInv, ReadIsWhole, InOrder

(* The end of the object was reached with the hashes compared.              *)
LEMMA FinishIsWhole ==
  ASSUME ReadInv, curl_closed_, region = <<>>, buffer_ = <<>>, code < 300, ~closing_, Finish, at_end',
         ~at_end, mishap = {} \/ validator \intersect received_hash_ # {}
  PROVE  code = 200 /\ got = object
<1>1. /\ object \in Bytes /\ todo \in Bytes /\ got \in Bytes /\ code \in {0, 200, 400}
  BY DEF ReadInv, ReadType
<1>2. CASE validator \intersect received_hash_ # {}
  <2>1. got \o region = object
    BY <1>2 DEF Finish, IsMismatch
  <2>2. got \o <<>> = got
    BY <1>1, Joined
  <2>3. code = 200
    BY <1>2 DEF ReadInv
  <2> QED BY <2>1, <2>2, <2>3
<1>3. CASE mishap = {}
  <2>1. todo = <<>> /\ code = 200
    BY <1>1, <1>3 DEF ReadInv
  <2>2. ((got \o region) \o buffer_) \o todo = object
    BY <1>3, <2>1 DEF ReadInv
  <2>3. got \o <<>> = got
    BY <1>1, Joined
  <2> QED BY <2>1, <2>2, <2>3
<1> QED BY <1>2, <1>3

LEMMA GetLastInv ==
  ASSUME ReadInv, GetLast
  PROVE  ReadInv'
<1>1. /\ UNCHANGED <<closing_, curl_closed_, code, object, todo, validator, received_hash_, got,
                     request, mishap>>
      /\ curl_closed_ /\ op.name = "get_more" /\ op' = Idle /\ buffer_' = <<>>
  BY DEF GetLast, Waiting, sessionVars, serverVars
<1>2. /\ object \in Bytes /\ todo \in Bytes /\ buffer_ \in Bytes /\ got \in Bytes
      /\ region = <<>> /\ ~at_end /\ ~closing_ /\ code \in {0, 200, 400}
  BY <1>1 DEF ReadInv, ReadType
<1>3. op'.name = "none" /\ op'.stage = "none"
  BY <1>1, IdleFacts
<1>4. request'[Streamer].at = "transfer" /\ mishap' = {} => code' # 0
  BY <1>1 DEF ReadInv
<1>5. received_hash_' # {} => code' = 200
  BY <1>1 DEF ReadInv
<1>6. mishap' = {} => todo' = <<>> /\ code' # 0
  BY <1>1, <1>2 DEF ReadInv
<1>7. CASE code >= 300
  <2>1. bad' /\ UNCHANGED <<region, at_end>>
    BY <1>7 DEF GetLast
  <2>2. ReadType'
    BY <1>1, <1>2, <1>3, <2>1, IdleFacts DEF ReadType
  <2>3. code' # 200
    BY <1>1, <1>2, <1>7
  <2> QED BY <1>1, <1>2, <1>3, <1>4, <1>5, <1>6, <2>1, <2>2, <2>3 DEF ReadInv, ReadIsWhole
<1>8. CASE ~(code >= 300) /\ buffer_ # <<>>
  <2>1. region' = buffer_ /\ UNCHANGED <<bad, at_end>>
    BY <1>8 DEF GetLast
  <2>2. ReadType'
    BY <1>1, <1>2, <1>3, <2>1, IdleFacts DEF ReadType
  <2>3. InOrder => InOrder'
    BY <1>1, <1>2, <2>1, TakeBuffer DEF InOrder
  <2>4. code' = 200 /\ "garbled" \notin mishap' => InOrder'
    BY <1>1, <2>3 DEF ReadInv, InOrder
  <2>5. code' < 300
    BY <1>1, <1>2, <1>8
  <2> QED BY <1>1, <1>2, <1>3, <1>4, <1>5, <1>6, <2>1, <2>2, <2>4, <2>5 DEF ReadInv, ReadIsWhole, InOrder
<1>9. CASE ~(code >= 300) /\ buffer_ = <<>>
  <2>1. Finish /\ UNCHANGED region
    BY <1>9 DEF GetLast
  <2>2. ReadType'
    BY <1>1, <1>2, <1>3, <2>1, IdleFacts DEF ReadType
  <2>3. code' = 200 /\ "garbled" \notin mishap' => InOrder'
    BY <1>1, <1>9, <2>1 DEF ReadInv, InOrder
  <2>4. code < 300
    BY <1>2, <1>9
  <2>5. ASSUME at_end', mishap = {} \/ validator \intersect received_hash_ # {}
        PROVE  code = 200 /\ got = object
    BY <1>1, <1>2, <1>9, <2>1, <2>4, <2>5, FinishIsWhole
  <2>6. ReadIsWhole'
    BY <1>1, <2>5 DEF ReadIsWhole
  <2> QED BY <1>1, <1>2, <1>3, <1>4, <1>5, <1>6, <2>1, <2>2, <2>3, <2>4, <2>6 DEF ReadInv, InOrder
<1> QED BY <1>7, <1>8, <1>9

LEMMA UnderflowInv ==
  ASSUME ReadInv, Underflow
  PROVE  ReadInv'
<1>1. /\ UNCHANGED <<closing_, curl_closed_, buffer_, code, object, todo, validator,
                     received_hash_, region, got, request, mishap>>
      /\ request[Streamer].at = "transfer" /\ op = Idle /\ ~at_end /\ ~bad /\ region = <<>>
  BY DEF Underflow, Readable, curlVars, transportVars, sessionVars, serverVars
<1>2. /\ object \in Bytes /\ todo \in Bytes /\ buffer_ \in Bytes /\ got \in Bytes
      /\ code \in {0, 200, 400} /\ ReadType /\ op.name = "none"
  BY <1>1, IdleFacts DEF ReadInv, ReadType
<1>3. request'[Streamer].at = "transfer" /\ mishap' = {} => code' # 0
  BY <1>1 DEF ReadInv
<1>4. received_hash_' # {} => code' = 200
  BY <1>1 DEF ReadInv
<1>5. curl_closed_' /\ ~closing_' /\ mishap' = {} => todo' = <<>> /\ code' # 0
  BY <1>1, <1>2 DEF ReadInv
<1>6. code' = 200 /\ "garbled" \notin mishap' => InOrder'
  BY <1>1 DEF ReadInv, InOrder
<1>7. closing_ => curl_closed_
  BY <1>2 DEF ReadInv
<1>8. CASE ~curl_closed_
  <2>1. op' = [Idle EXCEPT !.name = "get_more"] /\ UNCHANGED <<at_end, bad>>
    BY <1>8 DEF Underflow, Waits
  <2>2. op'.name = "get_more" /\ op'.stage = "none" /\ op' # Idle
    BY <2>1, IdleFacts DEF Idle
  <2>3. ReadType'
    BY <1>1, <1>2, <2>2 DEF ReadType
  <2> QED BY <1>1, <1>3, <1>4, <1>5, <1>6, <1>7, <1>8, <2>1, <2>2, <2>3 DEF ReadInv, ReadIsWhole, InOrder
<1>9. CASE curl_closed_
  <2>1. Finish /\ op' = op
    BY <1>9 DEF Underflow
  <2>2. ReadType'
    BY <1>1, <1>2, <2>1 DEF ReadType
  <2>3. ~closing_ => code < 300 /\ buffer_ = <<>>
    BY <1>1, <1>9 DEF ReadInv
  <2>4. ASSUME at_end', ~closing_, mishap = {} \/ validator \intersect received_hash_ # {}
        PROVE  code = 200 /\ got = object
    BY <1>1, <1>9, <2>1, <2>3, <2>4, FinishIsWhole
  <2>5. ReadIsWhole'
    BY <1>1, <2>4 DEF ReadIsWhole
  <2> QED BY <1>1, <1>2, <1>3, <1>4, <1>5, <1>6, <1>9, <2>1, <2>2, <2>3, <2>5 DEF ReadInv, InOrder
<1> QED BY <1>8, <1>9

LEMMA ReadRegionInv ==
  ASSUME ReadInv, ReadRegion
  PROVE  ReadInv'
<1>1. /\ UNCHANGED <<closing_, curl_closed_, buffer_, code, object, todo, validator,
                     received_hash_, at_end, op, bad, request, mishap>>
      /\ op = Idle /\ ~at_end /\ got' = got \o region /\ region' = <<>>
  BY DEF ReadRegion, Readable, curlVars, streamVars, transportVars, sessionVars, serverVars
<1>2. /\ got \in Bytes /\ region \in Bytes /\ ReadType
  BY <1>1 DEF ReadInv, ReadType
<1>3. got' \in Bytes /\ region' \in Bytes /\ got' \o region' = got \o region
  <2> DEFINE c == got \o region
  <2>1. c \in Bytes
    BY <1>2, Joined
  <2> HIDE DEF c
  <2>2. c \o <<>> = c /\ <<>> \in Bytes
    BY <2>1, Joined
  <2> QED BY <1>1, <2>1, <2>2 DEF c
<1>4. InOrder => InOrder'
  BY <1>1, <1>3 DEF InOrder
<1>5. code' = 200 /\ "garbled" \notin mishap' => InOrder'
  BY <1>1, <1>4 DEF ReadInv, InOrder
<1>6. ReadType'
  BY <1>1, <1>2, <1>3 DEF ReadType
<1> QED BY <1>1, <1>5, <1>6 DEF ReadInv, ReadIsWhole, InOrder

LEMMA CloseReadInv ==
  ASSUME ReadInv, CloseRead
  PROVE  ReadInv'
<1>1. /\ UNCHANGED <<curl_closed_, buffer_, code, object, todo, validator, region, got,
                     received_hash_, at_end, bad, request, mishap>>
      /\ request[Streamer].at = "transfer" /\ op = Idle /\ ~curl_closed_ /\ closing_'
      /\ op' = [Idle EXCEPT !.name = "close_read"]
  BY DEF CloseRead, Waits, readVars, transportVars, sessionVars, serverVars
<1>2. op'.name = "close_read" /\ op'.stage = "none" /\ op' # Idle
  BY <1>1, IdleFacts DEF Idle
<1>3. ReadType'
  BY <1>1, <1>2 DEF ReadInv, ReadType
<1>4. code' = 200 /\ "garbled" \notin mishap' => InOrder'
  BY <1>1 DEF ReadInv, InOrder
<1> QED BY <1>1, <1>2, <1>3, <1>4 DEF ReadInv, ReadIsWhole, InOrder

LEMMA ReadClosedInv ==
  ASSUME ReadInv, ReadClosed
  PROVE  ReadInv'
<1>1. /\ UNCHANGED <<closing_, curl_closed_, buffer_, code, object, todo, validator, region, got,
                     at_end, bad, request, mishap>>
      /\ op.name = "close_read" /\ curl_closed_ /\ op' = Idle /\ received_hash_' = {}
  BY DEF ReadClosed, Waiting, curlVars, sessionVars, serverVars
<1>2. op'.name = "none" /\ op'.stage = "none" /\ op # Idle
  BY <1>1, IdleFacts
<1>3. ReadType'
  BY <1>1, <1>2 DEF ReadInv, ReadType
<1>4. code' = 200 /\ "garbled" \notin mishap' => InOrder'
  BY <1>1 DEF ReadInv, InOrder
<1>5. closing_ /\ ~at_end
  BY <1>1, <1>2 DEF ReadInv
<1> QED BY <1>1, <1>2, <1>3, <1>4, <1>5 DEF ReadInv, ReadIsWhole, InOrder

(* A step that leaves the data of the stream alone.                         *)
LEMMA ReadKept ==
  ASSUME ReadInv, UNCHANGED <<curlVars, readVars, sessionVars, streamVars>>,
         request'[Streamer].at = "transfer" => request[Streamer].at = "transfer",
         op.name # "none" => request'[Streamer].at = "transfer"
  PROVE  ReadInv'
<1>1. UNCHANGED <<closing_, curl_closed_, buffer_, code, object, todo, validator, received_hash_,
                  region, got, at_end, bad, op, mishap>>
  BY DEF curlVars, readVars, sessionVars, serverVars, streamVars
<1>2. ReadType' /\ ReadIsWhole'
  BY <1>1 DEF ReadInv, ReadType, ReadIsWhole
<1> QED BY <1>1, <1>2 DEF ReadInv

------------------------------------------------------------------------------
(* The stream without a session.                                            *)

LEMMA SimpleKept ==
  ASSUME SimpleInv, mishap \subseteq mishap',
         UNCHANGED <<committed, finalized, buffer_, current_ios_buffer_, hashed, written, put, closes,
                     op, bad, curl_closed_, code>>
  PROVE  SimpleInv'
<1>1. SimpleType'
  BY DEF SimpleInv, SimpleType, OpType
<1>2. PutAway' => PutAway
  BY DEF PutAway
<1>3. WrittenIsHashed => WrittenIsHashed'
  BY DEF WrittenIsHashed
<1>4. HashedIsSent => HashedIsSent'
  BY DEF HashedIsSent
<1>5. WrittenMeansStored'
  <2>1. mishap' \subseteq {"early", "lost"} => mishap \subseteq {"early", "lost"}
    OBVIOUS
  <2> QED BY <2>1 DEF SimpleInv, WrittenMeansStored, Closed
<1> QED BY <1>1, <1>2, <1>3, <1>4, <1>5 DEF SimpleInv

(* The record of an operation that swaps the buffers.                       *)
LEMMA SwapRecord ==
  ASSUME NEW name \in {"write", "overflow", "sync", "close", "do_close"}, NEW bytes \in Bytes,
         op' = [Idle EXCEPT !.name = name, !.bytes = bytes, !.stage = "swap"]
  PROVE  /\ op'.name = name /\ op'.bytes = bytes /\ op'.stage = "swap" /\ op' # Idle
         /\ OpType'
<1> DEFINE e == Idle.trailing
<1>1. DOMAIN Idle = {"name", "bytes", "stage", "trailing"}
  BY DEF Idle
<1>2. op' = [name |-> name, bytes |-> bytes, stage |-> "swap", trailing |-> e]
  BY DEF Idle
<1>3. e \in Bytes
  BY IdleFacts
<1> HIDE DEF e
<1>4. op'.name = name /\ op'.bytes = bytes /\ op'.stage = "swap"
  BY <1>2
<1>5. op'.trailing = e
  BY <1>1 DEF e
<1>6. op' # Idle
  BY <1>4, IdleFacts
<1> QED BY <1>2, <1>3, <1>4, <1>5, <1>6 DEF OpType

(* SwapBuffers() up to its wait.                                            *)
LEMMA BeginSwapFacts ==
  ASSUME NEW name \in {"write", "overflow", "sync", "close", "do_close"}, NEW bytes \in Bytes,
         NEW b \in Bytes, NEW n \in Nat, BeginSwap(name, bytes, b, n), hashed \in Bytes
  PROVE  /\ op'.name = name /\ op'.bytes = bytes /\ op'.stage = "swap" /\ op' # Idle /\ OpType'
         /\ current_ios_buffer_' \in Bytes /\ hashed' \in Bytes
         /\ hashed' = hashed \o current_ios_buffer_'
         /\ n = Len(b) => current_ios_buffer_' = b
<1>1. op' = [Idle EXCEPT !.name = name, !.bytes = bytes, !.stage = "swap"]
  BY DEF BeginSwap
<1>2. current_ios_buffer_' = resize(b, n) /\ hashed' = hashed \o current_ios_buffer_'
  BY DEF BeginSwap
<1>3. current_ios_buffer_' \in Bytes
  BY <1>2, ResizeFacts
<1>4. hashed' \in Bytes
  BY <1>2, <1>3, Joined
<1>5. n = Len(b) => current_ios_buffer_' = b
  BY <1>2, ResizeSame
<1>6. op'.name = name /\ op'.bytes = bytes /\ op'.stage = "swap" /\ op' # Idle /\ OpType'
  BY <1>1, SwapRecord
<1> QED BY <1>2, <1>3, <1>4, <1>5, <1>6

(* What holds when the application may call the stream.                     *)
LEMMA SimpleIdle ==
  ASSUME SimpleInv, op = Idle
  PROVE  /\ committed \in Bytes /\ buffer_ \in Bytes /\ current_ios_buffer_ \in Bytes
         /\ hashed \in Bytes /\ written \in Bytes /\ put \in Nat
         /\ op.name = "none" /\ op.stage = "none"
         /\ PutAway /\ closes = 0 =>
              hashed \o current_ios_buffer_ = written /\ put = Len(current_ios_buffer_)
         /\ PutAway /\ ~curl_closed_ => hashed = committed \o buffer_
BY IdleFacts DEF SimpleInv, SimpleType, WrittenIsHashed, HashedIsSent

LEMMA xsputnInv ==
  ASSUME SimpleInv, NEW n \in Nat, xsputn(n)
  PROVE  SimpleInv'
<1> DEFINE b == current_ios_buffer_ \o NextBytes(n)
<1>1. /\ op = Idle /\ closes = 0 /\ put' = put + n /\ written' = written \o NextBytes(n)
      /\ UNCHANGED <<closing_, curl_closed_, buffer_, code, closes, committed, finalized, mishap, bad>>
      /\ \/ BeginSwap("write", <<>>, b, put + n)
         \/ current_ios_buffer_' = b /\ UNCHANGED <<hashed, op>>
  BY DEF xsputn, CanWrite, Usable, curlVars, streamAlways, serverVars
<1>2. /\ committed \in Bytes /\ buffer_ \in Bytes /\ current_ios_buffer_ \in Bytes
      /\ hashed \in Bytes /\ written \in Bytes /\ put \in Nat
      /\ op.name = "none" /\ op.stage = "none"
      /\ PutAway => hashed \o current_ios_buffer_ = written /\ put = Len(current_ios_buffer_)
      /\ PutAway /\ ~curl_closed_ => hashed = committed \o buffer_
  BY <1>1, SimpleIdle
<1>3. NextBytes(n) \in Bytes /\ Len(NextBytes(n)) = n
  BY <1>2, NextBytesFacts
<1>4. b \in Bytes /\ Len(b) = Len(current_ios_buffer_) + n
  <2> DEFINE c == NextBytes(n)
  <2>1. c \in Bytes /\ Len(c) = n
    BY <1>3
  <2> HIDE DEF c
  <2>2. current_ios_buffer_ \o c \in Bytes /\ Len(current_ios_buffer_ \o c) = Len(current_ios_buffer_) + Len(c)
    BY <1>2, <2>1, Joined
  <2> QED BY <2>1, <2>2 DEF c
<1>5. written' \in Bytes
  BY <1>1, <1>2, <1>3, Joined
<1>6. PutAway => hashed \o b = written'
  <2>1. (hashed \o current_ios_buffer_) \o NextBytes(n) = hashed \o b
    <3>1. Associates(hashed, current_ios_buffer_, NextBytes(n))
      BY <1>2, <1>3, JoinedThree
    <3> QED BY <3>1 DEF Associates
  <2> QED BY <1>1, <1>2, <2>1
<1>7. PutAway' <=> PutAway
  BY <1>1 DEF PutAway
<1> HIDE DEF b
<1>8. put' \in Nat /\ (PutAway => put' = Len(b))
  <2>1. put' = put + n /\ put \in Nat
    BY <1>1, <1>2
  <2>2. PutAway => put = Len(current_ios_buffer_)
    BY <1>2
  <2>3. Len(b) = Len(current_ios_buffer_) + n
    BY <1>4
  <2> QED BY <2>1, <2>2, <2>3
<1>9. curl_closed_' => (code' = 200 /\ finalized') \/ code' = 400 \/ "unanswered" \in mishap'
  BY <1>1 DEF SimpleInv
<1>10. ~(Closed') /\ ~(closes' = 1)
  BY <1>1 DEF Closed
<1>11. CASE BeginSwap("write", <<>>, b, put + n)
  <2>1. /\ op'.name = "write" /\ op'.bytes = <<>> /\ op'.stage = "swap" /\ op' # Idle /\ OpType'
        /\ current_ios_buffer_' \in Bytes /\ hashed' \in Bytes
        /\ hashed' = hashed \o current_ios_buffer_'
        /\ put + n = Len(b) => current_ios_buffer_' = b
    <3>1. put + n \in Nat
      BY <1>2
    <3> QED BY <1>2, <1>4, <1>11, <3>1, IdleFacts, BeginSwapFacts
  <2>2. SimpleType'
    BY <1>1, <1>2, <1>5, <1>8, <2>1 DEF SimpleType
  <2>3. ASSUME PutAway' PROVE WrittenIsHashed'
    <3>1. hashed' = written'
      BY <1>1, <1>6, <1>7, <1>8, <2>1, <2>3
    <3>2. hashed' \o <<>> = hashed'
      BY <2>1, Joined
    <3> QED BY <2>1, <3>1, <3>2 DEF WrittenIsHashed
  <2>4. ASSUME PutAway', ~curl_closed_' PROVE HashedIsSent'
    BY <1>1, <1>2, <1>7, <2>1, <2>4 DEF HashedIsSent
  <2> QED BY <1>9, <1>10, <2>1, <2>2, <2>3, <2>4 DEF SimpleInv, WrittenMeansStored
<1>12. CASE current_ios_buffer_' = b /\ UNCHANGED <<hashed, op>>
  <2>1. SimpleType'
    BY <1>1, <1>2, <1>4, <1>5, <1>8, <1>12 DEF SimpleInv, SimpleType, OpType
  <2>2. ASSUME PutAway' PROVE WrittenIsHashed'
    BY <1>1, <1>2, <1>6, <1>7, <1>8, <1>12, <2>2 DEF WrittenIsHashed
  <2>3. ASSUME PutAway', ~curl_closed_' PROVE HashedIsSent'
    BY <1>1, <1>2, <1>7, <1>12, <2>3 DEF HashedIsSent
  <2> QED BY <1>9, <1>10, <2>1, <2>2, <2>3 DEF SimpleInv, WrittenMeansStored
<1> QED BY <1>1, <1>11, <1>12 DEF b

LEMMA overflowInv ==
  ASSUME SimpleInv, overflow
  PROVE  SimpleInv'
<1>1. /\ op = Idle /\ closes = 0 /\ written' = written \o NextBytes(1)
      /\ UNCHANGED <<closing_, curl_closed_, buffer_, code, put, closes, committed, finalized, mishap,
                     bad>>
      /\ BeginSwap("overflow", NextBytes(1), current_ios_buffer_, put)
  BY DEF overflow, CanWrite, Usable, curlVars, streamAlways, serverVars
<1>2. /\ committed \in Bytes /\ buffer_ \in Bytes /\ current_ios_buffer_ \in Bytes
      /\ hashed \in Bytes /\ written \in Bytes /\ put \in Nat
      /\ op.name = "none" /\ op.stage = "none"
      /\ PutAway => hashed \o current_ios_buffer_ = written /\ put = Len(current_ios_buffer_)
      /\ PutAway /\ ~curl_closed_ => hashed = committed \o buffer_
  BY <1>1, SimpleIdle
<1>3. NextBytes(1) \in Bytes
  BY <1>2, NextBytesFacts
<1>4. written' \in Bytes
  BY <1>1, <1>2, <1>3, Joined
<1>5. /\ op'.name = "overflow" /\ op'.bytes = NextBytes(1) /\ op'.stage = "swap" /\ op' # Idle
      /\ OpType' /\ current_ios_buffer_' \in Bytes /\ hashed' \in Bytes
      /\ hashed' = hashed \o current_ios_buffer_'
      /\ put = Len(current_ios_buffer_) => current_ios_buffer_' = current_ios_buffer_
  BY <1>1, <1>2, <1>3, BeginSwapFacts
<1>6. PutAway' <=> PutAway
  BY <1>1 DEF PutAway
<1>7. SimpleType'
  BY <1>1, <1>2, <1>4, <1>5 DEF SimpleType
<1>8. ASSUME PutAway' PROVE WrittenIsHashed'
  BY <1>1, <1>2, <1>5, <1>6, <1>8 DEF WrittenIsHashed
<1>9. ASSUME PutAway', ~curl_closed_' PROVE HashedIsSent'
  BY <1>1, <1>2, <1>5, <1>6, <1>9 DEF HashedIsSent
<1>10. curl_closed_' => (code' = 200 /\ finalized') \/ code' = 400 \/ "unanswered" \in mishap'
  BY <1>1 DEF SimpleInv
<1>11. ~(Closed') /\ ~(closes' = 1)
  BY <1>1 DEF Closed
<1> QED BY <1>7, <1>8, <1>9, <1>10, <1>11 DEF SimpleInv, WrittenMeansStored

LEMMA sputcInv ==
  ASSUME SimpleInv, sputc
  PROVE  SimpleInv'
<1>1. /\ op = Idle /\ closes = 0 /\ written' = written \o NextBytes(1) /\ put' = put + 1
      /\ UNCHANGED <<closing_, curl_closed_, buffer_, code, closes, committed, finalized, bad, op,
                     current_ios_buffer_, hashed>>
      /\ mishap' = mishap \union {"put"}
  BY DEF sputc, CanWrite, Usable, curlVars
<1>2. written \in Bytes /\ put \in Nat
  BY <1>1, SimpleIdle
<1>3. NextBytes(1) \in Bytes
  BY <1>2, NextBytesFacts
<1>4. written' \in Bytes /\ put' \in Nat
  <2>1. written \o NextBytes(1) \in Bytes
    BY <1>2, <1>3, Joined
  <2> QED BY <1>1, <1>2, <2>1
<1>5. SimpleType'
  BY <1>1, <1>4 DEF SimpleInv, SimpleType, OpType
<1>6. ~PutAway'
  BY <1>1 DEF PutAway
<1>7. curl_closed_' => (code' = 200 /\ finalized') \/ code' = 400 \/ "unanswered" \in mishap'
  BY <1>1 DEF SimpleInv
<1>8. ~(Closed') /\ ~(closes' = 1)
  BY <1>1 DEF Closed
<1> QED BY <1>5, <1>6, <1>7, <1>8 DEF SimpleInv, WrittenMeansStored

LEMMA syncInv ==
  ASSUME SimpleInv, NEW name \in {"sync", "close"}, sync(name)
  PROVE  SimpleInv'
<1>1. /\ op = Idle /\ closes = 0 /\ closes' = IF name = "close" THEN 1 ELSE closes
      /\ UNCHANGED <<closing_, curl_closed_, buffer_, code, put, written, committed, finalized, mishap,
                     bad>>
      /\ BeginSwap(name, <<>>, current_ios_buffer_, put)
  BY DEF sync, Usable, curlVars, streamAlways, serverVars
<1>2. /\ committed \in Bytes /\ buffer_ \in Bytes /\ current_ios_buffer_ \in Bytes
      /\ hashed \in Bytes /\ written \in Bytes /\ put \in Nat
      /\ op.name = "none" /\ op.stage = "none"
      /\ PutAway => hashed \o current_ios_buffer_ = written /\ put = Len(current_ios_buffer_)
      /\ PutAway /\ ~curl_closed_ => hashed = committed \o buffer_
  BY <1>1, SimpleIdle
<1>3. /\ op'.name = name /\ op'.bytes = <<>> /\ op'.stage = "swap" /\ op' # Idle
      /\ OpType' /\ current_ios_buffer_' \in Bytes /\ hashed' \in Bytes
      /\ hashed' = hashed \o current_ios_buffer_'
      /\ put = Len(current_ios_buffer_) => current_ios_buffer_' = current_ios_buffer_
  BY <1>1, <1>2, IdleFacts, BeginSwapFacts
<1>4. PutAway' <=> PutAway
  BY <1>1 DEF PutAway
<1>5. SimpleType'
  BY <1>1, <1>2, <1>3 DEF SimpleType
<1>6. ASSUME PutAway' PROVE WrittenIsHashed'
  <2>1. hashed' \o <<>> = hashed'
    BY <1>3, Joined
  <2> QED BY <1>1, <1>2, <1>3, <1>4, <1>6, <2>1 DEF WrittenIsHashed
<1>7. ASSUME PutAway', ~curl_closed_' PROVE HashedIsSent'
  BY <1>1, <1>2, <1>3, <1>4, <1>7 DEF HashedIsSent
<1>8. curl_closed_' => (code' = 200 /\ finalized') \/ code' = 400 \/ "unanswered" \in mishap'
  BY <1>1 DEF SimpleInv
<1>9. ~(Closed')
  BY <1>3 DEF Closed
<1> QED BY <1>3, <1>5, <1>6, <1>7, <1>8, <1>9 DEF SimpleInv, WrittenMeansStored

(* libcurl takes some of the bytes of the buffer.                           *)
LEMMA ReadCallbackInv ==
  ASSUME SimpleInv, ReadCallback
  PROVE  SimpleInv'
<1>1. /\ op # Idle /\ ~curl_closed_ /\ ~curl_closed_'
      /\ UNCHANGED <<closing_, code, finalized, mishap, current_ios_buffer_, hashed, written, put, closes,
                     op, bad>>
  BY DEF ReadCallback, Sending, streamVars, bufferVars
<1>2. committed \in Bytes /\ buffer_ \in Bytes /\ current_ios_buffer_ \in Bytes
  BY DEF SimpleInv, SimpleType
<1>3. PICK n \in {1, Len(buffer_)} :
        committed' = committed \o SubSeq(buffer_, 1, n) /\ buffer_' = SubSeq(buffer_, n + 1, Len(buffer_))
  BY DEF ReadCallback
<1>4. n \in Nat /\ n <= Len(buffer_)
  <2>1. Len(buffer_) \in Nat /\ Len(buffer_) # 0
    BY <1>2, Joined DEF ReadCallback
  <2> QED BY <2>1
<1> DEFINE a == SubSeq(buffer_, 1, n)
           b == SubSeq(buffer_, n + 1, Len(buffer_))
<1>5. a \in Bytes /\ b \in Bytes /\ a \o b = buffer_
  BY <1>2, <1>4, CutBytes
<1> HIDE DEF a, b
<1>6. committed' = committed \o a /\ buffer_' = b
  BY <1>3 DEF a, b
<1>7. committed' \in Bytes /\ buffer_' \in Bytes
  BY <1>2, <1>5, <1>6, Joined
<1>8. committed' \o buffer_' = committed \o buffer_
  <2>1. Associates(committed, a, b)
    BY <1>2, <1>5, JoinedThree
  <2> QED BY <1>5, <1>6, <2>1 DEF Associates
<1>9. SimpleType'
  BY <1>1, <1>7 DEF SimpleInv, SimpleType, OpType
<1>10. PutAway' <=> PutAway
  BY <1>1 DEF PutAway
<1>11. WrittenIsHashed => WrittenIsHashed'
  BY <1>1 DEF WrittenIsHashed
<1>12. HashedIsSent => HashedIsSent'
  BY <1>1, <1>8 DEF HashedIsSent
<1> QED BY <1>1, <1>9, <1>10, <1>11, <1>12 DEF SimpleInv, WrittenMeansStored, Closed

(* The transfer ends, well or badly.                                        *)
LEMMA UploadEndsInv ==
  ASSUME SimpleInv, PayloadEnds \/ UploadBreaks
  PROVE  SimpleInv'
<1>1. /\ op # Idle /\ curl_closed_'
      /\ UNCHANGED <<buffer_, committed, current_ios_buffer_, hashed, written, put, closes, op, bad>>
  BY DEF PayloadEnds, UploadBreaks, Sending, streamVars, bufferVars
<1>2. \/ code' = 200 /\ finalized' /\ mishap' = mishap
      \/ code' = 400 /\ mishap' = mishap
      \/ mishap' = mishap \union {"unanswered"}
  BY DEF PayloadEnds, UploadBreaks
<1>3. SimpleType'
  BY <1>1 DEF SimpleInv, SimpleType, OpType
<1>4. PutAway' => PutAway
  BY <1>2 DEF PutAway
<1>5. WrittenIsHashed => WrittenIsHashed'
  BY <1>1 DEF WrittenIsHashed
<1>6. (code' = 200 /\ finalized') \/ code' = 400 \/ "unanswered" \in mishap'
  BY <1>2
<1> QED BY <1>1, <1>3, <1>4, <1>5, <1>6 DEF SimpleInv, WrittenMeansStored, Closed

LEMMA SwapBuffersInv ==
  ASSUME SimpleInv, SwapBuffers
  PROVE  SimpleInv'
<1>1. /\ op.stage = "swap" /\ (buffer_ = <<>> \/ curl_closed_)
      /\ buffer_' = current_ios_buffer_ /\ current_ios_buffer_' = op.bytes /\ put' = Len(op.bytes)
      /\ op' = IF op.name \in {"write", "overflow"} THEN Idle ELSE [op EXCEPT !.stage = "flush"]
      /\ UNCHANGED <<curl_closed_, code, committed, finalized, mishap, hashed, written, bad, closes>>
  BY DEF SwapBuffers, Sent, NextBuffer, serverVars
<1>2. /\ committed \in Bytes /\ buffer_ \in Bytes /\ current_ios_buffer_ \in Bytes
      /\ hashed \in Bytes /\ written \in Bytes /\ op.bytes \in Bytes /\ op # Idle /\ op.name # "none"
      /\ op.name \in {"none", "write", "overflow", "sync", "close", "do_close"} /\ closes \in {0, 1}
      /\ op.name # "overflow" => op.bytes = <<>>
      /\ op.name \in {"close", "do_close"} <=> closes = 1
  <2>1. op # Idle
    BY <1>1, IdleFacts
  <2>2. SimpleType
    BY DEF SimpleInv
  <2>3. op.name # "none"
    BY <2>1, <2>2 DEF SimpleType, OpType
  <2> QED BY <1>1, <2>1, <2>2, <2>3 DEF SimpleType, OpType
<1>3. buffer_' \in Bytes /\ current_ios_buffer_' \in Bytes /\ put' \in Nat
  BY <1>1, <1>2, Joined
<1>4. PutAway' <=> PutAway
  BY <1>1 DEF PutAway
<1>5. PutAway => written = hashed \o op.bytes
  BY <1>1 DEF SimpleInv, WrittenIsHashed
<1>6. PutAway /\ ~curl_closed_ => hashed = committed \o buffer_'
  <2>1. ASSUME PutAway, ~curl_closed_ PROVE hashed = committed \o buffer_'
    <3>1. hashed = (committed \o buffer_) \o current_ios_buffer_
      BY <1>1, <2>1 DEF SimpleInv, HashedIsSent
    <3>2. committed \o <<>> = committed
      BY <1>2, Joined
    <3> QED BY <1>1, <2>1, <3>1, <3>2
  <2> QED BY <2>1
<1>7. curl_closed_' => (code' = 200 /\ finalized') \/ code' = 400 \/ "unanswered" \in mishap'
  BY <1>1 DEF SimpleInv
<1>8. CASE op.name \in {"write", "overflow"}
  <2>1. op' = Idle /\ op'.name = "none" /\ op'.stage = "none" /\ closes = 0 /\ OpType'
    <3>1. op' = Idle
      BY <1>1, <1>8
    <3>2. closes # 1
      BY <1>2, <1>8
    <3> QED BY <1>2, <3>1, <3>2, IdleFacts DEF OpType, Idle
  <2>2. SimpleType'
    BY <1>1, <1>2, <1>3, <2>1 DEF SimpleType
  <2>3. ASSUME PutAway' PROVE WrittenIsHashed'
    BY <1>1, <1>4, <1>5, <2>1, <2>3 DEF WrittenIsHashed
  <2>4. ASSUME PutAway', ~curl_closed_' PROVE HashedIsSent'
    BY <1>1, <1>4, <1>6, <2>1, <2>4 DEF HashedIsSent
  <2>5. ~(closes' = 1) /\ ~(Closed')
    BY <1>1, <2>1 DEF Closed
  <2> QED BY <1>7, <2>2, <2>3, <2>4, <2>5 DEF SimpleInv, WrittenMeansStored
<1>9. CASE op.name \notin {"write", "overflow"}
  <2>1. /\ op'.name = op.name /\ op'.stage = "flush" /\ op'.bytes = op.bytes
        /\ op'.trailing = op.trailing /\ op' # Idle
        /\ op' = [name |-> op.name, bytes |-> op.bytes, stage |-> "flush", trailing |-> op.trailing]
    BY <1>1, <1>9, IdleFacts DEF SimpleInv, SimpleType, OpType
  <2>2. OpType'
    <3>1. op.trailing \in Bytes
      BY DEF SimpleInv, SimpleType, OpType
    <3> QED BY <1>2, <2>1, <3>1 DEF OpType
  <2>3. SimpleType'
    BY <1>1, <1>2, <1>3, <1>9, <2>1, <2>2 DEF SimpleType
  <2>4. ASSUME PutAway' PROVE WrittenIsHashed'
    <3>1. op.bytes = <<>>
      BY <1>2, <1>9
    <3>2. hashed \o <<>> = hashed /\ Len(<<>>) = 0
      BY <1>2, Joined
    <3> QED BY <1>1, <1>4, <1>5, <2>1, <2>4, <3>1, <3>2 DEF WrittenIsHashed
  <2>5. ASSUME PutAway', ~curl_closed_' PROVE HashedIsSent'
    BY <1>1, <1>4, <1>6, <2>1, <2>5 DEF HashedIsSent
  <2>6. ~(Closed')
    BY <2>1 DEF Closed
  <2> QED BY <1>7, <2>1, <2>3, <2>4, <2>5, <2>6 DEF SimpleInv, WrittenMeansStored
<1> QED BY <1>8, <1>9

LEMMA FlushDoneInv ==
  ASSUME SimpleInv, FlushDone
  PROVE  SimpleInv'
<1>1. /\ op.stage = "flush" /\ op.name \in {"sync", "close"}
      /\ UNCHANGED <<curl_closed_, buffer_, code, put, written, closes, committed, finalized, mishap, bad>>
      /\ IF op.name = "sync" THEN op' = Idle /\ UNCHANGED <<current_ios_buffer_, hashed>>
         ELSE BeginSwap("do_close", <<>>, current_ios_buffer_, put)
  BY DEF FlushDone, curlVars, streamAlways, serverVars
<1>2. /\ committed \in Bytes /\ buffer_ \in Bytes /\ current_ios_buffer_ \in Bytes
      /\ hashed \in Bytes /\ written \in Bytes /\ put \in Nat /\ closes \in {0, 1}
      /\ op # Idle /\ (op.name = "close" <=> closes = 1)
  BY <1>1, IdleFacts DEF SimpleInv, SimpleType
<1>3. PutAway' <=> PutAway
  BY <1>1 DEF PutAway
<1>4. PutAway => current_ios_buffer_ = <<>> /\ put = 0 /\ hashed = written
  BY <1>1 DEF SimpleInv, WrittenIsHashed
<1>5. PutAway /\ ~curl_closed_ => hashed = committed \o buffer_
  BY <1>1 DEF SimpleInv, HashedIsSent
<1>6. curl_closed_' => (code' = 200 /\ finalized') \/ code' = 400 \/ "unanswered" \in mishap'
  BY <1>1 DEF SimpleInv
<1>7. hashed \o <<>> = hashed /\ Len(<<>>) = 0
  BY <1>2, Joined
<1>8. CASE op.name = "sync"
  <2>1. /\ op' = Idle /\ op'.name = "none" /\ op'.stage = "none" /\ closes = 0 /\ OpType'
        /\ UNCHANGED <<current_ios_buffer_, hashed>>
    BY <1>1, <1>2, <1>8, IdleFacts DEF OpType, Idle
  <2>2. SimpleType'
    BY <1>1, <1>2, <2>1 DEF SimpleType
  <2>3. ASSUME PutAway' PROVE WrittenIsHashed'
    BY <1>1, <1>3, <1>4, <1>7, <2>1, <2>3 DEF WrittenIsHashed
  <2>4. ASSUME PutAway', ~curl_closed_' PROVE HashedIsSent'
    BY <1>1, <1>3, <1>5, <2>1, <2>4 DEF HashedIsSent
  <2>5. ~(closes' = 1) /\ ~(Closed')
    BY <1>1, <2>1 DEF Closed
  <2> QED BY <1>6, <2>2, <2>3, <2>4, <2>5 DEF SimpleInv, WrittenMeansStored
<1>9. CASE op.name = "close"
  <2>1. /\ op'.name = "do_close" /\ op'.bytes = <<>> /\ op'.stage = "swap" /\ op' # Idle
        /\ OpType' /\ current_ios_buffer_' \in Bytes /\ hashed' \in Bytes
        /\ hashed' = hashed \o current_ios_buffer_'
        /\ put = Len(current_ios_buffer_) => current_ios_buffer_' = current_ios_buffer_
    <3>1. BeginSwap("do_close", <<>>, current_ios_buffer_, put)
      BY <1>1, <1>9
    <3> QED BY <1>2, <3>1, IdleFacts, BeginSwapFacts
  <2>2. SimpleType'
    BY <1>1, <1>2, <1>9, <2>1 DEF SimpleType
  <2>3. PutAway => current_ios_buffer_' = <<>> /\ hashed' = hashed
    BY <1>4, <1>7, <2>1
  <2>4. ASSUME PutAway' PROVE WrittenIsHashed'
    BY <1>1, <1>3, <1>4, <1>7, <2>1, <2>3, <2>4 DEF WrittenIsHashed
  <2>5. ASSUME PutAway', ~curl_closed_' PROVE HashedIsSent'
    BY <1>1, <1>3, <1>5, <2>1, <2>5 DEF HashedIsSent
  <2>6. ~(Closed')
    BY <2>1 DEF Closed
  <2> QED BY <1>6, <2>1, <2>2, <2>4, <2>5, <2>6 DEF SimpleInv, WrittenMeansStored
<1> QED BY <1>1, <1>8, <1>9

LEMMA CloseUploadInv ==
  ASSUME SimpleInv, CloseUpload
  PROVE  SimpleInv'
<1>1. /\ op.stage = "flush" /\ op.name = "do_close" /\ op' = [op EXCEPT !.stage = "closing"]
      /\ UNCHANGED <<curl_closed_, buffer_, code, current_ios_buffer_, put, hashed, written, closes,
                     committed, finalized, mishap, bad>>
  BY DEF CloseUpload, bufferVars, serverVars
<1>2. /\ op'.name = "do_close" /\ op'.stage = "closing" /\ op'.bytes = op.bytes
      /\ op'.trailing = op.trailing /\ op' # Idle
      /\ op' = [name |-> op.name, bytes |-> op.bytes, stage |-> "closing", trailing |-> op.trailing]
  BY <1>1, IdleFacts DEF SimpleInv, SimpleType, OpType
<1>3. OpType' /\ op # Idle
  <2>1. op.trailing \in Bytes /\ op.bytes \in Bytes
    BY DEF SimpleInv, SimpleType, OpType
  <2> QED BY <1>1, <1>2, <2>1, IdleFacts DEF OpType
<1>4. SimpleType'
  BY <1>1, <1>2, <1>3 DEF SimpleInv, SimpleType
<1>5. PutAway' <=> PutAway
  BY <1>1 DEF PutAway
<1>6. WrittenIsHashed => WrittenIsHashed'
  BY <1>1, <1>2 DEF WrittenIsHashed
<1>7. HashedIsSent => HashedIsSent'
  BY <1>1, <1>2 DEF HashedIsSent
<1> QED BY <1>1, <1>2, <1>4, <1>5, <1>6, <1>7 DEF SimpleInv, WrittenMeansStored, Closed

LEMMA UploadClosedInv ==
  ASSUME SimpleInv, UploadClosed
  PROVE  SimpleInv'
<1>1. /\ op.stage = "closing" /\ curl_closed_ /\ op' = Idle
      /\ bad' <=> (code >= 300 \/ (code = 200 /\ Hashing /\ hashed # committed))
      /\ UNCHANGED <<curl_closed_, buffer_, code, current_ios_buffer_, put, hashed, written, closes,
                     committed, finalized, mishap>>
  BY DEF UploadClosed, curlVars, bufferVars, serverVars
<1>2. op # Idle /\ op.name = "do_close" /\ closes = 1
  BY <1>1, IdleFacts DEF SimpleInv, SimpleType
<1>3. op'.name = "none" /\ op'.stage = "none" /\ OpType'
  BY <1>1, IdleFacts DEF OpType, Idle
<1>4. SimpleType'
  BY <1>1, <1>2, <1>3 DEF SimpleInv, SimpleType
<1>5. PutAway' <=> PutAway
  BY <1>1 DEF PutAway
<1>6. WrittenIsHashed'
  BY <1>1, <1>2, <1>3 DEF WrittenIsHashed
<1>7. PutAway => hashed = written
  BY <1>1 DEF SimpleInv, WrittenIsHashed
<1>8. (code = 200 /\ finalized) \/ code = 400 \/ "unanswered" \in mishap
  BY <1>1 DEF SimpleInv
<1>9. WrittenMeansStored'
  <2> SUFFICES ASSUME Closed', ~bad', Hashing, mishap' \subseteq {"early", "lost"}
               PROVE  finalized' /\ committed' = written'
    BY DEF WrittenMeansStored
  <2>1. "unanswered" \notin mishap /\ "put" \notin mishap
    BY <1>1
  <2>2. ~(code >= 300) /\ (code = 200 => hashed = committed)
    BY <1>1
  <2>3. code # 400
    BY <2>2
  <2> QED BY <1>1, <1>7, <1>8, <2>1, <2>2, <2>3 DEF PutAway
<1> QED BY <1>1, <1>3, <1>4, <1>5, <1>6, <1>8, <1>9 DEF SimpleInv

------------------------------------------------------------------------------
(* The pools, whoever uses their handles.                                   *)

(* A handle goes from the pool to a thread that has none.                   *)
LEMMA TakeFromPool ==
  ASSUME NEW pool, NEW use, PoolInv(pool, use), DOMAIN use = Thread, pool # <<>>,
         NEW t \in Thread, use[t] = NoHandle
  PROVE  /\ pool[Len(pool)] \in Handle
         /\ PoolInv(SubSeq(pool, 1, Len(pool) - 1), [use EXCEPT ![t] = pool[Len(pool)]])
<1>1. /\ pool \in Seq(Handle) /\ Len(pool) \in Nat /\ Len(pool) > 0 /\ Len(pool) <= maximum_size_
      /\ maximum_size_ \in Nat /\ \A i \in 1..Len(pool) : pool[i] \in Handle
  BY TransportAssumption DEF PoolInv
<1> DEFINE h == pool[Len(pool)]
           rest == SubSeq(pool, 1, Len(pool) - 1)
           use2 == [use EXCEPT ![t] = h]
<1>2. h \in Handle
  BY <1>1
<1>3. /\ rest \in Seq(Handle) /\ Len(rest) = Len(pool) - 1
      /\ \A i \in 1..Len(rest) : rest[i] = pool[i] /\ i \in 1..Len(pool) /\ i # Len(pool)
  <2> DEFINE n == Len(pool) - 1
  <2>1. n \in Int /\ n \in Nat /\ n + 1 = Len(pool) /\ 1 \in Int /\ \A i \in 1..n : pool[i] \in Handle
    BY <1>1
  <2> HIDE DEF n
  <2>2. /\ SubSeq(pool, 1, n) \in Seq(Handle)
        /\ Len(SubSeq(pool, 1, n)) = IF 1 <= n THEN n - 1 + 1 ELSE 0
        /\ \A i \in 1..(n - 1 + 1) : SubSeq(pool, 1, n)[i] = pool[1 + i - 1]
    BY <2>1, SubSeqProperties
  <2>3. rest = SubSeq(pool, 1, n)
    BY DEF n
  <2> HIDE DEF rest
  <2>4. rest \in Seq(Handle) /\ Len(rest) = n
    BY <2>1, <2>2, <2>3
  <2>5. \A i \in 1..n : rest[i] = pool[i]
    BY <2>1, <2>2, <2>3
  <2> QED BY <2>1, <2>4, <2>5
<1>4. use2[t] = h /\ \A u \in Thread : u # t => use2[u] = use[u]
  OBVIOUS
<1>5. \A u \in Thread : \A i \in 1..Len(pool) : use[u] # pool[i]
  BY DEF PoolInv
<1>6. \A u \in Thread : use[u] # h
  BY <1>1, <1>5
<1>7. \A i \in 1..Len(rest) : rest[i] # h
  BY <1>1, <1>3 DEF PoolInv
<1>8. \A i, j \in 1..Len(rest) : rest[i] = rest[j] => i = j
  BY <1>3 DEF PoolInv
<1> HIDE DEF h, rest, use2
<1>9. \A u \in Thread : \A i \in 1..Len(rest) : use2[u] # rest[i]
  BY <1>3, <1>4, <1>5, <1>7
<1>10. \A u, v \in Thread : use2[u] = use2[v] /\ use2[u] # NoHandle => u = v
  BY <1>4, <1>6 DEF PoolInv
<1>11. Len(rest) <= maximum_size_
  BY <1>1, <1>3
<1> QED BY <1>2, <1>3, <1>8, <1>9, <1>10, <1>11 DEF PoolInv, h, rest, use2

(* A thread that has none gets a new handle.                                *)
LEMMA TakeNew ==
  ASSUME NEW pool, NEW use, PoolInv(pool, use), DOMAIN use = Thread, pool = <<>>,
         NEW t \in Thread, NEW h \in Handle, \A u \in Thread : use[u] # h
  PROVE  PoolInv(pool, [use EXCEPT ![t] = h])
<1> DEFINE use2 == [use EXCEPT ![t] = h]
<1>1. use2[t] = h /\ \A u \in Thread : u # t => use2[u] = use[u]
  OBVIOUS
<1>2. 1..Len(pool) = {}
  OBVIOUS
<1> HIDE DEF use2
<1>3. \A u, v \in Thread : use2[u] = use2[v] /\ use2[u] # NoHandle => u = v
  BY <1>1 DEF PoolInv
<1> QED BY <1>2, <1>3 DEF PoolInv, use2

(* A thread loses its handle.                                               *)
LEMMA LoseHandle ==
  ASSUME NEW pool, NEW use, PoolInv(pool, use), DOMAIN use = Thread, NEW t \in Thread
  PROVE  PoolInv(pool, [use EXCEPT ![t] = NoHandle])
<1> DEFINE use2 == [use EXCEPT ![t] = NoHandle]
<1>1. use2[t] = NoHandle /\ \A u \in Thread : u # t => use2[u] = use[u]
  OBVIOUS
<1>2. \A i \in 1..Len(pool) : pool[i] # NoHandle
  BY DEF PoolInv, Handle
<1> HIDE DEF use2
<1>3. \A u \in Thread : \A i \in 1..Len(pool) : use2[u] # pool[i]
  BY <1>1, <1>2 DEF PoolInv
<1>4. \A u, v \in Thread : use2[u] = use2[v] /\ use2[u] # NoHandle => u = v
  BY <1>1 DEF PoolInv
<1> QED BY <1>3, <1>4 DEF PoolInv, use2

(* A full pool loses its oldest handle.                                     *)
LEMMA LoseOldest ==
  ASSUME NEW pool, NEW use, PoolInv(pool, use)
  PROVE  /\ PoolInv(IF Len(pool) >= maximum_size_ THEN Tail(pool) ELSE pool, use)
         /\ Len(IF Len(pool) >= maximum_size_ THEN Tail(pool) ELSE pool) < maximum_size_
         /\ \A x \in Nat : (\A i \in 1..Len(pool) : pool[i] # x) =>
              LET rest == IF Len(pool) >= maximum_size_ THEN Tail(pool) ELSE pool
              IN  \A i \in 1..Len(rest) : rest[i] # x
<1>1. /\ pool \in Seq(Handle) /\ Len(pool) \in Nat /\ Len(pool) <= maximum_size_
      /\ maximum_size_ \in Nat /\ maximum_size_ > 0
  BY TransportAssumption DEF PoolInv
<1>2. CASE Len(pool) >= maximum_size_
  <2> DEFINE rest == Tail(pool)
  <2>1. pool # <<>>
    BY <1>1, <1>2
  <2>2. /\ rest \in Seq(Handle) /\ Len(rest) = Len(pool) - 1
        /\ \A i \in 1..Len(rest) : rest[i] = pool[i + 1] /\ i + 1 \in 1..Len(pool)
    BY <1>1, <2>1
  <2> HIDE DEF rest
  <2>3. Len(rest) <= maximum_size_ /\ Len(rest) < maximum_size_
    BY <1>1, <2>2
  <2>4. \A i, j \in 1..Len(rest) : rest[i] = rest[j] => i = j
    <3> SUFFICES ASSUME NEW i \in 1..Len(rest), NEW j \in 1..Len(rest), rest[i] = rest[j]
                 PROVE  i = j
      OBVIOUS
    <3>1. i + 1 = j + 1
      BY <2>2 DEF PoolInv
    <3> QED BY <3>1
  <2>5. \A u \in Thread : \A i \in 1..Len(rest) : use[u] # rest[i]
    <3>1. ASSUME NEW u \in Thread, NEW i \in 1..Len(rest) PROVE use[u] # rest[i]
      <4>1. rest[i] = pool[i + 1] /\ i + 1 \in 1..Len(pool)
        BY <2>2
      <4>2. \A j \in 1..Len(pool) : use[u] # pool[j]
        BY DEF PoolInv
      <4> QED BY <4>1, <4>2
    <3> QED BY <3>1
  <2>6. PoolInv(rest, use)
    BY <2>2, <2>3, <2>4, <2>5 DEF PoolInv
  <2> QED BY <1>2, <2>2, <2>3, <2>6 DEF rest
<1>3. CASE ~(Len(pool) >= maximum_size_)
  BY <1>1, <1>3
<1> QED BY <1>2, <1>3

LEMMA GiveBack ==
  ASSUME NEW pool, NEW use, PoolInv(pool, use), DOMAIN use = Thread,
         NEW t \in Thread, use[t] \in Handle
  PROVE  /\ PoolInv(Cleanup(pool, use[t]), [use EXCEPT ![t] = NoHandle])
         /\ \A i \in 1..Len(Cleanup(pool, use[t])) :
              Cleanup(pool, use[t])[i] = use[t] \/ \E j \in 1..Len(pool) : Cleanup(pool, use[t])[i] = pool[j]
<1> DEFINE rest == IF Len(pool) >= maximum_size_ THEN Tail(pool) ELSE pool
           h == use[t]
           more == Append(rest, h)
           use2 == [use EXCEPT ![t] = NoHandle]
<1>1. /\ PoolInv(rest, use) /\ Len(rest) < maximum_size_
      /\ \A x \in Nat : (\A i \in 1..Len(pool) : pool[i] # x) => \A i \in 1..Len(rest) : rest[i] # x
  BY LoseOldest
<1>2. use2[t] = NoHandle /\ \A u \in Thread : u # t => use2[u] = use[u]
  OBVIOUS
<1>3. h \in Handle /\ h \in Nat /\ h # NoHandle /\ NoHandle \in Nat
  BY DEF Handle, NoHandle
<1> HIDE DEF rest, use2
<1>4. rest \in Seq(Handle) /\ Len(rest) \in Nat /\ maximum_size_ \in Nat
  BY <1>1, TransportAssumption DEF PoolInv
<1>5. /\ more \in Seq(Handle) /\ Len(more) = Len(rest) + 1 /\ more[Len(rest) + 1] = h
      /\ \A i \in 1..Len(rest) : more[i] = rest[i]
  BY <1>3, <1>4
<1>6. \A i \in 1..Len(rest) : rest[i] # h /\ rest[i] # NoHandle
  BY <1>1 DEF PoolInv, Handle
<1> HIDE DEF more, h
<1>7. \A i \in 1..Len(more) : i \in 1..Len(rest) \/ i = Len(rest) + 1
  BY <1>4, <1>5
<1>8. \A i, j \in 1..Len(more) : more[i] = more[j] => i = j
  <2> SUFFICES ASSUME NEW i \in 1..Len(more), NEW j \in 1..Len(more), more[i] = more[j]
               PROVE  i = j
    OBVIOUS
  <2>1. CASE i \in 1..Len(rest) /\ j \in 1..Len(rest)
    BY <1>1, <1>5, <2>1 DEF PoolInv
  <2>2. CASE i = Len(rest) + 1 /\ j \in 1..Len(rest)
    BY <1>5, <1>6, <2>2
  <2>3. CASE j = Len(rest) + 1 /\ i \in 1..Len(rest)
    BY <1>5, <1>6, <2>3
  <2> QED BY <1>7, <2>1, <2>2, <2>3
<1>9. \A u \in Thread : u # t => use[u] # h
  BY <1>1, <1>3 DEF PoolInv, h
<1>10. ASSUME NEW u \in Thread, NEW i \in 1..Len(more) PROVE use2[u] # more[i]
  <2>1. more[i] # NoHandle /\ (u # t => use[u] # more[i])
    <3>1. CASE i \in 1..Len(rest)
      BY <1>1, <1>5, <1>6, <3>1 DEF PoolInv
    <3>2. CASE i = Len(rest) + 1
      BY <1>3, <1>5, <1>9, <3>2
    <3> QED BY <1>7, <3>1, <3>2
  <2> QED BY <1>2, <2>1
<1>11. \A u, v \in Thread : use2[u] = use2[v] /\ use2[u] # NoHandle => u = v
  BY <1>1, <1>2 DEF PoolInv
<1>12. Len(more) <= maximum_size_
  BY <1>1, <1>4, <1>5
<1>13. PoolInv(more, use2)
  BY <1>5, <1>8, <1>10, <1>11, <1>12 DEF PoolInv
<1>14. \A i \in 1..Len(rest) : \E j \in 1..Len(pool) : rest[i] = pool[j]
  <2> SUFFICES ASSUME NEW i \in 1..Len(rest), \A j \in 1..Len(pool) : pool[j] # rest[i]
               PROVE  FALSE
    OBVIOUS
  <2>1. rest[i] \in Nat
    BY <1>4 DEF Handle
  <2> QED BY <1>1, <2>1
<1>15. \A i \in 1..Len(more) : more[i] = h \/ \E j \in 1..Len(pool) : more[i] = pool[j]
  BY <1>5, <1>7, <1>14
<1> QED BY <1>13, <1>15 DEF more, rest, use2, h, Cleanup

(* There is always a handle that nobody has.                                *)
LEMMA OneIsFree ==
  ASSUME NEW use, DOMAIN use = Thread
  PROVE  \E h \in 1..(maximum_size_ + Cardinality(Thread)) : \A t \in Thread : use[t] # h
<1> DEFINE T == {use[t] : t \in Thread}
           f == [t \in Thread |-> use[t]]
           N == maximum_size_ + Cardinality(Thread)
<1>1. IsFiniteSet(Thread) /\ Cardinality(Thread) \in Nat
  BY TransportAssumption, FS_AddElement, FS_CardinalityType DEF Thread
<1>2. f \in Surjection(Thread, T)
  BY DEF Surjection
<1>3. IsFiniteSet(T) /\ Cardinality(T) <= Cardinality(Thread)
  <2> HIDE DEF f, T
  <2> QED BY <1>1, <1>2, FS_Surjection
<1>4. N \in Int /\ 1 \in Int /\ N >= 1 /\ N > Cardinality(Thread)
  BY <1>1, TransportAssumption
<1> HIDE DEF N
<1>5. Cardinality(1..N) = N
  BY <1>4, FS_Interval
<1>6. ~(1..N \subseteq T)
  <2> SUFFICES ASSUME 1..N \subseteq T PROVE FALSE
    OBVIOUS
  <2> HIDE DEF T
  <2>1. Cardinality(1..N) <= Cardinality(T)
    BY <1>3, FS_Subset
  <2>2. Cardinality(T) \in Nat
    BY <1>3, FS_CardinalityType
  <2> QED BY <1>1, <1>3, <1>4, <1>5, <2>1, <2>2
<1> QED BY <1>6 DEF N

------------------------------------------------------------------------------
(* The requests.                                                            *)

Req(at, handle, multi, header) ==
  [at |-> at, handle |-> handle, multi |-> multi, header |-> header]

LEMMA ReqFields ==
  \A at, handle, multi, header :
    LET r == Req(at, handle, multi, header)
    IN  /\ r.at = at /\ r.handle = handle /\ r.multi = multi /\ r.header = header
        /\ r = [at |-> r.at, handle |-> r.handle, multi |-> r.multi, header |-> r.header]
BY DEF Req

LEMMA RequestShapes ==
  ASSUME RequestType, NEW t \in Thread
  PROVE  /\ \A at : At(t, at) = Req(at, request[t].handle, request[t].multi, request[t].header)
         /\ \A at, x : [At(t, at) EXCEPT !.header = x]
                         = Req(at, request[t].handle, request[t].multi, x)
         /\ \A at, m : [At(t, at) EXCEPT !.multi = m]
                         = Req(at, request[t].handle, m, request[t].header)
         /\ \A h : [NoRequest EXCEPT !.at = "builder", !.handle = h]
                     = Req("builder", h, NoHandle, "none")
         /\ NoRequest = Req("none", NoHandle, NoHandle, "none")
<1>1. request[t] = [at |-> request[t].at, handle |-> request[t].handle,
                    multi |-> request[t].multi, header |-> request[t].header]
  BY DEF RequestType, RequestOk
<1>2. \A at : At(t, at) = Req(at, request[t].handle, request[t].multi, request[t].header)
  BY <1>1 DEF At, Req
<1>3. ASSUME NEW at, NEW x
      PROVE  [At(t, at) EXCEPT !.header = x] = Req(at, request[t].handle, request[t].multi, x)
  BY <1>2 DEF Req
<1>4. ASSUME NEW at, NEW m
      PROVE  [At(t, at) EXCEPT !.multi = m] = Req(at, request[t].handle, m, request[t].header)
  BY <1>2 DEF Req
<1>5. ASSUME NEW h
      PROVE  [NoRequest EXCEPT !.at = "builder", !.handle = h] = Req("builder", h, NoHandle, "none")
  <2> DEFINE b == [NoRequest EXCEPT !.at = "builder", !.handle = h]
  <2>1. DOMAIN b = {"at", "handle", "multi", "header"}
    BY DEF NoRequest
  <2>2. b.at = "builder" /\ b.handle = h
    BY DEF NoRequest
  <2>3. b.multi = NoHandle
    BY DEF NoRequest
  <2>4. b.header = "none"
    BY DEF NoRequest
  <2>5. b = [x \in DOMAIN b |-> b[x]]
    BY DEF NoRequest
  <2> HIDE DEF b
  <2>6. b = [at |-> "builder", handle |-> h, multi |-> NoHandle, header |-> "none"]
    BY <2>1, <2>2, <2>3, <2>4, <2>5
  <2> QED BY <2>6 DEF b, Req
<1>6. NoRequest = Req("none", NoHandle, NoHandle, "none")
  BY DEF NoRequest, Req
<1> QED BY <1>2, <1>3, <1>4, <1>5, <1>6

(* The request of one thread changes, and no other.                         *)
Only(t, r) ==
  /\ RequestType' /\ request'[t] = r /\ \A u \in Thread : u # t => request'[u] = request[u]
  /\ HandleOf' = [HandleOf EXCEPT ![t] = r.handle]
  /\ MultiOf' = [MultiOf EXCEPT ![t] = r.multi]

LEMMA BecomesOnly ==
  ASSUME RequestType, NEW t \in Thread, NEW r, Becomes(t, r), RequestOk(r)
  PROVE  Only(t, r)
<1>1. request' = [request EXCEPT ![t] = r] /\ request = [u \in Thread |-> request[u]]
  BY DEF Becomes, RequestType
<1>2. DOMAIN request = Thread
  BY <1>1
<1>3. request'[t] = r /\ \A u \in Thread : u # t => request'[u] = request[u]
  BY <1>1, <1>2
<1>4. request' = [u \in Thread |-> request'[u]]
  BY <1>1, <1>2
<1>5. RequestType'
  BY <1>3, <1>4 DEF RequestType
<1>6. HandleOf' = [HandleOf EXCEPT ![t] = r.handle]
  BY <1>3 DEF HandleOf
<1>7. MultiOf' = [MultiOf EXCEPT ![t] = r.multi]
  BY <1>3 DEF MultiOf
<1> QED BY <1>3, <1>5, <1>6, <1>7 DEF Only

LEMMA OfFacts ==
  /\ DOMAIN HandleOf = Thread /\ DOMAIN MultiOf = Thread
  /\ \A t \in Thread : HandleOf[t] = request[t].handle /\ MultiOf[t] = request[t].multi
  /\ \A t \in Thread : /\ [HandleOf EXCEPT ![t] = request[t].handle] = HandleOf
                       /\ [MultiOf EXCEPT ![t] = request[t].multi] = MultiOf
BY DEF HandleOf, MultiOf

(* What is attached stays the business of the transfers of the others.      *)
LEMMA AttachedKept ==
  ASSUME AttachedInv, attached \subseteq Handle \X Handle, NEW t \in Thread,
         attached' \subseteq attached, mishap \subseteq mishap',
         \A u \in Thread : u # t => request'[u] = request[u],
         \/ request[t].at # "transfer"
         \/ t = Streamer /\ Over
         \/ <<request[t].handle, request[t].multi>> \notin attached',
         Streamer # t => (Over' => Over)
  PROVE  AttachedInv' /\ attached' \subseteq Handle \X Handle
<1> SUFFICES ASSUME "suspended" \notin mishap', NEW p \in attached'
             PROVE  \E u \in Thread : Attaches(u, p)'
  BY DEF AttachedInv
<1>1. PICK u \in Thread : Attaches(u, p)
  BY DEF AttachedInv
<1>2. u # t
  BY <1>1 DEF Attaches
<1> QED BY <1>1, <1>2 DEF Attaches

(* The token is not touched, nor waited for.                                *)
LEMMA TokenKept ==
  ASSUME TokenInv, NEW t \in Thread, UNCHANGED <<authorization, mu_>>,
         \A u \in Thread : u # t => request'[u] = request[u],
         request'[t].at \notin {"account", "token"}
  PROVE  TokenInv'
BY DEF TokenInv, IsValid

(* A step of a request that has no multi handle and keeps its handle.       *)
LEMMA NewStage ==
  ASSUME TransportInv, NEW t \in Thread, request[t].at \in {"builder", "account", "token", "ready"},
         NEW at \in {"account", "token", "ready", "request"}, NEW header,
         Becomes(t, Req(at, request[t].handle, request[t].multi, header)),
         UNCHANGED <<handles_, multi_handles_, attached>>, mishap \subseteq mishap', Over' => Over
  PROVE  /\ Only(t, Req(at, request[t].handle, request[t].multi, header))
         /\ TokenInv' => TransportInv'
<1> DEFINE r == Req(at, request[t].handle, request[t].multi, header)
<1>1. /\ r.at = at /\ r.handle = request[t].handle /\ r.multi = request[t].multi
      /\ r = [at |-> r.at, handle |-> r.handle, multi |-> r.multi, header |-> r.header]
  BY ReqFields
<1> HIDE DEF r
<1>2. RequestType /\ RequestOk(request[t])
  BY DEF TransportInv, RequestType
<1>3. RequestOk(r)
  BY <1>1, <1>2 DEF RequestOk
<1>4. Only(t, r)
  BY <1>2, <1>3, BecomesOnly DEF r
<1>5. HandleOf' = HandleOf /\ MultiOf' = MultiOf
  BY <1>1, <1>4, OfFacts DEF Only
<1>6. PoolInv(handles_, HandleOf)' /\ PoolInv(multi_handles_, MultiOf)'
  BY <1>5 DEF TransportInv, PoolInv
<1>7. AttachedInv' /\ attached' \subseteq Handle \X Handle
  <2>1. \A u \in Thread : u # t => request'[u] = request[u]
    BY <1>4 DEF Only
  <2>2. attached' \subseteq attached
    OBVIOUS
  <2> QED BY <2>1, <2>2, AttachedKept DEF TransportInv
<1> QED BY <1>4, <1>6, <1>7 DEF TransportInv, Only, r

LEMMA AuthorizationHeaderInv ==
  ASSUME TransportInv, NEW t \in Thread, AuthorizationHeader(t), mishap \subseteq mishap', Over' => Over
  PROVE  TransportInv'
<1>1. request[t].at = "builder" /\ mu_ = NoThread /\ UNCHANGED <<handles_, multi_handles_, attached, authorization>>
  BY DEF AuthorizationHeader, poolVars
<1>2. RequestType
  BY DEF TransportInv
<1>3. \A u \in Thread : request[u].at \notin {"account", "token"}
  BY <1>1, TransportAssumption DEF TransportInv, TokenInv, Thread
<1>4. CASE IsValid
  <2>1. Becomes(t, Req("ready", request[t].handle, request[t].multi, "valid")) /\ mu_' = mu_
    <3>1. Becomes(t, [At(t, "ready") EXCEPT !.header = "valid"]) /\ mu_' = mu_
      BY <1>4 DEF AuthorizationHeader
    <3>2. [At(t, "ready") EXCEPT !.header = "valid"]
            = Req("ready", request[t].handle, request[t].multi, "valid")
      <4>1. At(t, "ready") = Req("ready", request[t].handle, request[t].multi, request[t].header)
        BY <1>2, RequestShapes
      <4> QED BY <4>1 DEF Req
    <3> QED BY <3>1, <3>2 DEF Becomes
  <2> DEFINE r == Req("ready", request[t].handle, request[t].multi, "valid")
  <2>2. Only(t, r) /\ (TokenInv' => TransportInv')
    BY <1>1, <2>1, NewStage
  <2>3. r.at = "ready"
    BY ReqFields
  <2> HIDE DEF r
  <2>4. TokenInv'
    BY <1>1, <2>1, <2>2, <2>3, TokenKept DEF TransportInv, Only
  <2> QED BY <2>2, <2>4
<1>5. CASE ~IsValid
  <2>1. PICK at \in {"account", "token"} : Becomes(t, At(t, at)) /\ mu_' = t
    BY <1>5 DEF AuthorizationHeader
  <2> DEFINE r == Req(at, request[t].handle, request[t].multi, request[t].header)
  <2>2. Becomes(t, r)
    BY <1>2, <2>1, RequestShapes
  <2>3. Only(t, r) /\ (TokenInv' => TransportInv')
    BY <1>1, <2>2, NewStage
  <2> HIDE DEF r
  <2>4. TokenInv'
    BY <1>1, <1>3, <1>5, <2>1, <2>3 DEF TokenInv, Only, IsValid
  <2> QED BY <2>3, <2>4
<1> QED BY <1>4, <1>5

LEMMA AccountAnsweredInv ==
  ASSUME TransportInv, NEW t \in Thread, AccountAnswered(t), mishap \subseteq mishap', Over' => Over
  PROVE  TransportInv'
<1>1. /\ request[t].at = "account" /\ Becomes(t, At(t, "token"))
      /\ UNCHANGED <<handles_, multi_handles_, attached, authorization, mu_>>
  BY DEF AccountAnswered, poolVars, tokenVars
<1> DEFINE r == Req("token", request[t].handle, request[t].multi, request[t].header)
<1>2. Becomes(t, r)
  BY <1>1, RequestShapes DEF TransportInv
<1>3. Only(t, r) /\ (TokenInv' => TransportInv')
  BY <1>1, <1>2, NewStage
<1> HIDE DEF r
<1>4. TokenInv'
  BY <1>1, <1>3 DEF TransportInv, TokenInv, Only, IsValid
<1> QED BY <1>3, <1>4

(* The one that holds the lock is the only one that waits for an answer.    *)
LEMMA Unlocked ==
  ASSUME TokenInv, NEW t \in Thread, request[t].at \in {"account", "token"}, mu_' = NoThread,
         \A u \in Thread : u # t => request'[u] = request[u],
         request'[t].at \notin {"account", "token"}
  PROVE  TokenInv'
BY DEF TokenInv

LEMMA TokenAnsweredInv ==
  ASSUME TransportInv, NEW t \in Thread, NEW complete \in BOOLEAN, TokenAnswered(t, complete),
         mishap \subseteq mishap', Over' => Over
  PROVE  TransportInv'
<1>1. /\ request[t].at = "token" /\ mu_' = NoThread
      /\ Becomes(t, [At(t, "ready") EXCEPT !.header = authorization'])
      /\ UNCHANGED <<handles_, multi_handles_, attached>>
  BY DEF TokenAnswered, poolVars
<1> DEFINE r == Req("ready", request[t].handle, request[t].multi, authorization')
<1>2. Becomes(t, r)
  <2>1. RequestType
    BY DEF TransportInv
  <2>2. ASSUME NEW x
        PROVE  [At(t, "ready") EXCEPT !.header = x] = Req("ready", request[t].handle, request[t].multi, x)
    <3>1. At(t, "ready") = Req("ready", request[t].handle, request[t].multi, request[t].header)
      BY <2>1, RequestShapes
    <3> QED BY <3>1 DEF Req
  <2> QED BY <1>1, <2>2
<1>3. Only(t, r) /\ (TokenInv' => TransportInv')
  BY <1>1, <1>2, NewStage
<1>4. r.at = "ready"
  BY ReqFields
<1> HIDE DEF r
<1>5. TokenInv'
  BY <1>1, <1>3, <1>4, Unlocked DEF TransportInv, Only
<1> QED BY <1>3, <1>5

LEMMA BuildRequestInv ==
  ASSUME TransportInv, NEW t \in Thread, BuildRequest(t), mishap \subseteq mishap', Over' => Over
  PROVE  TransportInv'
<1>1. /\ request[t].at = "ready" /\ Becomes(t, At(t, "request"))
      /\ UNCHANGED <<handles_, multi_handles_, attached, authorization, mu_>>
  BY DEF BuildRequest, poolVars, tokenVars
<1> DEFINE r == Req("request", request[t].handle, request[t].multi, request[t].header)
<1>2. Becomes(t, r)
  BY <1>1, RequestShapes DEF TransportInv
<1>3. Only(t, r) /\ (TokenInv' => TransportInv')
  BY <1>1, <1>2, NewStage
<1>4. r.at = "request"
  BY ReqFields
<1> HIDE DEF r
<1>5. TokenInv'
  BY <1>1, <1>3, <1>4, TokenKept DEF TransportInv, Only
<1> QED BY <1>3, <1>5

(* The request of a thread without one starts with a handle.                *)
LEMMA StartRequestInv ==
  ASSUME TransportInv, NEW t \in Thread, StartRequest(t), mishap \subseteq mishap', Over' => Over
  PROVE  TransportInv' /\ request'[t].at = "builder"
<1>1. /\ request[t] = NoRequest /\ CreateHandle(t)
      /\ UNCHANGED <<multi_handles_, attached, authorization, mu_>>
  BY DEF StartRequest, tokenVars
<1>2. RequestType /\ PoolInv(handles_, HandleOf) /\ PoolInv(multi_handles_, MultiOf)
  BY DEF TransportInv
<1>3. request[t].handle = NoHandle /\ request[t].multi = NoHandle /\ request[t].at = "none"
  BY <1>1 DEF NoRequest
<1>4. \E h \in Handle : /\ Becomes(t, [NoRequest EXCEPT !.at = "builder", !.handle = h])
                        /\ PoolInv(handles_', [HandleOf EXCEPT ![t] = h])
  <2>1. CASE handles_ = <<>>
    <3> DEFINE h == New(handles_, "handle")
    <3>1. Becomes(t, [NoRequest EXCEPT !.at = "builder", !.handle = h]) /\ handles_' = handles_
      BY <1>1, <2>1 DEF CreateHandle
    <3>2. \E x \in 1..(maximum_size_ + Cardinality(Thread)) : x \notin Pooled(handles_) \union InUse("handle")
      <4>1. PICK x \in 1..(maximum_size_ + Cardinality(Thread)) : \A u \in Thread : HandleOf[u] # x
        BY OfFacts, OneIsFree
      <4>2. Pooled(handles_) = {}
        BY <2>1 DEF Pooled
      <4>3. x \notin InUse("handle")
        BY <4>1, OfFacts DEF InUse
      <4> QED BY <4>2, <4>3
    <3>3. h \in 1..(maximum_size_ + Cardinality(Thread)) /\ h \notin Pooled(handles_) \union InUse("handle")
      BY <3>2 DEF New
    <3> HIDE DEF h
    <3>4. h \in Handle /\ h # NoHandle
      BY <3>3 DEF Handle, NoHandle
    <3>5. \A u \in Thread : HandleOf[u] # h
      <4> TAKE u \in Thread
      <4>1. CASE request[u].at = "none"
        BY <1>2, <3>4, <4>1, OfFacts DEF RequestType, RequestOk
      <4>2. CASE request[u].at # "none"
        BY <3>3, <4>2, OfFacts DEF InUse
      <4> QED BY <4>1, <4>2
    <3>6. PoolInv(handles_, [HandleOf EXCEPT ![t] = h])
      BY <1>2, <2>1, <3>4, <3>5, OfFacts, TakeNew
    <3> QED BY <3>1, <3>4, <3>6
  <2>2. CASE handles_ # <<>>
    <3> DEFINE h == handles_[Len(handles_)]
    <3>1. /\ Becomes(t, [NoRequest EXCEPT !.at = "builder", !.handle = h])
          /\ handles_' = SubSeq(handles_, 1, Len(handles_) - 1)
      BY <1>1, <2>2 DEF CreateHandle
    <3>2. HandleOf[t] = NoHandle
      BY <1>3, OfFacts
    <3>3. h \in Handle /\ PoolInv(SubSeq(handles_, 1, Len(handles_) - 1), [HandleOf EXCEPT ![t] = h])
      BY <1>2, <2>2, <3>2, OfFacts, TakeFromPool
    <3> HIDE DEF h
    <3> QED BY <3>1, <3>3
  <2> QED BY <2>1, <2>2
<1>5. PICK h \in Handle : /\ Becomes(t, [NoRequest EXCEPT !.at = "builder", !.handle = h])
                          /\ PoolInv(handles_', [HandleOf EXCEPT ![t] = h])
  BY <1>4
<1> DEFINE r == Req("builder", h, NoHandle, "none")
<1>6. Becomes(t, r)
  BY <1>2, <1>5, RequestShapes
<1>7. /\ r.at = "builder" /\ r.handle = h /\ r.multi = NoHandle
      /\ r = [at |-> r.at, handle |-> r.handle, multi |-> r.multi, header |-> r.header]
  BY ReqFields
<1> HIDE DEF r
<1>8. RequestOk(r)
  BY <1>7 DEF RequestOk, Handle, NoHandle
<1>9. Only(t, r)
  BY <1>2, <1>6, <1>8, BecomesOnly
<1>10. HandleOf' = [HandleOf EXCEPT ![t] = h] /\ MultiOf' = MultiOf
  BY <1>3, <1>7, <1>9, OfFacts DEF Only
<1>11. PoolInv(handles_, HandleOf)'
  BY <1>5, <1>10
<1>12. PoolInv(multi_handles_, MultiOf)'
  BY <1>1, <1>2, <1>10 DEF PoolInv
<1>13. \A u \in Thread : u # t => request'[u] = request[u]
  BY <1>9 DEF Only
<1>14. AttachedInv' /\ attached' \subseteq Handle \X Handle
  BY <1>1, <1>3, <1>13, AttachedKept DEF TransportInv
<1>15. TokenInv'
  BY <1>1, <1>7, <1>9, <1>13, TokenKept DEF TransportInv, Only
<1> QED BY <1>7, <1>9, <1>11, <1>12, <1>14, <1>15 DEF TransportInv, Only

(* BuildTransfer(), which also takes a multi handle.                        *)
LEMMA BuildTransferInv ==
  ASSUME TransportInv, NEW t \in Thread, BuildTransfer(t), mishap \subseteq mishap', Over' => Over,
         t = Streamer => ~Over'
  PROVE  TransportInv'
<1> DEFINE m == CreateMultiHandle
<1>1. /\ request[t].at = "ready" /\ Becomes(t, [At(t, "transfer") EXCEPT !.multi = m])
      /\ attached' = attached \union {<<request[t].handle, m>>}
      /\ multi_handles_' = IF multi_handles_ = <<>> THEN <<>>
                           ELSE SubSeq(multi_handles_, 1, Len(multi_handles_) - 1)
      /\ UNCHANGED <<handles_, authorization, mu_>>
  BY DEF BuildTransfer, tokenVars
<1>2. RequestType /\ PoolInv(handles_, HandleOf) /\ PoolInv(multi_handles_, MultiOf) /\ RequestOk(request[t])
  BY DEF TransportInv, RequestType
<1>3. request[t].handle \in Handle /\ request[t].multi = NoHandle
  BY <1>1, <1>2 DEF RequestOk, Handle
<1>4. m \in Handle /\ PoolInv(multi_handles_', [MultiOf EXCEPT ![t] = m])
  <2>1. CASE multi_handles_ = <<>>
    <3>1. m = New(multi_handles_, "multi") /\ multi_handles_' = multi_handles_
      BY <1>1, <2>1 DEF CreateMultiHandle
    <3>2. \E x \in 1..(maximum_size_ + Cardinality(Thread)) : x \notin Pooled(multi_handles_) \union InUse("multi")
      <4>1. PICK x \in 1..(maximum_size_ + Cardinality(Thread)) : \A u \in Thread : MultiOf[u] # x
        BY OfFacts, OneIsFree
      <4>2. Pooled(multi_handles_) = {}
        BY <2>1 DEF Pooled
      <4>3. x \notin InUse("multi")
        BY <4>1, OfFacts DEF InUse
      <4> QED BY <4>2, <4>3
    <3>3. m \in 1..(maximum_size_ + Cardinality(Thread)) /\ m \notin Pooled(multi_handles_) \union InUse("multi")
      <4> HIDE DEF m
      <4> QED BY <3>1, <3>2 DEF New
    <3> HIDE DEF m
    <3>4. m \in Handle /\ m # NoHandle
      BY <3>3 DEF Handle, NoHandle
    <3>5. \A u \in Thread : MultiOf[u] # m
      <4> TAKE u \in Thread
      <4>1. CASE request[u].at = "none"
        BY <1>2, <3>4, <4>1, OfFacts DEF RequestType, RequestOk
      <4>2. CASE request[u].at # "none"
        BY <3>3, <4>2, OfFacts DEF InUse
      <4> QED BY <4>1, <4>2
    <3>6. PoolInv(multi_handles_, [MultiOf EXCEPT ![t] = m])
      BY <1>2, <2>1, <3>4, <3>5, OfFacts, TakeNew
    <3> QED BY <3>1, <3>4, <3>6
  <2>2. CASE multi_handles_ # <<>>
    <3>1. m = multi_handles_[Len(multi_handles_)] /\ multi_handles_' = SubSeq(multi_handles_, 1, Len(multi_handles_) - 1)
      BY <1>1, <2>2 DEF CreateMultiHandle
    <3>2. MultiOf[t] = NoHandle
      BY <1>3, OfFacts
    <3> HIDE DEF m
    <3> QED BY <1>2, <2>2, <3>1, <3>2, OfFacts, TakeFromPool
  <2> QED BY <2>1, <2>2
<1> HIDE DEF m
<1> DEFINE r == Req("transfer", request[t].handle, m, request[t].header)
<1>5. Becomes(t, r)
  <2>1. [At(t, "transfer") EXCEPT !.multi = m] = r
    BY <1>2, RequestShapes
  <2> QED BY <1>1, <2>1
<1>6. /\ r.at = "transfer" /\ r.handle = request[t].handle /\ r.multi = m
      /\ r = [at |-> r.at, handle |-> r.handle, multi |-> r.multi, header |-> r.header]
  BY ReqFields
<1> HIDE DEF r
<1>7. RequestOk(r)
  BY <1>3, <1>4, <1>6 DEF RequestOk, Handle, NoHandle
<1>8. Only(t, r)
  BY <1>2, <1>5, <1>7, BecomesOnly
<1>9. MultiOf' = [MultiOf EXCEPT ![t] = m] /\ HandleOf' = HandleOf
  BY <1>6, <1>8, OfFacts DEF Only
<1>10. PoolInv(multi_handles_, MultiOf)'
  BY <1>4, <1>9
<1>11. PoolInv(handles_, HandleOf)'
  BY <1>1, <1>2, <1>9 DEF PoolInv
<1>12. \A u \in Thread : u # t => request'[u] = request[u]
  BY <1>8 DEF Only
<1>13. attached' \subseteq Handle \X Handle
  BY <1>1, <1>3, <1>4 DEF TransportInv
<1>14. AttachedInv'
  <2> SUFFICES ASSUME "suspended" \notin mishap', NEW p \in attached'
               PROVE  \E u \in Thread : Attaches(u, p)'
    BY DEF AttachedInv
  <2>1. CASE p = <<request[t].handle, m>>
    <3>1. Attaches(t, p)'
      BY <1>6, <1>8, <2>1 DEF Attaches, Only
    <3> QED BY <3>1
  <2>2. CASE p \in attached
    <3>1. PICK u \in Thread : Attaches(u, p)
      BY <2>2 DEF TransportInv, AttachedInv
    <3>2. u # t
      BY <1>1, <3>1 DEF Attaches
    <3> QED BY <1>12, <3>1, <3>2 DEF Attaches
  <2> QED BY <1>1, <2>1, <2>2
<1>15. TokenInv'
  BY <1>1, <1>6, <1>8, <1>12, TokenKept DEF TransportInv, Only
<1> QED BY <1>8, <1>10, <1>11, <1>13, <1>14, <1>15 DEF TransportInv, Only

(* A request ends, with its handle removed from its multi handle.           *)
LEMMA RequestDone ==
  ASSUME TransportInv, NEW t \in Thread, Becomes(t, At(t, "done")), request[t].at # "none",
         UNCHANGED <<handles_, multi_handles_, authorization, mu_>>, attached' \subseteq attached,
         mishap \subseteq mishap', Streamer # t => (Over' => Over),
         \/ request[t].at # "transfer"
         \/ t = Streamer /\ Over
         \/ <<request[t].handle, request[t].multi>> \notin attached'
         \/ "suspended" \in mishap'
  PROVE  TransportInv' /\ request'[t].at = "done"
<1>1. RequestType /\ RequestOk(request[t])
  BY DEF TransportInv, RequestType
<1> DEFINE r == Req("done", request[t].handle, request[t].multi, request[t].header)
<1>2. Becomes(t, r)
  BY <1>1, RequestShapes
<1>3. /\ r.at = "done" /\ r.handle = request[t].handle /\ r.multi = request[t].multi
      /\ r = [at |-> r.at, handle |-> r.handle, multi |-> r.multi, header |-> r.header]
  BY ReqFields
<1> HIDE DEF r
<1>4. RequestOk(r)
  BY <1>1, <1>3 DEF RequestOk
<1>5. Only(t, r)
  BY <1>1, <1>2, <1>4, BecomesOnly
<1>6. HandleOf' = HandleOf /\ MultiOf' = MultiOf
  BY <1>3, <1>5, OfFacts DEF Only
<1>7. PoolInv(handles_, HandleOf)' /\ PoolInv(multi_handles_, MultiOf)'
  BY <1>6 DEF TransportInv, PoolInv
<1>8. \A u \in Thread : u # t => request'[u] = request[u]
  BY <1>5 DEF Only
<1>9. AttachedInv' /\ attached' \subseteq Handle \X Handle
  <2>1. CASE "suspended" \in mishap'
    BY <2>1 DEF AttachedInv, TransportInv
  <2>2. CASE "suspended" \notin mishap'
    BY <1>8, <2>2, AttachedKept DEF TransportInv
  <2> QED BY <2>1, <2>2
<1>10. TokenInv'
  BY <1>3, <1>5, <1>8, TokenKept DEF TransportInv, Only
<1> QED BY <1>3, <1>5, <1>7, <1>9, <1>10 DEF TransportInv, Only

LEMMA RequestEndsInv ==
  ASSUME TransportInv, NEW t \in Thread, RequestEnds(t), mishap \subseteq mishap', Over' => Over
  PROVE  TransportInv'
<1>1. /\ request[t].at # "none" /\ Becomes(t, At(t, "done"))
      /\ attached' = attached \ {<<request[t].handle, request[t].multi>>}
      /\ UNCHANGED <<handles_, multi_handles_, authorization, mu_>>
  BY DEF RequestEnds, RemoveHandle, tokenVars
<1> QED BY <1>1, RequestDone

(* The request is dropped with its handle before it is built.               *)
LEMMA RefreshFailsInv ==
  ASSUME TransportInv, NEW t \in Thread, RefreshFails(t), mishap \subseteq mishap', Over' => Over
  PROVE  TransportInv' /\ request'[t].at = "none"
<1>1. /\ request[t].at \in {"account", "token"} /\ Becomes(t, NoRequest) /\ mu_' = NoThread
      /\ attached' \subseteq attached /\ UNCHANGED <<handles_, multi_handles_>>
  BY DEF RefreshFails, Detach
<1>2. RequestType /\ RequestOk(request[t]) /\ PoolInv(handles_, HandleOf)
  BY DEF TransportInv, RequestType
<1> DEFINE r == Req("none", NoHandle, NoHandle, "none")
<1>3. Becomes(t, r)
  BY <1>1, <1>2, RequestShapes
<1>4. /\ r.at = "none" /\ r.handle = NoHandle /\ r.multi = NoHandle
      /\ r = [at |-> r.at, handle |-> r.handle, multi |-> r.multi, header |-> r.header]
  BY ReqFields
<1> HIDE DEF r
<1>5. RequestOk(r)
  BY <1>4 DEF RequestOk, NoHandle
<1>6. Only(t, r)
  BY <1>2, <1>3, <1>5, BecomesOnly
<1>7. request[t].multi = NoHandle
  BY <1>1, <1>2 DEF RequestOk
<1>8. HandleOf' = [HandleOf EXCEPT ![t] = NoHandle] /\ MultiOf' = MultiOf
  BY <1>4, <1>6, <1>7, OfFacts DEF Only
<1>9. PoolInv(handles_, HandleOf)'
  BY <1>1, <1>2, <1>8, OfFacts, LoseHandle
<1>10. PoolInv(multi_handles_, MultiOf)'
  BY <1>1, <1>8 DEF TransportInv, PoolInv
<1>11. \A u \in Thread : u # t => request'[u] = request[u]
  BY <1>6 DEF Only
<1>12. AttachedInv' /\ attached' \subseteq Handle \X Handle
  BY <1>1, <1>11, AttachedKept DEF TransportInv
<1>13. TokenInv'
  BY <1>1, <1>4, <1>6, <1>11, Unlocked DEF TransportInv, Only
<1> QED BY <1>4, <1>6, <1>9, <1>10, <1>12, <1>13 DEF TransportInv, Only

(* The handles go back to the pools.                                        *)
LEMMA DestroyInv ==
  ASSUME TransportInv, NEW t \in Thread, Destroy(t), mishap \subseteq mishap', Over' => Over
  PROVE  TransportInv' /\ request'[t].at = "none"
<1>1. /\ request[t].at = "done" /\ Becomes(t, NoRequest)
      /\ handles_' = Cleanup(handles_, request[t].handle)
      /\ multi_handles_' = IF request[t].multi = NoHandle THEN multi_handles_
                           ELSE Cleanup(multi_handles_, request[t].multi)
      /\ attached' \subseteq attached /\ UNCHANGED <<authorization, mu_>>
  BY DEF Destroy, Detach, tokenVars
<1>2. /\ RequestType /\ RequestOk(request[t])
      /\ PoolInv(handles_, HandleOf) /\ PoolInv(multi_handles_, MultiOf)
  BY DEF TransportInv, RequestType
<1> DEFINE r == Req("none", NoHandle, NoHandle, "none")
<1>3. Becomes(t, r)
  BY <1>1, <1>2, RequestShapes
<1>4. /\ r.at = "none" /\ r.handle = NoHandle /\ r.multi = NoHandle
      /\ r = [at |-> r.at, handle |-> r.handle, multi |-> r.multi, header |-> r.header]
  BY ReqFields
<1> HIDE DEF r
<1>5. RequestOk(r)
  BY <1>4 DEF RequestOk, NoHandle
<1>6. Only(t, r)
  BY <1>2, <1>3, <1>5, BecomesOnly
<1>7. HandleOf' = [HandleOf EXCEPT ![t] = NoHandle] /\ MultiOf' = [MultiOf EXCEPT ![t] = NoHandle]
  BY <1>4, <1>6 DEF Only
<1>8. HandleOf[t] = request[t].handle /\ HandleOf[t] \in Handle
  BY <1>1, <1>2, OfFacts DEF RequestOk, Handle
<1>9. PoolInv(handles_, HandleOf)'
  BY <1>1, <1>2, <1>7, <1>8, OfFacts, GiveBack
<1>10. PoolInv(multi_handles_, MultiOf)'
  <2>1. CASE request[t].multi = NoHandle
    BY <1>1, <1>2, <1>7, <2>1, OfFacts, LoseHandle
  <2>2. CASE request[t].multi # NoHandle
    <3>1. MultiOf[t] = request[t].multi /\ MultiOf[t] \in Handle
      BY <1>2, <2>2, OfFacts DEF RequestOk, Handle
    <3> QED BY <1>1, <1>2, <1>7, <2>2, <3>1, OfFacts, GiveBack
  <2> QED BY <2>1, <2>2
<1>11. \A u \in Thread : u # t => request'[u] = request[u]
  BY <1>6 DEF Only
<1>12. AttachedInv' /\ attached' \subseteq Handle \X Handle
  BY <1>1, <1>11, AttachedKept DEF TransportInv
<1>13. TokenInv'
  BY <1>1, <1>4, <1>6, <1>11, TokenKept DEF TransportInv, Only
<1> QED BY <1>4, <1>6, <1>9, <1>10, <1>12, <1>13 DEF TransportInv, Only

------------------------------------------------------------------------------
(* The streams and their requests.                                          *)

Starting == {"builder", "account", "token", "ready"}

(* The stream is in use, and goes on.                                       *)
LEMMA StreamerBusy ==
  ASSUME StreamerInv, requests' = requests,
         ~Fresh \/ request[Streamer].at \in {"transfer", "done"},
         request' = request \/ request'[Streamer].at \in {"transfer", "done"}
  PROVE  StreamerInv'
<1>1. requests[Streamer] # 0 /\ request[Streamer].at \notin Starting
  BY DEF StreamerInv, Starting
<1>2. request'[Streamer].at \notin Starting
  BY <1>1 DEF Starting
<1> QED BY <1>1, <1>2 DEF StreamerInv, Starting

(* Nothing but the request changes, and it is not begun or being made.      *)
LEMMA StreamerMoves ==
  ASSUME StreamerInv, UNCHANGED <<requests, dataVars>>,
         \/ request[Streamer].at \in Starting /\ request'[Streamer].at \in Starting
         \/ request[Streamer].at # "none" /\ request'[Streamer].at = "none"
  PROVE  StreamerInv'
<1>1. UNCHANGED <<closing_, curl_closed_, at_end, bad, op, buffer_, region, got>>
  BY DEF dataVars, curlVars, readVars, streamVars
<1>2. Fresh => Fresh'
  BY <1>1 DEF Fresh
<1>3. requests[Streamer] # 0
  BY DEF StreamerInv, Starting
<1>4. request'[Streamer].at \in Starting => Fresh
  BY DEF StreamerInv, Starting
<1> QED BY <1>2, <1>3, <1>4 DEF StreamerInv, Starting

(* The request of the stream is made, or given up.                          *)
LEMMA StreamerStepInv ==
  ASSUME StreamerInv, TransportInv, StreamerStep, user' = user
  PROVE  /\ StreamerInv' /\ TransportInv'
         /\ request[Streamer].at # "transfer" /\ request'[Streamer].at # "transfer"
<1>1. /\ Streamer \in Thread /\ mishap \subseteq mishap' /\ (Over' => Over)
      /\ TransportStep(Streamer) /\ UNCHANGED dataVars
  BY DEF StreamerStep, Thread, dataVars, sessionVars, serverVars, Over, curlVars, streamVars
<1>2. CASE StartRequest(Streamer)
  <2>1. TransportInv' /\ request'[Streamer].at = "builder"
    BY <1>1, <1>2, StartRequestInv
  <2>2. /\ request[Streamer].at = "none" /\ requests[Streamer] < 1
        /\ requests' = [requests EXCEPT ![Streamer] = @ + 1]
    BY <1>2 DEF StartRequest, NoRequest
  <2>3. requests[Streamer] = 0 /\ DOMAIN requests = Thread /\ \A t \in Thread : requests[t] \in Nat
    BY <1>1, <2>2 DEF StreamerInv
  <2>4. requests'[Streamer] = 1 /\ requests' = [t \in Thread |-> requests'[t]]
    <3>1. requests'[Streamer] = requests[Streamer] + 1
      BY <1>1, <2>2, <2>3
    <3>2. requests' = [t \in Thread |-> requests'[t]]
      BY <2>2, <2>3
    <3> QED BY <2>3, <3>1, <3>2
  <2>5. \A t \in Thread : requests'[t] \in Nat
    BY <1>1, <2>2, <2>3
  <2>6. Fresh'
    <3>1. Fresh
      BY <2>3 DEF StreamerInv
    <3> QED BY <1>1, <3>1 DEF Fresh, dataVars, curlVars, readVars, streamVars
  <2> QED BY <2>1, <2>2, <2>4, <2>5, <2>6 DEF StreamerInv
<1>3. CASE AuthorizationHeader(Streamer)
  <2>1. TransportInv'
    BY <1>1, <1>3, AuthorizationHeaderInv
  <2>2. request[Streamer].at = "builder" /\ request'[Streamer].at \in Starting /\ requests' = requests
    <3>1. RequestType /\ DOMAIN request = Thread
      BY DEF TransportInv, RequestType
    <3>2. request'[Streamer].at \in {"ready", "account", "token"}
      <4>1. CASE IsValid
        <5>1. request'[Streamer] = [At(Streamer, "ready") EXCEPT !.header = "valid"]
          BY <1>1, <1>3, <3>1, <4>1 DEF AuthorizationHeader, Becomes
        <5>2. At(Streamer, "ready") =
                Req("ready", request[Streamer].handle, request[Streamer].multi, request[Streamer].header)
          BY <1>1, <3>1, RequestShapes
        <5> QED BY <5>1, <5>2 DEF Req
      <4>2. CASE ~IsValid
        <5>1. PICK at \in {"account", "token"} : request'[Streamer] = At(Streamer, at)
          BY <1>1, <1>3, <3>1, <4>2 DEF AuthorizationHeader, Becomes
        <5>2. At(Streamer, at) =
                Req(at, request[Streamer].handle, request[Streamer].multi, request[Streamer].header)
          BY <1>1, <3>1, RequestShapes
        <5> QED BY <5>1, <5>2, ReqFields
      <4> QED BY <4>1, <4>2
    <3> QED BY <1>3, <3>2 DEF AuthorizationHeader, Starting
  <2> QED BY <1>1, <2>1, <2>2, StreamerMoves DEF Starting
<1>4. CASE AccountAnswered(Streamer)
  <2>1. TransportInv'
    BY <1>1, <1>4, AccountAnsweredInv
  <2>2. request[Streamer].at = "account" /\ request'[Streamer].at = "token" /\ requests' = requests
    <3>1. request' = [request EXCEPT ![Streamer] = At(Streamer, "token")] /\ DOMAIN request = Thread
      BY <1>4 DEF AccountAnswered, Becomes, TransportInv, RequestType
    <3>2. At(Streamer, "token") =
            Req("token", request[Streamer].handle, request[Streamer].multi, request[Streamer].header)
      BY <1>1, RequestShapes DEF TransportInv
    <3> QED BY <1>1, <1>4, <3>1, <3>2, ReqFields DEF AccountAnswered
  <2> QED BY <1>1, <2>1, <2>2, StreamerMoves DEF Starting
<1>5. ASSUME NEW complete \in BOOLEAN, TokenAnswered(Streamer, complete)
      PROVE  /\ StreamerInv' /\ TransportInv'
             /\ request[Streamer].at # "transfer" /\ request'[Streamer].at # "transfer"
  <2>1. TransportInv'
    BY <1>1, <1>5, TokenAnsweredInv
  <2>2. request[Streamer].at = "token" /\ requests' = requests
    BY <1>5 DEF TokenAnswered
  <2>3. request'[Streamer].at = "ready"
    <3>1. request' = [request EXCEPT ![Streamer] = [At(Streamer, "ready") EXCEPT !.header = authorization']]
      BY <1>5 DEF TokenAnswered, Becomes
    <3>2. DOMAIN request = Thread
      BY DEF TransportInv, RequestType
    <3>3. At(Streamer, "ready") =
            Req("ready", request[Streamer].handle, request[Streamer].multi, request[Streamer].header)
      BY <1>1, RequestShapes DEF TransportInv
    <3>4. request'[Streamer] = [At(Streamer, "ready") EXCEPT !.header = authorization']
      BY <1>1, <3>1, <3>2
    <3> QED BY <3>3, <3>4 DEF Req
  <2> QED BY <1>1, <2>1, <2>2, <2>3, StreamerMoves DEF Starting
<1>6. CASE RefreshFails(Streamer)
  <2>1. TransportInv' /\ request'[Streamer].at = "none"
    BY <1>1, <1>6, RefreshFailsInv
  <2>2. request[Streamer].at \in {"account", "token"} /\ requests' = requests
    BY <1>6 DEF RefreshFails
  <2> QED BY <1>1, <2>1, <2>2, StreamerMoves
<1>7. CASE Destroy(Streamer)
  <2>1. TransportInv' /\ request'[Streamer].at = "none"
    BY <1>1, <1>7, DestroyInv
  <2>2. request[Streamer].at = "done" /\ requests' = requests
    BY <1>7 DEF Destroy
  <2> QED BY <1>1, <2>1, <2>2, StreamerMoves
<1>8. ~RequestEnds(Streamer)
  BY DEF RequestEnds
<1> QED BY <1>1, <1>2, <1>3, <1>4, <1>5, <1>6, <1>7, <1>8 DEF TransportStep, TransportProgress

(* The requests do not change, and the stream of the Streamer is not over   *)
(* with its handles attached.                                               *)
LEMMA TransportKept ==
  ASSUME TransportInv, UNCHANGED <<handles_, multi_handles_, request, authorization, mu_>>,
         attached' \subseteq attached, mishap \subseteq mishap',
         \/ Over' => Over
         \/ <<request[Streamer].handle, request[Streamer].multi>> \notin attached'
  PROVE  TransportInv'
<1>1. RequestType' /\ HandleOf' = HandleOf /\ MultiOf' = MultiOf
  BY DEF TransportInv, RequestType, RequestOk, HandleOf, MultiOf
<1>2. PoolInv(handles_, HandleOf)' /\ PoolInv(multi_handles_, MultiOf)'
  BY <1>1 DEF TransportInv, PoolInv
<1>3. AttachedInv'
  <2> SUFFICES ASSUME "suspended" \notin mishap', NEW p \in attached'
               PROVE  \E u \in Thread : Attaches(u, p)'
    BY DEF AttachedInv
  <2>1. PICK u \in Thread : Attaches(u, p)
    BY DEF TransportInv, AttachedInv
  <2>2. Attaches(u, p)'
    BY <2>1 DEF Attaches
  <2> QED BY <2>2
<1>4. TokenInv'
  BY DEF TransportInv, TokenInv, IsValid
<1> QED BY <1>1, <1>2, <1>3, <1>4 DEF TransportInv

(* One step of a download.                                                  *)
LEMMA ReadStepInv ==
  ASSUME ReadInv, StreamerInv, TransportInv, user = "read", user' = user, ReadNext
  PROVE  ReadInv' /\ StreamerInv' /\ TransportInv' /\ closes' = closes
<1> USE DEF poolVars, tokenVars, transportVars
<1>1. CASE ReadObject
  <2>1. BuildTransfer(Streamer) /\ Streamer \in Thread /\ request[Streamer].at = "ready"
    BY <1>1 DEF ReadObject, BuildTransfer, Thread
  <2>2. Fresh
    BY <2>1 DEF StreamerInv
  <2>3. ReadInv'
    BY <1>1, <2>2, ReadObjectInv
  <2>4. /\ op' = [Idle EXCEPT !.name = "get_more"] /\ mishap' = mishap /\ closes' = closes
        /\ requests' = requests
    BY <1>1 DEF ReadObject, Waits, BuildTransfer, sessionVars, serverVars
  <2>5. op' # Idle
    BY <2>4, IdleFacts DEF Idle
  <2>6. ~Over'
    BY <2>5 DEF Over
  <2>7. TransportInv'
    BY <2>1, <2>4, <2>6, BuildTransferInv
  <2>8. request'[Streamer].at = "transfer"
    BY <2>1, BuildTransferRequest
  <2>9. requests[Streamer] # 0
    BY <2>1 DEF StreamerInv
  <2> QED BY <2>3, <2>4, <2>7, <2>8, <2>9 DEF StreamerInv
<1>2. CASE WriteCallback
  <2>1. /\ UNCHANGED <<transportVars, op, curl_closed_, closing_, closes>> /\ mishap \subseteq mishap' /\ op # Idle
    BY <1>2, IdleFacts DEF WriteCallback, Performing, streamRest
  <2>2. StreamerInv'
    BY <2>1, StreamerBusy DEF Fresh
  <2>3. TransportInv'
    BY <2>1, TransportKept DEF Over
  <2> QED BY <1>2, <2>1, <2>2, <2>3, WriteCallbackInv
<1>3. CASE DownloadEnds
  <2>1. UNCHANGED <<transportVars, op, closing_, closes>> /\ mishap \subseteq mishap' /\ op # Idle
    BY <1>3, IdleFacts DEF DownloadEnds, Performing, streamRest
  <2>2. StreamerInv'
    BY <2>1, StreamerBusy DEF Fresh
  <2>3. TransportInv'
    BY <2>1, TransportKept DEF Over
  <2> QED BY <1>3, <2>1, <2>2, <2>3, DownloadEndsInv
<1>4. CASE GetMore
  <2>1. UNCHANGED <<transportVars, curl_closed_, closes, mishap>> /\ op # Idle /\ ~curl_closed_
    BY <1>4, IdleFacts DEF GetMore, Waiting, streamRest, sessionVars, serverVars
  <2>2. StreamerInv'
    BY <2>1, StreamerBusy DEF Fresh
  <2>3. TransportInv'
    BY <2>1, TransportKept DEF Over
  <2> QED BY <1>4, <2>1, <2>2, <2>3, GetMoreInv
<1>5. CASE GetLast
  <2>1. /\ UNCHANGED <<handles_, multi_handles_, request, requests, authorization, mu_, closes, mishap>>
        /\ attached' = attached \ {<<request[Streamer].handle, request[Streamer].multi>>} /\ op # Idle
    BY <1>5, IdleFacts DEF GetLast, RemoveHandle, Waiting, streamRest, sessionVars, serverVars
  <2>2. StreamerInv'
    BY <2>1, StreamerBusy DEF Fresh
  <2>3. TransportInv'
    BY <2>1, TransportKept
  <2> QED BY <1>5, <2>1, <2>2, <2>3, GetLastInv
<1>6. CASE ReadClosed
  <2>1. /\ UNCHANGED <<handles_, multi_handles_, request, requests, authorization, mu_, closes, mishap>>
        /\ attached' = attached \ {<<request[Streamer].handle, request[Streamer].multi>>} /\ op # Idle
    BY <1>6, IdleFacts DEF ReadClosed, RemoveHandle, Waiting, streamRest, sessionVars, serverVars
  <2>2. StreamerInv'
    BY <2>1, StreamerBusy DEF Fresh
  <2>3. TransportInv'
    BY <2>1, TransportKept
  <2> QED BY <1>6, <2>1, <2>2, <2>3, ReadClosedInv
<1>7. CASE Underflow
  <2>1. /\ UNCHANGED <<transportVars, curl_closed_, closes, mishap>> /\ op = Idle
        /\ request[Streamer].at = "transfer"
    BY <1>7 DEF Underflow, Readable, streamRest, sessionVars, serverVars, curlVars
  <2>2. StreamerInv'
    BY <2>1, StreamerBusy
  <2>3. TransportInv'
    BY <2>1, TransportKept DEF Over
  <2> QED BY <1>7, <2>1, <2>2, <2>3, UnderflowInv
<1>8. CASE ReadRegion
  <2>1. /\ UNCHANGED <<transportVars, curl_closed_, closes, mishap, op>>
        /\ request[Streamer].at = "transfer"
    BY <1>8 DEF ReadRegion, Readable, streamVars, sessionVars, serverVars, curlVars
  <2>2. StreamerInv'
    BY <2>1, StreamerBusy
  <2>3. TransportInv'
    BY <2>1, TransportKept DEF Over
  <2> QED BY <1>8, <2>1, <2>2, <2>3, ReadRegionInv
<1>9. CASE CloseRead
  <2>1. /\ UNCHANGED <<transportVars, curl_closed_, closes, mishap>> /\ ~curl_closed_
        /\ request[Streamer].at = "transfer"
    BY <1>9 DEF CloseRead, streamRest, sessionVars, serverVars
  <2>2. StreamerInv'
    BY <2>1, StreamerBusy
  <2>3. TransportInv'
    BY <2>1, TransportKept DEF Over
  <2> QED BY <1>9, <2>1, <2>2, <2>3, CloseReadInv
<1>10. CASE DropRead
  <2>1. /\ UNCHANGED <<curlVars, readVars, sessionVars, streamVars, handles_, multi_handles_, attached,
                       requests, authorization, mu_, closes, mishap, op>>
        /\ request[Streamer].at = "transfer" /\ op = Idle /\ curl_closed_
        /\ Becomes(Streamer, At(Streamer, "done")) /\ Streamer \in Thread
    BY <1>10 DEF DropRead, sessionVars, serverVars, streamVars, Thread
  <2>2. Over
    BY <2>1 DEF Over
  <2>3. TransportInv' /\ request'[Streamer].at = "done"
    <3>1. request[Streamer].at # "none" /\ attached' \subseteq attached /\ mishap \subseteq mishap'
      BY <2>1
    <3> QED BY <2>1, <2>2, <3>1, RequestDone
  <2>4. StreamerInv'
    BY <2>1, <2>3, StreamerBusy
  <2>5. op.name = "none"
    BY <2>1, IdleFacts
  <2>6. ReadInv'
    BY <2>1, <2>3, <2>5, ReadKept
  <2> QED BY <2>1, <2>3, <2>4, <2>6
<1> QED BY <1>1, <1>2, <1>3, <1>4, <1>5, <1>6, <1>7, <1>8, <1>9, <1>10 DEF ReadNext, ReadWaits

------------------------------------------------------------------------------

(* An operation of the stream without a session that does not end it.       *)
LEMMA SimpleGoesOn ==
  ASSUME StreamerInv, TransportInv, UNCHANGED transportVars, mishap \subseteq mishap',
         request[Streamer].at = "transfer", Over' => Over
  PROVE  StreamerInv' /\ TransportInv'
<1> USE DEF poolVars, tokenVars, transportVars
<1>1. StreamerInv'
  BY StreamerBusy
<1> QED BY <1>1, TransportKept

LEMMA SimpleStepInv ==
  ASSUME SimpleInv, ClosingInv, StreamerInv, TransportInv, user = "simple", user' = user, SimpleNext
  PROVE  SimpleInv' /\ ClosingInv' /\ StreamerInv' /\ TransportInv' /\ at_end' = at_end
<1> USE WriteAssumption
<1>1. CASE WriteObject
  <2>1. /\ BuildTransfer(Streamer) /\ Streamer \in Thread /\ request[Streamer].at = "ready"
        /\ UNCHANGED <<curlVars, serverVars, bufferVars, hashed, written, bad, closes, op, requests, at_end>>
    BY <1>1 DEF WriteObject, BuildTransfer, Thread, otherVars, readVars
  <2>2. /\ UNCHANGED <<committed, finalized, buffer_, current_ios_buffer_, hashed, written, put, closes,
                       op, bad, curl_closed_, code, closing_>>
        /\ mishap \subseteq mishap'
    BY <2>1 DEF curlVars, serverVars, bufferVars
  <2>3. SimpleInv'
    BY <2>2, SimpleKept
  <2>4. Fresh
    BY <2>1 DEF StreamerInv
  <2>5. ~Over' /\ ClosingInv'
    BY <2>2, <2>4 DEF Fresh, Over, ClosingInv
  <2>6. TransportInv'
    BY <2>1, <2>2, <2>5, BuildTransferInv
  <2>7. request'[Streamer].at = "transfer"
    BY <2>1, BuildTransferRequest
  <2>8. requests[Streamer] # 0
    BY <2>1 DEF StreamerInv
  <2>9. StreamerInv'
    BY <2>1, <2>7, <2>8 DEF StreamerInv
  <2> QED BY <2>1, <2>3, <2>5, <2>6, <2>9
<1>2. ASSUME NEW n \in WriteSizes, xsputn(n)
      PROVE  SimpleInv' /\ ClosingInv' /\ StreamerInv' /\ TransportInv' /\ at_end' = at_end
  <2>1. /\ UNCHANGED <<transportVars, mishap, closing_, at_end, closes>> /\ op = Idle /\ closes = 0
        /\ request[Streamer].at = "transfer"
    BY <1>2 DEF xsputn, CanWrite, StreamOpen, Usable, streamAlways, otherVars, readVars, serverVars, curlVars
  <2>2. ~closing_
    BY <2>1, IdleFacts DEF ClosingInv
  <2>3. StreamerInv' /\ TransportInv'
    BY <2>1, <2>2, SimpleGoesOn DEF Over
  <2>4. n \in Nat
    OBVIOUS
  <2> QED BY <1>2, <2>1, <2>2, <2>3, <2>4, xsputnInv DEF ClosingInv
<1>3. CASE overflow
  <2>1. /\ UNCHANGED <<transportVars, mishap, closing_, at_end, closes>> /\ op = Idle /\ closes = 0
        /\ request[Streamer].at = "transfer"
    BY <1>3 DEF overflow, CanWrite, StreamOpen, Usable, streamAlways, otherVars, readVars, serverVars, curlVars
  <2>2. ~closing_
    BY <2>1, IdleFacts DEF ClosingInv
  <2>3. StreamerInv' /\ TransportInv'
    BY <2>1, <2>2, SimpleGoesOn DEF Over
  <2> QED BY <1>3, <2>1, <2>2, <2>3, overflowInv DEF ClosingInv
<1>4. CASE sputc
  <2>1. /\ UNCHANGED <<transportVars, closing_, at_end, closes>> /\ op = Idle /\ closes = 0
        /\ request[Streamer].at = "transfer" /\ mishap \subseteq mishap'
    BY <1>4 DEF sputc, CanWrite, StreamOpen, Usable, otherVars, readVars, curlVars
  <2>2. ~closing_
    BY <2>1, IdleFacts DEF ClosingInv
  <2>3. StreamerInv' /\ TransportInv'
    BY <2>1, <2>2, SimpleGoesOn DEF Over
  <2> QED BY <1>4, <2>1, <2>2, <2>3, sputcInv DEF ClosingInv
<1>5. ASSUME NEW name \in {"sync", "close"}, sync(name)
      PROVE  SimpleInv' /\ ClosingInv' /\ StreamerInv' /\ TransportInv' /\ at_end' = at_end
  <2>1. /\ UNCHANGED <<transportVars, mishap, closing_, at_end>> /\ op = Idle /\ closes = 0
        /\ request[Streamer].at = "transfer"
    BY <1>5 DEF sync, StreamOpen, Usable, streamAlways, otherVars, readVars, serverVars, curlVars
  <2>2. ~closing_
    BY <2>1, IdleFacts DEF ClosingInv
  <2>3. StreamerInv' /\ TransportInv'
    BY <2>1, <2>2, SimpleGoesOn DEF Over
  <2> QED BY <1>5, <2>1, <2>2, <2>3, syncInv DEF ClosingInv
<1>6. CASE ReadCallback
  <2>1. /\ UNCHANGED <<transportVars, mishap, closing_, at_end, op, closes>>
        /\ request[Streamer].at = "transfer"
    BY <1>6 DEF ReadCallback, Sending, StreamOpen, otherVars, readVars, streamVars
  <2>2. StreamerInv' /\ TransportInv'
    BY <2>1, SimpleGoesOn DEF Over
  <2> QED BY <1>6, <2>1, <2>2, ReadCallbackInv DEF ClosingInv
<1>7. CASE PayloadEnds \/ UploadBreaks
  <2>1. /\ UNCHANGED <<transportVars, closing_, at_end, op, closes>> /\ mishap \subseteq mishap'
        /\ request[Streamer].at = "transfer"
    BY <1>7 DEF PayloadEnds, UploadBreaks, Sending, StreamOpen, otherVars, readVars, streamVars
  <2>2. StreamerInv' /\ TransportInv'
    BY <2>1, SimpleGoesOn DEF Over
  <2> QED BY <1>7, <2>1, <2>2, UploadEndsInv DEF ClosingInv
<1>8. CASE SwapBuffers
  <2>1. /\ UNCHANGED <<transportVars, mishap, closing_, at_end>> /\ op.stage = "swap"
        /\ request[Streamer].at = "transfer"
    BY <1>8 DEF SwapBuffers, Sent, StreamOpen, otherVars, readVars, serverVars
  <2>2. ~closing_
    BY <2>1, IdleFacts DEF ClosingInv
  <2>3. StreamerInv' /\ TransportInv'
    BY <2>1, <2>2, SimpleGoesOn DEF Over
  <2> QED BY <1>8, <2>1, <2>2, <2>3, SwapBuffersInv DEF ClosingInv
<1>9. CASE FlushDone
  <2>1. /\ UNCHANGED <<transportVars, mishap, closing_, at_end>> /\ op.stage = "flush"
        /\ request[Streamer].at = "transfer"
    BY <1>9 DEF FlushDone, Sent, StreamOpen, streamAlways, otherVars, readVars, serverVars, curlVars
  <2>2. ~closing_
    BY <2>1, IdleFacts DEF ClosingInv
  <2>3. StreamerInv' /\ TransportInv'
    BY <2>1, <2>2, SimpleGoesOn DEF Over
  <2> QED BY <1>9, <2>1, <2>2, <2>3, FlushDoneInv DEF ClosingInv
<1>10. CASE CloseUpload
  <2>1. /\ UNCHANGED <<transportVars, mishap, at_end>> /\ op' = [op EXCEPT !.stage = "closing"]
        /\ request[Streamer].at = "transfer"
    BY <1>10 DEF CloseUpload, Sent, StreamOpen, otherVars, readVars, serverVars
  <2>2. op'.stage = "closing" /\ op' # Idle
    BY <2>1, IdleFacts DEF SimpleInv, SimpleType, OpType
  <2>3. StreamerInv' /\ TransportInv'
    BY <2>1, <2>2, SimpleGoesOn DEF Over
  <2> QED BY <1>10, <2>1, <2>2, <2>3, CloseUploadInv DEF ClosingInv
<1>11. CASE UploadClosed
  <2>1. /\ UNCHANGED <<handles_, multi_handles_, request, requests, authorization, mu_, mishap, at_end, closes>>
        /\ attached' = attached \ {<<request[Streamer].handle, request[Streamer].multi>>}
        /\ op.stage = "closing" /\ op' = Idle
    BY <1>11 DEF UploadClosed, RemoveHandle, otherVars, readVars, serverVars, tokenVars
  <2>2. op # Idle
    BY <2>1, IdleFacts
  <2>3. StreamerInv'
    BY <2>1, <2>2, StreamerBusy DEF Fresh
  <2>4. TransportInv'
    BY <2>1, TransportKept
  <2>5. closes = 1
    BY <2>1, <2>2 DEF SimpleInv, SimpleType
  <2> QED BY <1>11, <2>1, <2>3, <2>4, <2>5, UploadClosedInv DEF ClosingInv
<1>12. CASE DropWrite
  <2>1. /\ UNCHANGED <<curlVars, committed, finalized, bufferVars, hashed, written, bad, closes, op,
                       handles_, multi_handles_, attached, requests, authorization, mu_, at_end>>
        /\ request[Streamer].at = "transfer" /\ op = Idle /\ mishap \subseteq mishap'
        /\ closing_ \/ "suspended" \in mishap'
        /\ Becomes(Streamer, At(Streamer, "done")) /\ Streamer \in Thread
    BY <1>12 DEF DropWrite, StreamOpen, Thread, otherVars, readVars, poolVars, tokenVars
  <2>2. Over \/ "suspended" \in mishap'
    BY <2>1 DEF Over
  <2>3. TransportInv' /\ request'[Streamer].at = "done"
    <3>1. request[Streamer].at # "none" /\ attached' \subseteq attached
      BY <2>1
    <3> QED BY <2>1, <2>2, <3>1, RequestDone
  <2>4. StreamerInv'
    BY <2>1, <2>3, StreamerBusy
  <2>5. SimpleInv'
    BY <2>1, SimpleKept DEF curlVars, bufferVars
  <2> QED BY <2>1, <2>3, <2>4, <2>5 DEF ClosingInv, curlVars
<1> QED BY <1>1, <1>2, <1>3, <1>4, <1>5, <1>6, <1>7, <1>8, <1>9, <1>10, <1>11, <1>12
        DEF SimpleNext, WriteWaits

------------------------------------------------------------------------------
(* The whole.                                                               *)

LEMMA InitInv ==
  ASSUME Init
  PROVE  Inv
<1> USE SessionAssumption, UploadAssumption, TransportAssumption
<1>1. /\ user \in Users /\ NoWrite /\ NoTransfer /\ NoRead /\ TransportInit
      /\ IF user = "file" THEN UploadInit ELSE SessionInit(<<>>) /\ NoUpload
  BY DEF Init
<1>2. op = Idle /\ op.name = "none" /\ op.stage = "none" /\ OpType /\ <<>> \in Bytes /\ Len(<<>>) = 0
  BY <1>1, IdleFacts DEF NoWrite, OpType, Idle
<1>3. Quantum \in Nat /\ Quantum > 1
  OBVIOUS
<1>4. <<>> \o <<>> = <<>>
  BY <1>2, Joined
<1>5. CallType /\ call.at = "none" /\ ~call.payload
  <2>1. call = NoCall
    BY <1>1 DEF UploadInit, SessionInit
  <2> QED BY <1>2, <2>1 DEF NoCall, CallType
<1>6. user = "file" => FileInv
  <2> SUFFICES ASSUME user = "file" PROVE FileInv
    OBVIOUS
  <2>1. UploadInit
    BY <1>1
  <2>2. PICK n \in Sizes : file = [i \in 1..n |-> i]
    BY <2>1 DEF UploadInit
  <2>3. n \in Nat
    OBVIOUS
  <2>4. file \in Bytes /\ Len(file) = n
    <3>1. file \in [1..n -> Nat]
      BY <2>2, <2>3
    <3> QED BY <2>3, <3>1 DEF Bytes
  <2>5. PICK k \in {m \in Restored : m < Len(file) \/ m = 0} : SessionInit(SubSeq(file, 1, k))
    BY <2>1 DEF UploadInit
  <2>6. k \in Nat /\ k <= Len(file)
    BY <2>3, <2>4, <2>5
  <2>7. SubSeq(file, 1, k) \in Bytes /\ Len(SubSeq(file, 1, k)) = k
    BY <2>4, <2>6, CutBytes
  <2>8. /\ committed \in Bytes /\ next_expected_ = Len(committed) /\ next_expected_ \in Nat
        /\ mishap = IF committed = <<>> THEN {} ELSE {"restored"}
        /\ ~finalized
    BY <2>5, <2>6, <2>7 DEF SessionInit
  <2>9. FileType /\ status = "none" /\ ~fail /\ ~eof /\ position = 0 /\ source_size = Len(file)
    <3>1. position = 0 /\ ~eof /\ ~fail /\ source_size = Len(file) /\ expected = 0 /\ status = "none"
      BY <2>1 DEF UploadInit
    <3> QED BY <1>5, <2>3, <2>4, <2>8, <3>1 DEF FileType, ServerType
  <2>10. ASSUME Clean PROVE FileClean
    <3>1. committed = <<>>
      BY <2>8, <2>10 DEF Clean
    <3>2. Known
      <4>1. 0 % Quantum = 0
        BY <1>3, SmallRemainders
      <4> QED BY <1>2, <2>8, <3>1, <4>1 DEF Known
    <3>3. Begun
      BY <1>2, <2>3, <2>4, <3>1 DEF Begun
    <3>4. AtStart
      BY <1>2, <2>8, <2>9, <3>1 DEF AtStart
    <3>5. ~InProgress
      BY <1>5 DEF InProgress, Uploading, Resetting
    <3> QED BY <1>5, <2>8, <3>2, <3>3, <3>4, <3>5 DEF FileClean
  <2> QED BY <1>5, <2>9, <2>10 DEF FileInv
<1>7. ASSUME user # "file"
      PROVE  /\ committed = <<>> /\ ~finalized /\ next_expected_ = 0 /\ mishap = {}
             /\ status = "none"
  BY <1>1, <1>2, <1>7 DEF SessionInit, NoUpload
<1>8. /\ current_ios_buffer_ = <<>> /\ put = 0 /\ open /\ last_response_ = "400" /\ hashed = <<>>
      /\ written = <<>> /\ ~bad /\ closes = 0
  BY <1>1 DEF NoWrite
<1>9. user = "stream" => StreamInv
  <2> SUFFICES ASSUME user = "stream" PROVE StreamInv
    OBVIOUS
  <2>1. user # "file"
    OBVIOUS
  <2>2. committed = <<>> /\ ~finalized /\ next_expected_ = 0 /\ mishap = {}
    BY <1>7, <2>1
  <2>3. StreamType
    BY <1>2, <1>5, <1>8, <2>2 DEF StreamType, ServerType
  <2>4. FlushInv
    BY <1>2 DEF FlushInv, FlushAt, Early
  <2>5. HashedIsStored
    BY <1>2, <1>8, <2>2 DEF HashedIsStored, FlushAt, Early, Even
  <2>6. WrittenIsSent
    BY <1>2, <1>4, <1>8, <2>2 DEF WrittenIsSent, FlushAt, Early, Buffered
  <2> QED BY <2>3, <2>4, <2>5, <2>6 DEF StreamInv
<1>10. /\ ~closing_ /\ ~curl_closed_ /\ buffer_ = <<>> /\ code = 0
       /\ object = <<>> /\ todo = <<>> /\ received_hash_ = {}
       /\ region = <<>> /\ got = <<>> /\ ~at_end
  BY <1>1 DEF NoTransfer, NoRead
<1>11. /\ handles_ = <<>> /\ multi_handles_ = <<>> /\ attached = {} /\ mu_ = NoThread
       /\ request = [t \in Thread |-> NoRequest] /\ requests = [t \in Thread |-> 0]
  BY <1>1 DEF TransportInit
<1>12. Streamer \in Thread /\ request[Streamer].at = "none" /\ requests[Streamer] = 0
  BY <1>11 DEF Thread, NoRequest
<1>13. StreamerInv
  BY <1>2, <1>8, <1>10, <1>11, <1>12 DEF StreamerInv, Fresh
<1>14. user = "read" => ReadInv
  BY <1>2, <1>10, <1>12 DEF ReadInv, ReadType, ReadIsWhole
<1>15. user = "simple" => SimpleInv /\ ClosingInv
  <2> SUFFICES ASSUME user = "simple" PROVE SimpleInv /\ ClosingInv
    OBVIOUS
  <2>1. user # "file"
    OBVIOUS
  <2>2. committed = <<>> /\ ~finalized /\ mishap = {}
    BY <1>7, <2>1
  <2>3. SimpleType
    BY <1>2, <1>8, <1>10, <2>2 DEF SimpleType
  <2>4. WrittenIsHashed
    BY <1>2, <1>4, <1>8 DEF WrittenIsHashed
  <2>5. HashedIsSent
    BY <1>2, <1>4, <1>8, <1>10, <2>2 DEF HashedIsSent
  <2> QED BY <1>8, <1>10, <2>3, <2>4, <2>5 DEF SimpleInv, WrittenMeansStored, Closed, ClosingInv
<1>16. TransportInv
  <2>1. RequestOk(NoRequest)
    BY DEF RequestOk, NoRequest, NoHandle
  <2>2. \A t \in Thread : request[t] = NoRequest
    BY <1>11
  <2>3. RequestType
    BY <1>11, <2>1, <2>2 DEF RequestType
  <2>4. NoRequest.handle = NoHandle /\ NoRequest.multi = NoHandle /\ NoRequest.at = "none"
    BY DEF NoRequest
  <2>5. HandleOf = [t \in Thread |-> NoHandle] /\ MultiOf = [t \in Thread |-> NoHandle]
    BY <2>2, <2>4 DEF HandleOf, MultiOf
  <2>6. <<>> \in Seq(Handle) /\ Len(<<>>) <= maximum_size_ /\ 1..Len(<<>>) = {}
    BY <1>2, EmptySeq
  <2>7. PoolInv(handles_, HandleOf)
    BY <1>11, <2>5, <2>6 DEF PoolInv
  <2>8. PoolInv(multi_handles_, MultiOf)
    BY <1>11, <2>5, <2>6 DEF PoolInv
  <2>9. AttachedInv
    BY <1>11 DEF AttachedInv
  <2>10. TokenInv
    BY <1>11, <2>2, <2>4 DEF TokenInv
  <2> QED BY <1>11, <2>3, <2>7, <2>8, <2>9, <2>10 DEF TransportInv
<1>17. Others
  BY <1>7, <1>8, <1>10, <1>11 DEF Others
<1> QED BY <1>6, <1>9, <1>13, <1>14, <1>15, <1>16, <1>17 DEF Inv

(* A thread that makes requests takes a step.                               *)
LEMMA RequesterStepInv ==
  ASSUME TransportInv, NEW t \in Thread, t # Streamer, TransportStep(t),
         mishap \subseteq mishap', Over' => Over
  PROVE  TransportInv'
<1>1. \/ StartRequest(t) \/ AuthorizationHeader(t) \/ AccountAnswered(t) \/ RefreshFails(t)
      \/ \E complete \in BOOLEAN : TokenAnswered(t, complete)
      \/ RequestEnds(t) \/ Destroy(t) \/ BuildRequest(t) \/ BuildTransfer(t)
  BY DEF TransportStep, TransportProgress
<1> QED BY <1>1, StartRequestInv, AuthorizationHeaderInv, AccountAnsweredInv, RefreshFailsInv,
           TokenAnsweredInv, RequestEndsInv, DestroyInv, BuildRequestInv, BuildTransferInv

(* The requests are not touched by an upload with a session.                *)
LEMMA NothingAttached ==
  ASSUME TransportInv, attached = {},
         UNCHANGED <<handles_, multi_handles_, attached, request, authorization, mu_>>
  PROVE  TransportInv'
<1>1. RequestType' /\ HandleOf' = HandleOf /\ MultiOf' = MultiOf
  BY DEF TransportInv, RequestType, RequestOk, HandleOf, MultiOf
<1>2. PoolInv(handles_, HandleOf)' /\ PoolInv(multi_handles_, MultiOf)'
  BY <1>1 DEF TransportInv, PoolInv
<1>3. AttachedInv'
  BY DEF AttachedInv
<1>4. TokenInv'
  BY DEF TransportInv, TokenInv, IsValid
<1> QED BY <1>1, <1>2, <1>3, <1>4 DEF TransportInv

(* Nothing happens.                                                         *)
LEMMA StutterInv ==
  ASSUME Inv, UNCHANGED vars
  PROVE  Inv'
<1>1. UNCHANGED <<user, sessionVars, uploadVars, file, streamVars, curlVars, readVars, transportVars>>
  BY DEF vars
<1>2. UNCHANGED <<committed, finalized, mishap, next_expected_, call, sourceVars, source_size, expected,
                  status>>
  BY <1>1 DEF sessionVars, serverVars, uploadVars
<1>3. UNCHANGED <<buffer_, current_ios_buffer_, hashed, written, put, closes, op, bad, curl_closed_, code,
                  closing_, at_end, region, got>>
  BY <1>1 DEF streamVars, bufferVars, curlVars, readVars
<1>4. UNCHANGED <<handles_, multi_handles_, attached, request, requests, authorization, mu_>>
  BY <1>1 DEF transportVars, poolVars, tokenVars
<1>5. FileInv => FileInv'
  BY <1>1, <1>2, FileKept
<1>6. StreamInv => StreamInv'
  BY <1>1, StreamKept
<1>7. ReadInv => ReadInv'
  BY <1>1, <1>4, ReadKept DEF ReadInv
<1>8. SimpleInv => SimpleInv'
  BY <1>2, <1>3, SimpleKept
<1>9. ClosingInv => ClosingInv'
  BY <1>3 DEF ClosingInv
<1>10. StreamerInv => StreamerInv'
  BY <1>3, <1>4 DEF StreamerInv, Fresh
<1>11. TransportInv => TransportInv'
  BY <1>1, <1>2, <1>3, <1>4, TransportKept DEF Over
<1>12. Others => Others'
  BY <1>1, <1>2, <1>3, <1>4 DEF Others
<1> QED BY <1>1, <1>5, <1>6, <1>7, <1>8, <1>9, <1>10, <1>11, <1>12 DEF Inv

LEMMA NextInv ==
  ASSUME Inv, Next
  PROVE  Inv'
<1>1. TransportInv /\ Others
  BY DEF Inv
<1>2. CASE FileStep(UploadNext)
  <2>1. /\ user = "file" /\ FileInv /\ attached = {}
        /\ UNCHANGED <<user, at_end, closes, transportVars>>
    BY <1>1, <1>2 DEF FileStep, Inv, Others, readVars, streamVars
  <2>2. FileInv'
    BY <1>2, <2>1, FileStepInv
  <2>3. TransportInv'
    BY <1>1, <2>1, NothingAttached DEF transportVars, poolVars, tokenVars
  <2> QED BY <1>1, <2>1, <2>2, <2>3 DEF Inv, Others, transportVars, poolVars
<1>3. CASE StreamStep(WriteNext)
  <2>1. /\ user = "stream" /\ StreamInv /\ attached = {}
        /\ UNCHANGED <<user, at_end, status, transportVars>>
    BY <1>1, <1>3 DEF StreamStep, Inv, Others, readVars, uploadVars
  <2>2. StreamInv'
    BY <1>3, <2>1, StreamStepInv
  <2>3. TransportInv'
    BY <1>1, <2>1, NothingAttached DEF transportVars, poolVars, tokenVars
  <2> QED BY <1>1, <2>1, <2>2, <2>3 DEF Inv, Others, transportVars, poolVars
<1>4. CASE CurlStep(ReadNext)
  <2>1. user \in {"read", "simple"} /\ ReadNext /\ UNCHANGED <<user, status>>
    BY <1>4 DEF CurlStep, uploadVars
  <2>2. user = "read"
    <3> SUFFICES ASSUME user = "simple" PROVE FALSE
      BY <2>1
    <3>1. op.name \notin {"get_more", "close_read"}
      BY DEF Inv, SimpleInv, SimpleType
    <3> QED BY <2>1, <3>1 DEF ReadNext, ReadObject, ReadWaits, WriteCallback, DownloadEnds, Performing,
                 GetMore, GetLast, ReadClosed, Waiting, Underflow, Readable, ReadRegion, CloseRead, DropRead
  <2>3. ReadInv' /\ StreamerInv' /\ TransportInv' /\ closes' = closes
    BY <1>1, <2>1, <2>2, ReadStepInv DEF Inv
  <2> QED BY <1>1, <2>1, <2>2, <2>3 DEF Inv, Others
<1>5. CASE CurlStep(SimpleNext)
  <2>1. user \in {"read", "simple"} /\ SimpleNext /\ UNCHANGED <<user, status>>
    BY <1>5 DEF CurlStep, uploadVars
  <2>2. user = "simple"
    <3> SUFFICES ASSUME user = "read" PROVE FALSE
      BY <2>1
    <3>1. op.stage = "none"
      BY DEF Inv, ReadInv, ReadType
    <3> QED BY <2>1, <3>1 DEF SimpleNext, WriteObject, xsputn, overflow, sputc, sync, CanWrite, WriteWaits,
                 ReadCallback, PayloadEnds, UploadBreaks, Sending, StreamOpen, SwapBuffers, FlushDone,
                 CloseUpload, UploadClosed, DropWrite
  <2>3. SimpleInv' /\ ClosingInv' /\ StreamerInv' /\ TransportInv' /\ at_end' = at_end
    BY <1>1, <2>1, <2>2, SimpleStepInv DEF Inv
  <2> QED BY <1>1, <2>1, <2>2, <2>3 DEF Inv, Others
<1>6. CASE CurlStep(StreamerStep)
  <2>1. user \in {"read", "simple"} /\ StreamerStep /\ UNCHANGED <<user, status>>
    BY <1>6 DEF CurlStep, uploadVars
  <2>2. UNCHANGED <<sessionVars, streamVars, curlVars, readVars>>
    BY <2>1 DEF StreamerStep, dataVars
  <2>3. UNCHANGED <<at_end, closes>>
    BY <2>2 DEF readVars, streamVars
  <2>4. /\ StreamerInv' /\ TransportInv'
        /\ request[Streamer].at # "transfer" /\ request'[Streamer].at # "transfer"
    BY <1>1, <2>1, StreamerStepInv DEF Inv
  <2>5. CASE user = "read"
    <3>1. ReadInv /\ op.name = "none"
      BY <2>4, <2>5 DEF Inv, ReadInv
    <3>2. ReadInv'
      BY <2>2, <2>4, <3>1, ReadKept
    <3> QED BY <1>1, <2>1, <2>3, <2>4, <2>5, <3>2 DEF Inv, Others
  <2>6. CASE user = "simple"
    <3>1. /\ UNCHANGED <<committed, finalized, buffer_, current_ios_buffer_, hashed, written, put, closes,
                         op, bad, curl_closed_, code, closing_>>
          /\ mishap \subseteq mishap'
      BY <2>2 DEF sessionVars, serverVars, streamVars, bufferVars, curlVars
    <3>2. SimpleInv'
      BY <2>6, <3>1, SimpleKept DEF Inv
    <3>3. ClosingInv'
      BY <2>6, <3>1 DEF Inv, ClosingInv
    <3> QED BY <1>1, <2>1, <2>3, <2>4, <2>6, <3>2, <3>3 DEF Inv, Others
  <2> QED BY <2>1, <2>5, <2>6
<1>7. ASSUME NEW t \in Requester, RequesterStep(TransportStep(t)) PROVE Inv'
  <2>1. /\ user = "requests" /\ TransportStep(t) /\ UNCHANGED <<user, status, at_end, closes, mishap>>
        /\ t \in Thread /\ t # Streamer
    BY <1>7, TransportAssumption
       DEF RequesterStep, Thread, uploadVars, dataVars, readVars, streamVars, sessionVars, serverVars
  <2>2. TransportInv'
    BY <1>1, <2>1, RequesterStepInv DEF Over
  <2> QED BY <1>1, <2>1, <2>2 DEF Inv, Others
<1>8. CASE RequesterStep(Expires)
  <2>1. /\ user = "requests" /\ UNCHANGED <<user, status, at_end, closes, mishap>>
        /\ UNCHANGED <<handles_, multi_handles_, attached, request, mu_>> /\ authorization' = "expired"
    BY <1>8 DEF RequesterStep, Expires, uploadVars, dataVars, readVars, streamVars, sessionVars, serverVars,
                poolVars
  <2>2. RequestType' /\ HandleOf' = HandleOf /\ MultiOf' = MultiOf
    BY <1>1, <2>1 DEF TransportInv, RequestType, RequestOk, HandleOf, MultiOf
  <2>3. PoolInv(handles_, HandleOf)' /\ PoolInv(multi_handles_, MultiOf)'
    BY <1>1, <2>1, <2>2 DEF TransportInv, PoolInv
  <2>4. AttachedInv'
    BY <1>1, <2>1 DEF TransportInv, AttachedInv, Attaches, Over
  <2>5. TokenInv'
    BY <1>1, <2>1 DEF TransportInv, TokenInv, IsValid
  <2>6. TransportInv'
    BY <1>1, <2>1, <2>2, <2>3, <2>4, <2>5 DEF TransportInv
  <2> QED BY <1>1, <2>1, <2>6 DEF Inv, Others
<1>9. CASE Done
  BY <1>9, StutterInv DEF Done
<1> QED BY <1>2, <1>3, <1>4, <1>5, <1>6, <1>7, <1>8, <1>9 DEF Next

------------------------------------------------------------------------------
(* Results.                                                                 *)

(* Every state of the transfers satisfies the inductive invariant: where    *)
(* the bytes are at each stage of an operation, which handles are in the    *)
(* pools and who waits for the token.                                       *)
THEOREM TransfersInvHolds == Spec => []Inv
<1>1. Init => Inv
  BY InitInv
<1>2. Inv /\ [Next]_vars => Inv'
  BY NextInv, StutterInv
<1> QED BY <1>1, <1>2, PTL DEF Spec

(* Success means that the object is whole: after UploadFile(), after        *)
(* Close() of either stream of an upload, and at the end of a download, for *)
(* all sizes of the object and of the buffers, and whatever fails but the   *)
(* mishaps that the definitions name.                                       *)
THEOREM SuccessIsIntact == Spec => []GoodMeansIntact
<1>1. Inv => Uploaded
  BY DEF Inv, Others, FileInv, FileClean, Clean, Uploaded
<1>2. Inv => WrittenMeansStored
  <2> SUFFICES ASSUME Inv, Closed, ~bad, Hashing, mishap \subseteq {"early", "lost"}
               PROVE  finalized /\ committed = written
    BY DEF WrittenMeansStored
  <2>1. op = Idle /\ closes # 0 /\ PutAway /\ "last" \notin mishap
    BY DEF Closed, PutAway
  <2>2. user \in {"stream", "simple"}
    BY <2>1 DEF Inv, Others
  <2>3. CASE user = "stream"
    BY <2>1, <2>3 DEF Inv, StreamInv, WrittenIsSent
  <2>4. CASE user = "simple"
    BY <2>4 DEF Inv, SimpleInv, WrittenMeansStored
  <2> QED BY <2>2, <2>3, <2>4
<1>3. Inv => ReadIsWhole
  BY DEF Inv, Others, ReadInv, ReadIsWhole
<1>4. Inv => GoodMeansIntact
  BY <1>1, <1>2, <1>3 DEF GoodMeansIntact
<1> QED BY <1>4, TransfersInvHolds, PTL

(* No byte is dropped, repeated or reordered on the way through the buffers *)
(* of the three kinds of stream, although their transfers pause, break and  *)
(* go on.                                                                   *)
THEOREM NoByteIsDropped == Spec => []NothingDropped
<1>1. Inv => SentInOrder
  <2> SUFFICES ASSUME Inv, user = "stream", op = Idle
               PROVE  /\ Usable /\ "put" \notin mishap =>
                           hashed \o current_ios_buffer_ = written /\ put = Len(current_ios_buffer_)
                      /\ ~bad /\ mishap \intersect {"early", "last"} = {} /\ (Hashing \/ closes = 0) =>
                           hashed = committed
    BY DEF SentInOrder
  <2>1. StreamInv
    BY DEF Inv
  <2>2. Usable /\ "put" \notin mishap => Buffered
    BY <2>1 DEF StreamInv, PutAway, WrittenIsSent, Usable
  <2>3. ~bad /\ mishap \intersect {"early", "last"} = {} => (open => Even) /\ (Hashing => hashed = committed)
    BY <2>1 DEF StreamInv, HashedIsStored
  <2>4. closes = 0 => open
    BY <2>1 DEF StreamInv, StreamType
  <2> QED BY <2>2, <2>3, <2>4 DEF Buffered, Even
<1>2. Inv => DownloadInOrder
  BY DEF Inv, ReadInv, DownloadInOrder
<1>3. Inv => UploadInOrder
  <2> SUFFICES ASSUME Inv, user = "simple", op = Idle, ~curl_closed_, "put" \notin mishap
               PROVE  /\ (committed \o buffer_) \o current_ios_buffer_ = written
                      /\ hashed = committed \o buffer_
                      /\ put = Len(current_ios_buffer_)
    BY DEF UploadInOrder
  <2>1. SimpleInv /\ PutAway
    BY DEF Inv, PutAway
  <2>2. closes = 0
    BY <2>1 DEF SimpleInv, SimpleType
  <2> QED BY <2>1, <2>2, SimpleIdle
<1>4. Inv => NothingDropped
  BY <1>1, <1>2, <1>3 DEF NothingDropped
<1> QED BY <1>4, TransfersInvHolds, PTL

(* The places of a handle, for those who use handles of its kind.           *)
PlacesOf(pool, use, h) ==
  {<<"pool", i>> : i \in {j \in DOMAIN pool : pool[j] = h}}
    \union {<<"request", t>> : t \in {u \in Thread : use[u] = h}}

(* A handle that is in use or in the pool is in one place only.             *)
LEMMA InOnePlace ==
  ASSUME NEW pool, NEW use, PoolInv(pool, use), NEW h, h # NoHandle
  PROVE  AtMostOne(PlacesOf(pool, use, h))
<1>1. DOMAIN pool = 1..Len(pool)
  BY DEF PoolInv
<1> DEFINE P == {<<"pool", i>> : i \in {j \in DOMAIN pool : pool[j] = h}}
           R == {<<"request", t>> : t \in {u \in Thread : use[u] = h}}
<1>2. \A x, y \in P : x = y
  BY <1>1 DEF PoolInv
<1>3. \A x, y \in R : x = y
  BY DEF PoolInv
<1>4. P = {} \/ R = {}
  <2> SUFFICES ASSUME NEW x \in P, NEW y \in R PROVE FALSE
    OBVIOUS
  <2>1. PICK i \in 1..Len(pool) : pool[i] = h
    BY <1>1
  <2>2. PICK t \in Thread : use[t] = h
    OBVIOUS
  <2> QED BY <2>1, <2>2 DEF PoolInv
<1> HIDE DEF P, R
<1>5. AtMostOne(P \union R)
  BY <1>2, <1>3, <1>4 DEF AtMostOne
<1> QED BY <1>5 DEF P, R, PlacesOf

(* However many threads make requests, whatever order they end in and       *)
(* whatever fails, a handle has one user, is detached while it is in the    *)
(* pool, and the token is refreshed by one thread at a time.                *)
THEOREM HandlesSharedSafely == Spec => []SharedSafely
<1>1. Inv => HandlesNotShared
  <2> SUFFICES ASSUME Inv PROVE HandlesNotShared
    OBVIOUS
  <2>1. PoolInv(handles_, HandleOf) /\ PoolInv(multi_handles_, MultiOf)
    BY DEF Inv, TransportInv
  <2>2. NoHandle \notin Pooled(handles_) /\ NoHandle \notin Pooled(multi_handles_)
    BY <2>1 DEF PoolInv, Pooled, Handle
  <2>3. \A h : Places(handles_, "handle", h) = PlacesOf(handles_, HandleOf, h)
    BY DEF Places, PlacesOf, HandleOf
  <2>4. \A h : Places(multi_handles_, "multi", h) = PlacesOf(multi_handles_, MultiOf, h)
    BY DEF Places, PlacesOf, MultiOf
  <2>5. \A h : h # NoHandle => AtMostOne(Places(handles_, "handle", h))
    BY <2>1, <2>3, InOnePlace
  <2>6. \A h : h # NoHandle => AtMostOne(Places(multi_handles_, "multi", h))
    BY <2>1, <2>4, InOnePlace
  <2>7. Len(handles_) <= maximum_size_ /\ Len(multi_handles_) <= maximum_size_
    BY <2>1 DEF PoolInv
  <2> QED BY <2>2, <2>5, <2>6, <2>7 DEF HandlesNotShared
<1>2. Inv => RefreshedOnce
  BY TransportAssumption DEF Inv, TransportInv, TokenInv, RefreshedOnce, Thread
<1>3. Inv /\ "suspended" \notin mishap => PooledDetached
  <2> SUFFICES ASSUME Inv, "suspended" \notin mishap, NEW p \in attached
               PROVE  p[1] \notin Pooled(handles_) /\ p[2] \notin Pooled(multi_handles_)
    BY DEF PooledDetached
  <2>1. PICK t \in Thread : Attaches(t, p)
    BY DEF Inv, TransportInv, AttachedInv
  <2>2. p[1] = HandleOf[t] /\ p[2] = MultiOf[t]
    BY <2>1, OfFacts DEF Attaches
  <2>3. PoolInv(handles_, HandleOf) /\ PoolInv(multi_handles_, MultiOf)
    BY DEF Inv, TransportInv
  <2>4. HandleOf[t] \notin Pooled(handles_) /\ MultiOf[t] \notin Pooled(multi_handles_)
    BY <2>3, SMTT(40) DEF PoolInv, Pooled
  <2> QED BY <2>2, <2>4
<1>4. Inv => SharedSafely
  BY <1>1, <1>2, <1>3 DEF SharedSafely
<1> QED BY <1>4, TransfersInvHolds, PTL

=============================================================================
