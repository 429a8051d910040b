----------------------------- MODULE WriteStream -----------------------------
(***************************************************************************)
(* Client::WriteObject() with a resumable session: an ObjectWriteStream    *)
(* over a CurlResumableStreambuf.  Its session is not retried.             *)
(*                                                                         *)
(* The stream buffer keeps the same bytes in two forms that must agree: a  *)
(* string, current_ios_buffer_, and the put area of std::streambuf.  Of    *)
(* the put area only pptr() - pbase() and epptr() - pbase() matter: a byte *)
(* that is stored through pptr() lies beyond the end of the string, and    *)
(* append() or resize() write over it.  The n-th byte that the application *)
(* writes is n, and 0 is the filling of resize().                          *)
(***************************************************************************)
EXTENDS UploadSession

CONSTANTS
  max_buffer_size_,
  WriteSizes, Puts,  \* how the application writes: write(), and whether put() too
  MaxBytes,          \* the bound on how much
  Hashing            \* whether the hashes are not disabled

ASSUME WriteAssumption ==
  /\ max_buffer_size_ \in Nat \ {0} /\ max_buffer_size_ % Quantum = 0
  /\ WriteSizes \subseteq Nat \ {0} /\ MaxBytes \in Nat
  /\ Puts \in BOOLEAN /\ Hashing \in BOOLEAN

VARIABLES
  current_ios_buffer_,
  put, area,       \* pptr() - pbase(), epptr() - pbase()
  open,            \* whether there is an upload_session_
  last_response_,  \* "400", "empty" or "metadata": its status and its payload
  hashed,          \* the bytes given to hash_validator_
  written,         \* the bytes accepted from the application
  bad,             \* badbit of the stream
  closes,          \* how often the stream was closed
  op               \* the member function in progress

bufferVars == <<current_ios_buffer_, put, area>>
streamVars == <<bufferVars, open, last_response_, hashed, written, bad, closes, op>>

Idle == [name |-> "none", bytes |-> <<>>, stage |-> "none", trailing |-> <<>>]

NoWrite ==
  /\ current_ios_buffer_ = <<>> /\ put = 0 /\ area = 0
  /\ open = TRUE /\ last_response_ = "400"
  /\ hashed = <<>> /\ written = <<>> /\ bad = FALSE
  /\ closes = 0 /\ op = Idle

------------------------------------------------------------------------------
(* The application's calls.  It closes the stream last; the destructor      *)
(* closes it again if it is still open.                                     *)

Start(name, bytes) ==
  /\ op = Idle
  /\ op' = [Idle EXCEPT !.name = name, !.bytes = bytes, !.stage = "flush"]
  /\ UNCHANGED <<sessionVars, bufferVars, open, last_response_, hashed, written, bad>>

NextBytes(n) == [i \in 1..n |-> Len(written) + i]

Usable == ~bad /\ closes = 0

Write(n) ==
  /\ Usable /\ Len(written) + n <= MaxBytes
  /\ Start("write", NextBytes(n))
  /\ UNCHANGED closes

(* std::ostream::put() without room in the put area: overflow().            *)
PutOverflows ==
  /\ Puts /\ Usable /\ put >= area /\ Len(written) < MaxBytes
  /\ Start("write", NextBytes(1))
  /\ UNCHANGED closes

(* put() with room: the string does not know of the byte.                   *)
PutFits ==
  /\ Puts /\ Usable /\ put < area /\ Len(written) < MaxBytes /\ op = Idle
  /\ put' = put + 1
  /\ written' = written \o NextBytes(1)
  /\ mishap' = mishap \union {"put"}
  /\ UNCHANGED <<committed, finalized, next_expected_, policyVars, call>>
  /\ UNCHANGED <<current_ios_buffer_, area, open, last_response_, hashed, bad, closes, op>>

Sync == Usable /\ Start("sync", <<>>) /\ UNCHANGED closes

Close ==
  /\ open /\ closes < 2
  /\ Start("close", <<>>)
  /\ closes' = closes + 1

------------------------------------------------------------------------------
(* CurlResumableStreambuf::Flush(): every member function begins with       *)
(* Flush(false), but for DoClose(), which is Flush(true).                   *)

Final == op.name = "do_close"
Flushing == op.stage = "flush" /\ call.at = "none"
NothingToFlush == put = 0 \/ (put <= max_buffer_size_ /\ ~Final)

Stage(stage) == op' = [op EXCEPT !.stage = stage]

FlushSkips ==
  /\ Flushing /\ NothingToFlush
  /\ Stage("ok")
  /\ UNCHANGED <<sessionVars, bufferVars, open, last_response_, hashed, written, bad, closes>>

resize(s, n) == [i \in 1..n |-> IF i <= Len(s) THEN s[i] ELSE 0]

FlushSends ==
  /\ Flushing /\ ~NothingToFlush /\ (Final \/ Len(current_ios_buffer_) >= max_buffer_size_)
  /\ LET chunk == resize(current_ios_buffer_, IF Final THEN put ELSE max_buffer_size_)
         upload_size == IF Final THEN next_expected_ + put ELSE 0
     IN  /\ current_ios_buffer_' = chunk
         /\ hashed' = hashed \o chunk
         /\ UploadChunk(chunk, upload_size)
  /\ op' = [op EXCEPT !.trailing = IF Final THEN <<>>
              ELSE SubSeq(current_ios_buffer_, max_buffer_size_ + 1, Len(current_ios_buffer_))]
  /\ UNCHANGED <<put, area, open, last_response_, written, bad, closes>>

(* substr() throws: the stream catches it and sets badbit, or it leaves     *)
(* Close(), as bad an end for the application.                              *)
FlushThrows ==
  /\ Flushing /\ ~NothingToFlush /\ ~Final /\ Len(current_ios_buffer_) < max_buffer_size_
  /\ bad' = TRUE /\ op' = Idle
  /\ UNCHANGED <<sessionVars, bufferVars, open, last_response_, hashed, written, closes>>

(* Fault: the bytes that did not go into the chunk are dropped.             *)
FlushReturns_NoTrailing ==
  /\ op.stage = "flush" /\ Returned
  /\ call' = [call EXCEPT !.at = "none"]
  /\ IF call.at = "ok"
     THEN /\ current_ios_buffer_' = <<>>
          /\ put' = 0 /\ area' = max_buffer_size_
          /\ open' = ~Final
          /\ last_response_' = IF call.payload THEN "metadata" ELSE "empty"
          /\ Stage("ok")
     ELSE Stage("failed") /\ UNCHANGED <<bufferVars, open, last_response_>>
  /\ UNCHANGED <<serverVars, next_expected_, policyVars, hashed, written, bad, closes>>

(* The rest of Flush().  If the upload failed the buffer stays shortened    *)
(* and pptr() stays where it was.                                           *)
FlushReturns ==
  /\ op.stage = "flush" /\ Returned
  /\ call' = [call EXCEPT !.at = "none"]
  /\ IF call.at = "ok"
     THEN /\ current_ios_buffer_' = op.trailing
          /\ put' = Len(op.trailing) /\ area' = max_buffer_size_
          /\ open' = ~Final
          /\ last_response_' = IF call.payload THEN "metadata" ELSE "empty"
          /\ Stage("ok")
     ELSE Stage("failed") /\ UNCHANGED <<bufferVars, open, last_response_>>
  /\ UNCHANGED <<serverVars, next_expected_, policyVars, hashed, written, bad, closes>>

------------------------------------------------------------------------------
(* After Flush().                                                           *)

Flushed == op.stage \in {"ok", "failed"}

(* xsputn(), overflow() and sync().                                         *)
FinishWrite ==
  /\ Flushed /\ op.name \in {"write", "sync"}
  /\ IF op.stage = "ok"
     THEN /\ current_ios_buffer_' = current_ios_buffer_ \o op.bytes
          /\ put' = put + Len(op.bytes)
          /\ written' = written \o op.bytes
          /\ UNCHANGED bad
     ELSE bad' = TRUE /\ UNCHANGED <<current_ios_buffer_, put, written>>
  /\ op' = Idle
  /\ UNCHANGED <<sessionVars, area, open, last_response_, hashed, closes>>

(* ObjectWriteStreambuf::Close(): the result of pubsync() is not looked at, *)
(* and DoClose() flushes what is left.                                      *)
DoClose ==
  /\ Flushed /\ op.name = "close"
  /\ op' = [Idle EXCEPT !.name = "do_close", !.stage = "flush"]
  /\ UNCHANGED <<sessionVars, bufferVars, open, last_response_, hashed, written, bad, closes>>

(* ValidateHash(): metadata without a hash never mismatches.                *)
ValidateHash == ~Hashing \/ last_response_ # "metadata" \/ hashed = committed

(* Fault: the status of the last response is not looked at.                 *)
FinishClose_NoStatus ==
  /\ Flushed /\ op.name = "do_close"
  /\ bad' = (bad \/ op.stage = "failed" \/ ~ValidateHash)
  /\ op' = Idle
  /\ UNCHANGED <<sessionVars, bufferVars, open, last_response_, hashed, written, closes>>

(* ObjectWriteStream::Close(), after the buffer is closed.                  *)
FinishClose ==
  /\ Flushed /\ op.name = "do_close"
  /\ bad' = (bad \/ op.stage = "failed" \/ last_response_ = "400" \/ ~ValidateHash)
  /\ op' = Idle
  /\ UNCHANGED <<sessionVars, bufferVars, open, last_response_, hashed, written, closes>>

WriteEnded ==
  /\ closes > 0 /\ op = Idle /\ (~open \/ closes = 2)
  /\ UNCHANGED <<sessionVars, streamVars>>

(* Steps of a member function that was called.                              *)
WriteInternal ==
  \/ FlushSkips \/ FlushSends \/ FlushThrows \/ FlushReturns
  \/ FinishWrite \/ DoClose \/ FinishClose
  \/ ((UploadAnswered \/ \E code \in Code : UploadFails(code)) /\ UNCHANGED streamVars)

WriteNext ==
  \/ \E n \in WriteSizes : Write(n)
  \/ PutOverflows \/ PutFits \/ Sync \/ Close
  \/ WriteInternal \/ WriteEnded

------------------------------------------------------------------------------
(* Properties.                                                              *)

Closed == closes > 0 /\ op = Idle

(* If Close() does not set badbit the object was created and has all the    *)
(* bytes the application wrote (object_stream.h: "Closing a stream          *)
(* completes an upload and creates the uploaded object.  On failure it sets *)
(* the badbit of the stream"): with hashes, whatever fails, and without a   *)
(* byte in the put area or a last chunk that is stored in part; a stream    *)
(* without a session, if there was an answer.                               *)
WrittenMeansStored ==
  Closed /\ ~bad /\ Hashing /\ mishap \subseteq {"early", "lost"} =>
    finalized /\ committed = written

(* Nothing is dropped between the application and the server.  Until the    *)
(* stream is closed every byte the application wrote was sent or is in the  *)
(* buffer, in order, and the two forms of the buffer agree, if no byte was  *)
(* stored through pptr(); and if chunks are stored whole the hash is that   *)
(* of what the server has, after Close(), which ignores a failed flush, if  *)
(* it is validated (CurlResumableStreambuf::Flush, ValidateHash).           *)
SentInOrder ==
  user = "stream" =>
    /\ op = Idle /\ Usable /\ "put" \notin mishap =>
         hashed \o current_ios_buffer_ = written /\ put = Len(current_ios_buffer_)
    /\ op = Idle /\ ~bad /\ mishap \intersect {"early", "last"} = {} /\ (Hashing \/ closes = 0) =>
         hashed = committed
=============================================================================
