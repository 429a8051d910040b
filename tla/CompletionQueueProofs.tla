------------------------ MODULE CompletionQueueProofs ------------------------
(***************************************************************************)
(* Proofs about CompletionQueue, for any number of runners, addresses,     *)
(* operations and responses:                                               *)
(*                                                                         *)
(*   RegisteredTags   a tag that comes out of the queue is registered and  *)
(*                    nobody else holds it                                 *)
(*   StreamsInOrder   a stream has one request and one callback at a time  *)
(*                    and delivers its responses in order                  *)
(***************************************************************************)
EXTENDS CompletionQueue, TLAPS

Owner == Runner \union {App, NoThread}

(* A runner has an operation in hand from FindOperation() to the end of the *)
(* loop body.  Once it has submitted the next request it only waits to      *)
(* leave ("setState"): the operation may be notified by another runner.     *)
ActivePC == {"Notify", "switch", "dataCallback", "dataReturned",
             "finalCallback", "Forget"}

HoldingPC == ActivePC \union {"setState"}

LockedPC == {"switch", "setState"}

TypeOK ==
  /\ shutdown_ \in BOOLEAN
  /\ pending_ops_ \subseteq Addr
  /\ kind \in [Addr -> {"none", "timer", "unary", "stream"}]
  /\ opMu \in [Addr -> Owner]
  /\ bound \in [Addr -> BOOLEAN]
  /\ state_ \in [Addr -> {"CREATING", "PROCESSING", "FINISHING"}]
  /\ response_ \in [Addr -> Nat]
  /\ request \in [Addr -> {"none", "alarm", "rpc", "start", "read", "finish"}]
  /\ event \in [Addr -> {"none", "ok", "failed"}]
  /\ left \in [Addr -> 0..MaxData]
  /\ cancelled \in [Addr -> BOOLEAN]
  /\ data \in [Addr -> Seq(Nat)]
  /\ final \in [Addr -> Nat]
  /\ pc \in [Runner -> HoldingPC \union {"Run", "AsyncNext", "exited"}]
  /\ held \in [Runner -> Addr \union {NoAddr}]
  /\ okFlag \in [Runner -> BOOLEAN]
  /\ received \in [Runner -> Nat]
  /\ appPc \in {"idle", "Set", "SetReader"}
  /\ appOp \in Addr \union {NoAddr}
  /\ handles \subseteq Addr
  /\ made \in Nat

(* What the threads have in hand is registered.                             *)
HoldInv ==
  /\ \A r \in Runner :
       /\ pc[r] \in HoldingPC => held[r] \in pending_ops_
       /\ pc[r] \notin HoldingPC => held[r] = NoAddr
       /\ pc[r] \in HoldingPC \ {"Notify", "finalCallback", "Forget"}
            => kind[held[r]] = "stream"
  /\ appPc # "idle" => appOp \in pending_ops_
  /\ appPc = "idle" => appOp = NoAddr
  /\ appPc = "SetReader" => kind[appOp] = "stream"

(* The mutex of a stream is held from NotifyStream to the swap of response_ *)
(* or to the assignment of state_, and while Set() starts the call.         *)
MutexInv ==
  \A a \in Addr :
    /\ \A r \in Runner : opMu[a] = r <=> held[r] = a /\ pc[r] \in LockedPC
    /\ opMu[a] = App <=> appPc = "SetReader" /\ appOp = a

Active(r, a) == held[r] = a /\ pc[r] \in ActivePC

(* An operation is in one place: about to be submitted, outstanding in      *)
(* gRPC, in its queue, or in the hands of one runner.                       *)
TokenInv ==
  \A a \in Addr :
    /\ request[a] = "none" \/ event[a] = "none"
    /\ request[a] # "none" \/ event[a] # "none" =>
         /\ a \in pending_ops_
         /\ \A r \in Runner : ~Active(r, a)
         /\ ~(appPc = "Set" /\ appOp = a)
    /\ \A r, q \in Runner : Active(r, a) /\ Active(q, a) => r = q
    /\ appPc = "Set" /\ appOp = a => \A r \in Runner : held[r] # a
    /\ \A r, q \in Runner :
         Active(r, a) /\ pc[r] # "Notify" /\ held[q] = a => q = r
    /\ appPc = "SetReader" /\ appOp = a =>
         \A r \in Runner : held[r] = a => pc[r] = "Notify"

(* An operation whose last callback was called is about to be forgotten,    *)
(* and a stream has its reader once Set() has returned.                     *)
FinalInv ==
  \A a \in pending_ops_ :
    /\ final[a] # 0 => \E r \in Runner : held[r] = a /\ pc[r] = "Forget"
    /\ kind[a] = "stream" /\ appOp # a => bound[a]

(* The request that a stream waits for, or that has just completed: state_  *)
(* lags behind while a runner is about to assign it.                        *)
Leaving(a, ok) ==
  \E r \in Runner : held[r] = a /\ pc[r] = "setState" /\ okFlag[r] = ok

Reading(a) ==
  \/ Leaving(a, TRUE)
  \/ state_[a] = "PROCESSING" /\ ~Leaving(a, FALSE)

(* A response is in response_ and has not been swapped out.                 *)
Loaded(a) ==
  /\ Reading(a)
  /\ \/ event[a] = "ok"
     \/ \E r \in Runner : held[r] = a /\ pc[r] \in {"Notify", "switch"} /\ okFlag[r]

InData(r, a) == held[r] = a /\ pc[r] = "dataCallback"

(* The responses are given to data_functor_ in order; at most one is on its *)
(* way, in response_ or in the hands of the runner that calls data_functor_.*)
Order(a) ==
  /\ \A i \in 1..Len(data[a]) : data[a][i] = i
  /\ a \in pending_ops_ /\ kind[a] = "stream" =>
       /\ appPc = "Set" /\ appOp = a => state_[a] = "CREATING"
       /\ request[a] # "none" => (request[a] = "read" <=> Reading(a))
       /\ response_[a] # 0 <=> Loaded(a)
       /\ Loaded(a) => /\ response_[a] + left[a] = MaxData
                       /\ Len(data[a]) + 1 + left[a] = MaxData
       /\ \A r \in Runner : InData(r, a) =>
            /\ received[r] + left[a] = MaxData
            /\ Len(data[a]) + 1 + left[a] = MaxData
       /\ \A r \in Runner :
            held[r] = a /\ pc[r] \in {"dataCallback", "dataReturned"} => okFlag[r]
       /\ ~Loaded(a) /\ (\A r \in Runner : ~InData(r, a))
            => Len(data[a]) + left[a] = MaxData

OrderInv == \A a \in Addr : Order(a)

Inv == TypeOK /\ HoldInv /\ MutexInv /\ TokenInv /\ FinalInv /\ OrderInv

------------------------------------------------------------------------------
(* A step that leaves alone what belongs to the stream at b, and the        *)
(* runners that have it in hand, leaves its responses in order.             *)
LEMMA OrderFrame ==
  ASSUME NEW b \in Addr, Order(b),
         b \in pending_ops_' => b \in pending_ops_,
         appPc' = "Set" /\ appOp' = b => appPc = "Set" /\ appOp = b,
         kind'[b] = kind[b], state_'[b] = state_[b], data'[b] = data[b],
         request'[b] = request[b], response_'[b] = response_[b],
         event'[b] = event[b], left'[b] = left[b],
         \A q \in Runner :
           held[q] = b \/ held'[q] = b =>
             /\ held'[q] = held[q] /\ pc'[q] = pc[q]
             /\ okFlag'[q] = okFlag[q] /\ received'[q] = received[q]
  PROVE  Order(b)'
<1>1. Leaving(b, TRUE)' <=> Leaving(b, TRUE)
  BY DEF Leaving
<1>2. Leaving(b, FALSE)' <=> Leaving(b, FALSE)
  BY DEF Leaving
<1>3. Reading(b)' <=> Reading(b)
  BY <1>1, <1>2 DEF Reading
<1>4. Loaded(b)' <=> Loaded(b)
  BY <1>3 DEF Loaded
<1>5. \A r \in Runner : InData(r, b)' <=> InData(r, b)
  BY DEF InData
<1> QED
  BY <1>3, <1>4, <1>5 DEF Order, InData

(* The initial states satisfy the inductive invariant.                      *)
LEMMA InvInit == Init => Inv
<1> SUFFICES ASSUME Init PROVE Inv
  OBVIOUS
<1> USE QueueAssumption DEF Init, ActivePC, HoldingPC, LockedPC
<1>1. TypeOK
  <2>1. data \in [Addr -> Seq(Nat)]
    OBVIOUS
  <2>2. left \in [Addr -> 0..MaxData]
    OBVIOUS
  <2> QED
    BY <2>1, <2>2 DEF TypeOK, Owner
<1>2. HoldInv /\ MutexInv /\ TokenInv /\ FinalInv
  BY DEF HoldInv, MutexInv, TokenInv, Active, FinalInv
<1>3. OrderInv
  BY DEF OrderInv, Order
<1> QED
  BY <1>1, <1>2, <1>3 DEF Inv

(* Every step of a runner, of gRPC and of the application preserves it.     *)
LEMMA InvStep == Inv /\ [Next]_vars => Inv'
<1> SUFFICES ASSUME Inv, [Next]_vars PROVE Inv'
  OBVIOUS
<1> USE QueueAssumption DEF Inv, ActivePC, HoldingPC, LockedPC, objVars, grpcVars,
      runVars, appVars
<1>1. ASSUME NEW a \in Addr, Complete(a) PROVE Inv'
  <2>1. TypeOK'
    <3>1. left[a] \in 0..MaxData /\ MaxData + 1 - left[a] \in Nat
          /\ (left[a] > 0 => left[a] - 1 \in 0..MaxData)
      BY DEF TypeOK
    <3>2. CASE UNCHANGED <<response_, left>>
      <4>1. event' \in [Addr -> {"none", "ok", "failed"}]
        <5>1. \/ event' = [event EXCEPT ![a] = "ok"]
              \/ event' = [event EXCEPT ![a] = "failed"]
          BY <1>1 DEF Complete
        <5> QED
          BY <5>1, ZenonT(60) DEF TypeOK
      <4> QED
        BY <1>1, <3>2, <4>1 DEF Complete, TypeOK
    <3>3. CASE /\ response_' = [response_ EXCEPT ![a] = MaxData + 1 - left[a]]
               /\ left' = [left EXCEPT ![a] = left[a] - 1]
               /\ left[a] > 0 /\ event' = [event EXCEPT ![a] = "ok"]
      <4>1. left' \in [Addr -> 0..MaxData] /\ response_' \in [Addr -> Nat]
        BY <3>1, <3>3 DEF TypeOK
      <4> QED
        BY <1>1, <3>3, <4>1 DEF Complete, TypeOK
    <3> QED
      BY <1>1, <3>2, <3>3 DEF Complete
  <2>2. HoldInv'
    BY <1>1 DEF Complete, HoldInv
  <2>3. MutexInv'
    BY <1>1 DEF Complete, MutexInv
  <2>4. TokenInv'
    BY <1>1 DEF Complete, TokenInv, Active, HoldInv, TypeOK
  <2>5. FinalInv'
    BY <1>1 DEF Complete, FinalInv
  <2>6. OrderInv'
    <3> SUFFICES ASSUME NEW b \in Addr PROVE Order(b)'
      BY DEF OrderInv
    <3>3. Order(b)
      BY DEF OrderInv
    <3>1. CASE b # a
      BY <1>1, <3>1, <3>3, OrderFrame DEF Complete, TypeOK, HoldInv
    <3>2. CASE b = a
      <4> SUFFICES ASSUME b \in pending_ops_, kind[b] = "stream" PROVE Order(b)'
        BY <1>1, <3>2, <3>3 DEF Complete, Order
      <4>1. /\ event[b] = "none"
            /\ \A q \in Runner : ~Active(q, b)
        BY <1>1, <3>2 DEF Complete, TokenInv
      <4>2. ~Loaded(b) /\ \A q \in Runner : ~InData(q, b) /\ ~InData(q, b)'
        BY <1>1, <4>1 DEF Complete, Loaded, InData, Active
      <4>3. /\ Len(data[b]) + left[b] = MaxData /\ response_[b] = 0
            /\ request[b] = "read" <=> Reading(b)
        BY <1>1, <3>2, <3>3, <4>2 DEF Complete, Order
      <4>4. Reading(b)' <=> Reading(b)
        BY <1>1 DEF Complete, Reading, Leaving
      <4>5. Loaded(b)' <=> request[b] = "read" /\ event'[b] = "ok"
        BY <1>1, <4>1, <4>3, <4>4 DEF Complete, Loaded, Active
      <4>6. CASE request[b] = "read" /\ event'[b] = "ok"
        <5>1. /\ left[b] \in 1..MaxData /\ left'[b] = left[b] - 1
              /\ response_'[b] = MaxData + 1 - left[b]
          BY <1>1, <3>2, <4>6 DEF Complete, TypeOK
        <5>2. /\ response_'[b] + left'[b] = MaxData /\ response_'[b] # 0
              /\ Len(data[b]) + 1 + left'[b] = MaxData
          BY <4>3, <5>1, SMTT(40) DEF TypeOK
        <5> QED
          BY <1>1, <3>2, <3>3, <4>2, <4>5, <4>6, <5>2 DEF Complete, Order, TypeOK
      <4>7. CASE ~(request[b] = "read" /\ event'[b] = "ok")
        <5>1. left'[b] = left[b] /\ response_'[b] = response_[b]
          BY <1>1, <3>2, <4>7 DEF Complete, TypeOK
        <5>2. response_'[b] = 0 /\ Len(data[b]) + left'[b] = MaxData
          BY <4>3, <5>1
        <5> QED
          BY <1>1, <3>2, <3>3, <4>2, <4>5, <4>7, <5>2 DEF Complete, Order, TypeOK
      <4> QED
        BY <4>6, <4>7
    <3> QED
      BY <3>1, <3>2
  <2> QED
    BY <2>1, <2>2, <2>3, <2>4, <2>5, <2>6
<1>2. ASSUME NEW k \in Kinds, RegisterOperation(k) PROVE Inv'
  <2>1. TypeOK'
    BY <1>2 DEF RegisterOperation, Unreferenced, TypeOK, Owner, HoldInv
  <2>2. HoldInv'
    BY <1>2 DEF RegisterOperation, Unreferenced, HoldInv
  <2>3. MutexInv'
    BY <1>2 DEF RegisterOperation, Unreferenced, MutexInv
  <2>4. TokenInv'
    BY <1>2 DEF RegisterOperation, Unreferenced, TokenInv, Active
  <2>5. FinalInv'
    BY <1>2 DEF RegisterOperation, Unreferenced, FinalInv, HoldInv, TypeOK
  <2>6. OrderInv'
    <3> SUFFICES ASSUME NEW b \in Addr PROVE Order(b)'
      BY DEF OrderInv
    <3>3. Order(b)
      BY DEF OrderInv
    <3>1. PICK a \in Addr : RegisterOperation(k)!2!(a)
      BY <1>2 DEF RegisterOperation
    <3>2. CASE b # a
      BY <1>2, <3>1, <3>2, <3>3, OrderFrame DEF RegisterOperation, TypeOK
    <3>4. CASE b = a
      BY <1>2, <3>1, <3>4 DEF RegisterOperation, Unreferenced, Order, Reading,
           Leaving, Loaded, InData, HoldInv, TokenInv, TypeOK
    <3> QED
      BY <3>2, <3>4
  <2> QED
    BY <2>1, <2>2, <2>3, <2>4, <2>5, <2>6
<1>3. ASSUME SetSimple PROVE Inv'
  <2>1. TypeOK'
    BY <1>3 DEF SetSimple, Submit, TypeOK, Owner, HoldInv
  <2>2. HoldInv'
    BY <1>3 DEF SetSimple, Submit, HoldInv
  <2>3. MutexInv'
    BY <1>3 DEF SetSimple, Submit, MutexInv
  <2>4. TokenInv'
    BY <1>3 DEF SetSimple, Submit, TokenInv, Active, HoldInv, TypeOK
  <2>5. FinalInv'
    BY <1>3 DEF SetSimple, Submit, FinalInv
  <2>6. OrderInv'
    <3> SUFFICES ASSUME NEW b \in Addr PROVE Order(b)'
      BY DEF OrderInv
    <3>3. Order(b)
      BY DEF OrderInv
    <3>1. CASE b # appOp
      BY <1>3, <3>1, <3>3, OrderFrame DEF SetSimple, Submit, TypeOK, HoldInv
    <3>2. CASE b = appOp
      BY <1>3, <3>2, <3>3 DEF SetSimple, Submit, Order, Reading, Leaving,
           Loaded, InData, HoldInv, MutexInv, TokenInv, Active, TypeOK
    <3> QED
      BY <3>1, <3>2
  <2> QED
    BY <2>1, <2>2, <2>3, <2>4, <2>5, <2>6
<1>4. ASSUME SetStream PROVE Inv'
  <2>1. TypeOK'
    BY <1>4 DEF SetStream, Submit, TypeOK, Owner, HoldInv
  <2>2. HoldInv'
    BY <1>4 DEF SetStream, Submit, HoldInv
  <2>3. MutexInv'
    BY <1>4 DEF SetStream, Submit, MutexInv, TypeOK
  <2>4. TokenInv'
    BY <1>4 DEF SetStream, Submit, TokenInv, Active, HoldInv, TypeOK
  <2>5. FinalInv'
    BY <1>4 DEF SetStream, Submit, FinalInv
  <2>6. OrderInv'
    <3> SUFFICES ASSUME NEW b \in Addr PROVE Order(b)'
      BY DEF OrderInv
    <3>3. Order(b)
      BY DEF OrderInv
    <3>1. CASE b # appOp
      BY <1>4, <3>1, <3>3, OrderFrame DEF SetStream, Submit, TypeOK, HoldInv
    <3>2. CASE b = appOp
      BY <1>4, <3>2, <3>3 DEF SetStream, Submit, Order, Reading, Leaving,
           Loaded, InData, HoldInv, MutexInv, TokenInv, Active, TypeOK
    <3> QED
      BY <3>1, <3>2
  <2> QED
    BY <2>1, <2>2, <2>3, <2>4, <2>5, <2>6
<1>5. ASSUME SetReader PROVE Inv'
  <2>1. TypeOK'
    BY <1>5 DEF SetReader, TypeOK, Owner, HoldInv
  <2>2. HoldInv'
    BY <1>5 DEF SetReader, HoldInv
  <2>3. MutexInv'
    BY <1>5 DEF SetReader, MutexInv, TypeOK
  <2>4. TokenInv'
    BY <1>5 DEF SetReader, TokenInv, Active
  <2>5. FinalInv'
    BY <1>5 DEF SetReader, FinalInv, TypeOK
  <2>6. OrderInv'
    <3> SUFFICES ASSUME NEW b \in Addr PROVE Order(b)'
      BY DEF OrderInv
    <3>3. Order(b)
      BY DEF OrderInv
    <3> QED
      BY <1>5, <3>3, OrderFrame DEF SetReader, TypeOK, HoldInv
  <2> QED
    BY <2>1, <2>2, <2>3, <2>4, <2>5, <2>6
<1>6. ASSUME NEW a \in Addr, Cancel(a) PROVE Inv'
  <2>1. TypeOK'
    BY <1>6 DEF Cancel, TypeOK, Owner, HoldInv
  <2>2. HoldInv'
    BY <1>6 DEF Cancel, HoldInv
  <2>3. MutexInv'
    BY <1>6 DEF Cancel, MutexInv
  <2>4. TokenInv'
    BY <1>6 DEF Cancel, TokenInv, Active
  <2>5. FinalInv'
    BY <1>6 DEF Cancel, FinalInv
  <2>6. OrderInv'
    <3> SUFFICES ASSUME NEW b \in Addr PROVE Order(b)'
      BY DEF OrderInv
    <3>3. Order(b)
      BY DEF OrderInv
    <3> QED
      BY <1>6, <3>3, OrderFrame DEF Cancel, TypeOK, HoldInv
  <2> QED
    BY <2>1, <2>2, <2>3, <2>4, <2>5, <2>6
<1>7. ASSUME NEW a \in Addr, Release(a) PROVE Inv'
  <2>1. TypeOK'
    BY <1>7 DEF Release, TypeOK, Owner, HoldInv
  <2>2. HoldInv'
    BY <1>7 DEF Release, HoldInv
  <2>3. MutexInv'
    BY <1>7 DEF Release, MutexInv
  <2>4. TokenInv'
    BY <1>7 DEF Release, TokenInv, Active
  <2>5. FinalInv'
    BY <1>7 DEF Release, FinalInv
  <2>6. OrderInv'
    <3> SUFFICES ASSUME NEW b \in Addr PROVE Order(b)'
      BY DEF OrderInv
    <3>3. Order(b)
      BY DEF OrderInv
    <3> QED
      BY <1>7, <3>3, OrderFrame DEF Release, TypeOK, HoldInv
  <2> QED
    BY <2>1, <2>2, <2>3, <2>4, <2>5, <2>6
<1>8. ASSUME Shutdown PROVE Inv'
  <2>1. TypeOK'
    BY <1>8 DEF Shutdown, TypeOK, Owner, HoldInv
  <2>2. HoldInv'
    BY <1>8 DEF Shutdown, HoldInv
  <2>3. MutexInv'
    BY <1>8 DEF Shutdown, MutexInv
  <2>4. TokenInv'
    BY <1>8 DEF Shutdown, TokenInv, Active
  <2>5. FinalInv'
    BY <1>8 DEF Shutdown, FinalInv
  <2>6. OrderInv'
    <3> SUFFICES ASSUME NEW b \in Addr PROVE Order(b)'
      BY DEF OrderInv
    <3>3. Order(b)
      BY DEF OrderInv
    <3> QED
      BY <1>8, <3>3, OrderFrame DEF Shutdown, TypeOK, HoldInv
  <2> QED
    BY <2>1, <2>2, <2>3, <2>4, <2>5, <2>6
<1>9. ASSUME NEW r \in Runner, RunLoop(r) PROVE Inv'
  <2>1. TypeOK'
    BY <1>9 DEF RunLoop, TypeOK, Owner, HoldInv
  <2>2. HoldInv'
    BY <1>9 DEF RunLoop, HoldInv
  <2>3. MutexInv'
    BY <1>9 DEF RunLoop, MutexInv
  <2>4. TokenInv'
    BY <1>9 DEF RunLoop, TokenInv, Active
  <2>5. FinalInv'
    BY <1>9 DEF RunLoop, FinalInv
  <2>6. OrderInv'
    <3> SUFFICES ASSUME NEW b \in Addr PROVE Order(b)'
      BY DEF OrderInv
    <3>3. Order(b)
      BY DEF OrderInv
    <3> QED
      <4>1. held[r] # b /\ held'[r] # b
        <5>1. held[r] = NoAddr /\ b # NoAddr
          BY <1>9 DEF RunLoop, HoldInv
        <5> QED
          BY <1>9, <5>1 DEF RunLoop, TypeOK
      <4>2. \A q \in Runner : q # r =>
             /\ held'[q] = held[q] /\ pc'[q] = pc[q]
             /\ okFlag'[q] = okFlag[q] /\ received'[q] = received[q]
        BY <1>9 DEF RunLoop, TypeOK
      <4>3. \A q \in Runner : held[q] = b \/ held'[q] = b =>
             /\ held'[q] = held[q] /\ pc'[q] = pc[q]
             /\ okFlag'[q] = okFlag[q] /\ received'[q] = received[q]
        BY <4>1, <4>2
      <4> QED
        BY <1>9, <3>3, <4>3, OrderFrame DEF RunLoop, TypeOK
  <2> QED
    BY <2>1, <2>2, <2>3, <2>4, <2>5, <2>6
<1>10. ASSUME NEW r \in Runner, NoEvent(r) PROVE Inv'
  <2>1. TypeOK'
    BY <1>10 DEF NoEvent, TypeOK, Owner, HoldInv
  <2>2. HoldInv'
    BY <1>10 DEF NoEvent, HoldInv
  <2>3. MutexInv'
    BY <1>10 DEF NoEvent, MutexInv
  <2>4. TokenInv'
    BY <1>10 DEF NoEvent, TokenInv, Active
  <2>5. FinalInv'
    BY <1>10 DEF NoEvent, FinalInv
  <2>6. OrderInv'
    <3> SUFFICES ASSUME NEW b \in Addr PROVE Order(b)'
      BY DEF OrderInv
    <3>3. Order(b)
      BY DEF OrderInv
    <3> QED
      <4>1. held[r] # b /\ held'[r] # b
        <5>1. held[r] = NoAddr /\ b # NoAddr
          BY <1>10 DEF NoEvent, HoldInv
        <5> QED
          BY <1>10, <5>1 DEF NoEvent, TypeOK
      <4>2. \A q \in Runner : q # r =>
             /\ held'[q] = held[q] /\ pc'[q] = pc[q]
             /\ okFlag'[q] = okFlag[q] /\ received'[q] = received[q]
        BY <1>10 DEF NoEvent, TypeOK
      <4>3. \A q \in Runner : held[q] = b \/ held'[q] = b =>
             /\ held'[q] = held[q] /\ pc'[q] = pc[q]
             /\ okFlag'[q] = okFlag[q] /\ received'[q] = received[q]
        BY <4>1, <4>2
      <4> QED
        BY <1>10, <3>3, <4>3, OrderFrame DEF NoEvent, TypeOK
  <2> QED
    BY <2>1, <2>2, <2>3, <2>4, <2>5, <2>6
<1>11. ASSUME NEW r \in Runner, NEW a \in Addr, GotEvent(r, a) PROVE Inv'
  <2>1. TypeOK'
    BY <1>11 DEF GotEvent, TypeOK, Owner, HoldInv
  <2>2. HoldInv'
    BY <1>11 DEF GotEvent, HoldInv, TypeOK
  <2>3. MutexInv'
    BY <1>11 DEF GotEvent, MutexInv
  <2>4. TokenInv'
    BY <1>11 DEF GotEvent, TokenInv, Active, HoldInv, TypeOK
  <2>5. FinalInv'
    BY <1>11 DEF GotEvent, FinalInv
  <2>6. OrderInv'
    <3> SUFFICES ASSUME NEW b \in Addr PROVE Order(b)'
      BY DEF OrderInv
    <3>3. Order(b)
      BY DEF OrderInv
    <3>1. CASE b # a
      <4>1. held[r] # b /\ held'[r] # b
        <5>1. held[r] = NoAddr /\ b # NoAddr
          BY <1>11 DEF GotEvent, HoldInv
        <5> QED
          BY <1>11, <3>1, <5>1 DEF GotEvent, TypeOK
      <4>2. \A q \in Runner : q # r =>
             /\ held'[q] = held[q] /\ pc'[q] = pc[q]
             /\ okFlag'[q] = okFlag[q] /\ received'[q] = received[q]
        BY <1>11 DEF GotEvent, TypeOK
      <4>3. \A q \in Runner : held[q] = b \/ held'[q] = b =>
             /\ held'[q] = held[q] /\ pc'[q] = pc[q]
             /\ okFlag'[q] = okFlag[q] /\ received'[q] = received[q]
        BY <4>1, <4>2
      <4> QED
        BY <1>11, <3>1, <3>3, <4>3, OrderFrame DEF GotEvent, TypeOK
    <3>2. CASE b = a
      <4>1. held[r] = NoAddr
        BY <1>11 DEF GotEvent, HoldInv
      <4>2. Reading(b)' <=> Reading(b)
        BY <1>11, <3>2, <4>1 DEF GotEvent, Reading, Leaving, TypeOK
      <4>3. Loaded(b)' <=> Loaded(b)
        <5>1. \A q \in Runner : ~(held[q] = b /\ pc[q] \in {"Notify", "switch"})
          BY <1>11, <3>2 DEF GotEvent, TokenInv, Active
        <5>2. Loaded(b) <=> Reading(b) /\ event[b] = "ok"
          BY <5>1 DEF Loaded
        <5>3. /\ \A q \in Runner : held'[q] = b /\ pc'[q] \in {"Notify", "switch"} => q = r
              /\ held'[r] = b /\ pc'[r] = "Notify" /\ event'[b] = "none"
              /\ okFlag'[r] <=> event[b] = "ok"
          BY <1>11, <3>2, <5>1, ZenonT(60) DEF GotEvent, TypeOK
        <5>4. Loaded(b)' <=> Reading(b)' /\ event[b] = "ok"
          BY <5>3 DEF Loaded
        <5> QED
          BY <4>2, <5>2, <5>4
      <4>4. \A q \in Runner : ~InData(q, b) /\ ~InData(q, b)'
        BY <1>11, <3>2 DEF GotEvent, InData, TypeOK, TokenInv, Active
      <4>5. \A q \in Runner : ~(held'[q] = b /\ pc'[q] \in {"dataCallback", "dataReturned"})
        BY <1>11, <3>2 DEF GotEvent, TypeOK, TokenInv, Active
      <4> QED
        BY <1>11, <3>2, <3>3, <4>2, <4>3, <4>4, <4>5 DEF GotEvent, Order
    <3> QED
      BY <3>1, <3>2
  <2> QED
    BY <2>1, <2>2, <2>3, <2>4, <2>5, <2>6
<1>12. ASSUME NEW r \in Runner, NotifySimple(r) PROVE Inv'
  <2>1. TypeOK'
    BY <1>12 DEF NotifySimple, TypeOK, Owner, HoldInv
  <2>2. HoldInv'
    BY <1>12 DEF NotifySimple, HoldInv
  <2>3. MutexInv'
    BY <1>12 DEF NotifySimple, MutexInv
  <2>4. TokenInv'
    <3>1. \A q \in Runner : held[q] = held[r] => q = r
      <4>1. held[r] \in Addr /\ Active(r, held[r])
        BY <1>12 DEF NotifySimple, HoldInv, Active, TypeOK
      <4>2. \A q \in Runner : held[q] = held[r] => pc[q] \in HoldingPC
        BY <4>1 DEF HoldInv
      <4>3. \A q \in Runner : held[q] = held[r] => pc[q] # "setState"
        BY <1>12, <4>1, <4>2 DEF NotifySimple, HoldInv, MutexInv
      <4> QED
        BY <4>1, <4>2, <4>3 DEF TokenInv, Active
    <3>2. held[r] \in Addr /\ ~(appPc = "SetReader" /\ appOp = held[r])
      BY <1>12 DEF NotifySimple, HoldInv, MutexInv, TypeOK
    <3> QED
      BY <1>12, <3>1, <3>2, SMTT(40) DEF NotifySimple, TokenInv, Active, TypeOK
  <2>5. FinalInv'
    BY <1>12 DEF NotifySimple, FinalInv
  <2>6. OrderInv'
    <3> SUFFICES ASSUME NEW b \in Addr PROVE Order(b)'
      BY DEF OrderInv
    <3>3. Order(b)
      BY DEF OrderInv
    <3>1. CASE b # held[r]
      BY <1>12, <3>1, <3>3, OrderFrame DEF NotifySimple, TypeOK, HoldInv
    <3>2. CASE b = held[r]
      BY <1>12, <3>2, <3>3 DEF NotifySimple, Order, Reading, Leaving, Loaded,
           InData, HoldInv, MutexInv, TokenInv, Active, TypeOK
    <3> QED
      BY <3>1, <3>2
  <2> QED
    BY <2>1, <2>2, <2>3, <2>4, <2>5, <2>6
<1>13. ASSUME NEW r \in Runner, NotifyStream(r) PROVE Inv'
  <2>1. TypeOK'
    BY <1>13 DEF NotifyStream, TypeOK, Owner, HoldInv
  <2>2. HoldInv'
    BY <1>13 DEF NotifyStream, HoldInv
  <2>3. MutexInv'
    BY <1>13 DEF NotifyStream, MutexInv, TypeOK
  <2>4. TokenInv'
    <3>1. \A q \in Runner : held[q] = held[r] => q = r
      <4>1. held[r] \in Addr /\ Active(r, held[r])
        BY <1>13 DEF NotifyStream, HoldInv, Active, TypeOK
      <4>2. \A q \in Runner : held[q] = held[r] => pc[q] \in HoldingPC
        BY <4>1 DEF HoldInv
      <4>3. \A q \in Runner : held[q] = held[r] => pc[q] # "setState"
        BY <1>13, <4>1, <4>2 DEF NotifyStream, HoldInv, MutexInv
      <4> QED
        BY <4>1, <4>2, <4>3 DEF TokenInv, Active
    <3>2. held[r] \in Addr /\ ~(appPc = "SetReader" /\ appOp = held[r])
      BY <1>13 DEF NotifyStream, HoldInv, MutexInv, TypeOK
    <3> QED
      BY <1>13, <3>1, <3>2 DEF NotifyStream, TokenInv, Active, TypeOK
  <2>5. FinalInv'
    BY <1>13 DEF NotifyStream, FinalInv
  <2>6. OrderInv'
    <3> SUFFICES ASSUME NEW b \in Addr PROVE Order(b)'
      BY DEF OrderInv
    <3>3. Order(b)
      BY DEF OrderInv
    <3>1. CASE b # held[r]
      BY <1>13, <3>1, <3>3, OrderFrame DEF NotifyStream, TypeOK, HoldInv
    <3>2. CASE b = held[r]
      BY <1>13, <3>2, <3>3 DEF NotifyStream, Order, Reading, Leaving, Loaded,
           InData, HoldInv, MutexInv, TokenInv, Active, TypeOK
    <3> QED
      BY <3>1, <3>2
  <2> QED
    BY <2>1, <2>2, <2>3, <2>4, <2>5, <2>6
<1>14. ASSUME NEW r \in Runner, SwitchSubmit(r) PROVE Inv'
  <2>1. TypeOK'
    BY <1>14 DEF SwitchSubmit, Submit, TypeOK, Owner, HoldInv
  <2>2. HoldInv'
    BY <1>14 DEF SwitchSubmit, Submit, HoldInv
  <2>3. MutexInv'
    BY <1>14 DEF SwitchSubmit, Submit, MutexInv
  <2>4. TokenInv'
    BY <1>14 DEF SwitchSubmit, Submit, TokenInv, Active, HoldInv, TypeOK
  <2>5. FinalInv'
    BY <1>14 DEF SwitchSubmit, Submit, FinalInv
  <2>6. OrderInv'
    <3> SUFFICES ASSUME NEW b \in Addr PROVE Order(b)'
      BY DEF OrderInv
    <3>3. Order(b)
      BY DEF OrderInv
    <3>1. CASE b # held[r]
      BY <1>14, <3>1, <3>3, OrderFrame DEF SwitchSubmit, Submit, TypeOK,
           HoldInv
    <3>2. CASE b = held[r]
      <4>1. /\ b \in pending_ops_ /\ kind[b] = "stream"
            /\ event[b] = "none" /\ \A q \in Runner : held[q] = b => q = r
        BY <1>14, <3>2 DEF SwitchSubmit, HoldInv, TokenInv, Active
      <4>2. Reading(b) <=> state_[b] = "PROCESSING"
        BY <1>14, <4>1 DEF SwitchSubmit, Reading, Leaving
      <4>3. ~Loaded(b) /\ \A q \in Runner : ~InData(q, b) /\ ~InData(q, b)'
        BY <1>14, <3>2, <4>1, <4>2 DEF SwitchSubmit, Loaded, InData, TypeOK
      <4>4. Reading(b)' <=> okFlag[r]
        BY <1>14, <3>2, <4>1 DEF SwitchSubmit, Reading, Leaving, TypeOK
      <4>5. ~Loaded(b)'
        BY <1>14, <3>2, <4>1 DEF SwitchSubmit, Submit, Loaded, TypeOK
      <4>6. request'[b] = "read" <=> okFlag[r]
        BY <1>14, <3>2 DEF SwitchSubmit, Submit, TypeOK
      <4>7. \A q \in Runner : ~(held'[q] = b /\ pc'[q] \in {"dataCallback", "dataReturned"})
        BY <1>14, <3>2, <4>1 DEF SwitchSubmit, TypeOK
      <4> QED
        BY <1>14, <3>2, <3>3, <4>1, <4>3, <4>4, <4>5, <4>6, <4>7
           DEF SwitchSubmit, Submit, Order, TypeOK
    <3> QED
      BY <3>1, <3>2
  <2> QED
    BY <2>1, <2>2, <2>3, <2>4, <2>5, <2>6
<1>15. ASSUME NEW r \in Runner, SetState(r) PROVE Inv'
  <2>1. TypeOK'
    BY <1>15 DEF SetState, EndOfScope, TypeOK, Owner, HoldInv
  <2>2. HoldInv'
    BY <1>15 DEF SetState, EndOfScope, HoldInv, TypeOK
  <2>3. MutexInv'
    BY <1>15 DEF SetState, EndOfScope, MutexInv, TypeOK
  <2>4. TokenInv'
    BY <1>15 DEF SetState, EndOfScope, TokenInv, Active
  <2>5. FinalInv'
    BY <1>15 DEF SetState, EndOfScope, FinalInv
  <2>6. OrderInv'
    <3> SUFFICES ASSUME NEW b \in Addr PROVE Order(b)'
      BY DEF OrderInv
    <3>3. Order(b)
      BY DEF OrderInv
    <3>1. CASE b # held[r]
      <4>1. held[r] # b /\ held'[r] # b
        BY <1>15, <3>1 DEF SetState, EndOfScope, TypeOK, HoldInv
      <4>2. \A q \in Runner : q # r =>
             /\ held'[q] = held[q] /\ pc'[q] = pc[q]
             /\ okFlag'[q] = okFlag[q] /\ received'[q] = received[q]
        BY <1>15 DEF SetState, EndOfScope, TypeOK
      <4>3. \A q \in Runner : held[q] = b \/ held'[q] = b =>
             /\ held'[q] = held[q] /\ pc'[q] = pc[q]
             /\ okFlag'[q] = okFlag[q] /\ received'[q] = received[q]
        BY <4>1, <4>2
      <4> QED
        BY <1>15, <3>1, <3>3, <4>3, OrderFrame DEF SetState, EndOfScope,
             TypeOK
    <3>2. CASE b = held[r]
      <4>1. b \in pending_ops_ /\ kind[b] = "stream"
        BY <1>15, <3>2 DEF SetState, HoldInv
      <4>2. \A q \in Runner : held[q] = b /\ pc[q] = "setState" => q = r
        BY <1>15, <3>2 DEF SetState, MutexInv
      <4>3. Reading(b) <=> okFlag[r]
        BY <1>15, <3>2, <4>2 DEF SetState, Reading, Leaving, TypeOK
      <4>4. Reading(b)' <=> okFlag[r]
        BY <1>15, <3>2, <4>2 DEF SetState, EndOfScope, Reading, Leaving, TypeOK
      <4>5. Loaded(b)' <=> Loaded(b)
        BY <1>15, <3>2, <4>3, <4>4 DEF SetState, EndOfScope, Loaded, TypeOK
      <4>6. \A q \in Runner : InData(q, b)' <=> InData(q, b)
        BY <1>15, <3>2 DEF SetState, EndOfScope, InData, TypeOK
      <4>7. \A q \in Runner :
              /\ InData(q, b)' => received'[q] = received[q]
              /\ held'[q] = b /\ pc'[q] \in {"dataCallback", "dataReturned"} =>
                   held[q] = b /\ pc[q] = pc'[q] /\ okFlag'[q] = okFlag[q]
        BY <1>15 DEF SetState, EndOfScope, TypeOK
      <4>8. /\ ~(appPc' = "Set" /\ appOp' = b) /\ data' = data /\ left' = left
            /\ request' = request /\ response_' = response_
        BY <1>15, <3>2 DEF SetState, TokenInv
      <4> QED
        BY <3>3, <4>1, <4>3, <4>4, <4>5, <4>6, <4>7, <4>8 DEF Order
    <3> QED
      BY <3>1, <3>2
  <2> QED
    BY <2>1, <2>2, <2>3, <2>4, <2>5, <2>6
<1>16. ASSUME NEW r \in Runner, SwitchData(r) PROVE Inv'
  <2>1. TypeOK'
    BY <1>16 DEF SwitchData, TypeOK, Owner, HoldInv
  <2>2. HoldInv'
    BY <1>16 DEF SwitchData, HoldInv
  <2>3. MutexInv'
    BY <1>16 DEF SwitchData, MutexInv, HoldInv, TypeOK
  <2>4. TokenInv'
    BY <1>16 DEF SwitchData, TokenInv, Active
  <2>5. FinalInv'
    BY <1>16 DEF SwitchData, FinalInv
  <2>6. OrderInv'
    <3> SUFFICES ASSUME NEW b \in Addr PROVE Order(b)'
      BY DEF OrderInv
    <3>3. Order(b)
      BY DEF OrderInv
    <3>1. CASE b # held[r]
      BY <1>16, <3>1, <3>3, OrderFrame DEF SwitchData, TypeOK, HoldInv
    <3>2. CASE b = held[r]
      BY <1>16, <3>2, <3>3, SMTT(40) DEF SwitchData, Order, Reading, Leaving, Loaded,
           InData, HoldInv, MutexInv, TokenInv, Active, TypeOK
    <3> QED
      BY <3>1, <3>2
  <2> QED
    BY <2>1, <2>2, <2>3, <2>4, <2>5, <2>6
<1>17. ASSUME NEW r \in Runner, DataCallback(r) PROVE Inv'
  <2>1. TypeOK'
    BY <1>17 DEF DataCallback, TypeOK, Owner, HoldInv
  <2>2. HoldInv'
    BY <1>17 DEF DataCallback, HoldInv
  <2>3. MutexInv'
    BY <1>17 DEF DataCallback, MutexInv
  <2>4. TokenInv'
    BY <1>17 DEF DataCallback, TokenInv, Active
  <2>5. FinalInv'
    BY <1>17 DEF DataCallback, FinalInv
  <2>6. OrderInv'
    <3> SUFFICES ASSUME NEW b \in Addr PROVE Order(b)'
      BY DEF OrderInv
    <3>3. Order(b)
      BY DEF OrderInv
    <3>1. CASE b # held[r]
      BY <1>17, <3>1, <3>3, OrderFrame DEF DataCallback, TypeOK, HoldInv
    <3>2. CASE b = held[r]
      <4>1. /\ b \in pending_ops_ /\ kind[b] = "stream" /\ InData(r, b)
            /\ event[b] = "none" /\ request[b] = "none"
            /\ \A q \in Runner : held[q] = b => q = r
        BY <1>17, <3>2 DEF DataCallback, HoldInv, TokenInv, Active, InData
      <4>2. /\ ~Loaded(b) /\ ~Loaded(b)' /\ \A q \in Runner : ~InData(q, b)'
        BY <1>17, <3>2, <4>1 DEF DataCallback, Loaded, InData, TypeOK
      <4>3. /\ received[r] = Len(data[b]) + 1 /\ Len(data[b]) + 1 + left[b] = MaxData
            /\ okFlag[r] /\ response_[b] = 0
        BY <1>17, <3>2, <3>3, <4>1, <4>2 DEF DataCallback, Order, TypeOK
      <4>4. data'[b] = Append(data[b], received[r]) /\ data[b] \in Seq(Nat)
        BY <1>17, <3>2 DEF DataCallback, TypeOK
      <4>5. /\ Len(data'[b]) = Len(data[b]) + 1
            /\ \A i \in 1..Len(data'[b]) : data'[b][i] = i
        BY <3>3, <4>3, <4>4 DEF Order
      <4>6. Len(data'[b]) + left'[b] = MaxData
        BY <1>17, <4>3, <4>5 DEF DataCallback
      <4> QED
        BY <1>17, <3>2, <3>3, <4>1, <4>2, <4>3, <4>5, <4>6 DEF DataCallback, Order, TypeOK
    <3> QED
      BY <3>1, <3>2
  <2> QED
    BY <2>1, <2>2, <2>3, <2>4, <2>5, <2>6
<1>18. ASSUME NEW r \in Runner, DataReturned(r) PROVE Inv'
  <2>1. TypeOK'
    BY <1>18 DEF DataReturned, Submit, TypeOK, Owner, HoldInv
  <2>2. HoldInv'
    BY <1>18 DEF DataReturned, Submit, HoldInv
  <2>3. MutexInv'
    BY <1>18 DEF DataReturned, Submit, MutexInv, TypeOK
  <2>4. TokenInv'
    BY <1>18 DEF DataReturned, Submit, TokenInv, Active, HoldInv, TypeOK
  <2>5. FinalInv'
    BY <1>18 DEF DataReturned, Submit, FinalInv
  <2>6. OrderInv'
    <3> SUFFICES ASSUME NEW b \in Addr PROVE Order(b)'
      BY DEF OrderInv
    <3>3. Order(b)
      BY DEF OrderInv
    <3>1. CASE b # held[r]
      BY <1>18, <3>1, <3>3, OrderFrame DEF DataReturned, Submit, TypeOK,
           HoldInv
    <3>2. CASE b = held[r]
      <4>1. /\ b \in pending_ops_ /\ kind[b] = "stream" /\ okFlag[r]
            /\ event[b] = "none" /\ \A q \in Runner : held[q] = b => q = r
        BY <1>18, <3>2, <3>3 DEF DataReturned, HoldInv, TokenInv, Active, Order
      <4>2. ~Loaded(b) /\ \A q \in Runner : ~InData(q, b) /\ ~InData(q, b)'
        BY <1>18, <3>2, <4>1 DEF DataReturned, Loaded, InData, TypeOK
      <4>3. Reading(b)'
        BY <1>18, <3>2, <4>1 DEF DataReturned, Reading, Leaving, TypeOK
      <4>4. ~Loaded(b)'
        BY <1>18, <3>2, <4>1 DEF DataReturned, Submit, Loaded, TypeOK
      <4>5. request'[b] = "read"
        BY <1>18, <3>2 DEF DataReturned, Submit, TypeOK
      <4> QED
        BY <1>18, <3>2, <3>3, <4>1, <4>2, <4>3, <4>4, <4>5
           DEF DataReturned, Submit, Order, TypeOK
    <3> QED
      BY <3>1, <3>2
  <2> QED
    BY <2>1, <2>2, <2>3, <2>4, <2>5, <2>6
<1>19. ASSUME NEW r \in Runner, SwitchFinished(r) PROVE Inv'
  <2>1. TypeOK'
    BY <1>19 DEF SwitchFinished, TypeOK, Owner, HoldInv
  <2>2. HoldInv'
    BY <1>19 DEF SwitchFinished, HoldInv
  <2>3. MutexInv'
    BY <1>19 DEF SwitchFinished, MutexInv, TypeOK
  <2>4. TokenInv'
    BY <1>19 DEF SwitchFinished, TokenInv, Active
  <2>5. FinalInv'
    BY <1>19 DEF SwitchFinished, FinalInv
  <2>6. OrderInv'
    <3> SUFFICES ASSUME NEW b \in Addr PROVE Order(b)'
      BY DEF OrderInv
    <3>3. Order(b)
      BY DEF OrderInv
    <3>1. CASE b # held[r]
      BY <1>19, <3>1, <3>3, OrderFrame DEF SwitchFinished, TypeOK, HoldInv
    <3>2. CASE b = held[r]
      BY <1>19, <3>2, <3>3 DEF SwitchFinished, Order, Reading, Leaving,
           Loaded, InData, HoldInv, MutexInv, TokenInv, Active, TypeOK
    <3> QED
      BY <3>1, <3>2
  <2> QED
    BY <2>1, <2>2, <2>3, <2>4, <2>5, <2>6
<1>20. ASSUME NEW r \in Runner, FinalCallback(r) PROVE Inv'
  <2>1. TypeOK'
    BY <1>20 DEF FinalCallback, TypeOK, Owner, HoldInv
  <2>2. HoldInv'
    BY <1>20 DEF FinalCallback, HoldInv
  <2>3. MutexInv'
    BY <1>20 DEF FinalCallback, MutexInv
  <2>4. TokenInv'
    BY <1>20 DEF FinalCallback, TokenInv, Active
  <2>5. FinalInv'
    BY <1>20 DEF FinalCallback, FinalInv, TypeOK
  <2>6. OrderInv'
    <3> SUFFICES ASSUME NEW b \in Addr PROVE Order(b)'
      BY DEF OrderInv
    <3>3. Order(b)
      BY DEF OrderInv
    <3>1. CASE b # held[r]
      BY <1>20, <3>1, <3>3, OrderFrame DEF FinalCallback, TypeOK, HoldInv
    <3>2. CASE b = held[r]
      BY <1>20, <3>2, <3>3 DEF FinalCallback, Order, Reading, Leaving, Loaded,
           InData, HoldInv, MutexInv, TokenInv, Active, TypeOK
    <3> QED
      BY <3>1, <3>2
  <2> QED
    BY <2>1, <2>2, <2>3, <2>4, <2>5, <2>6
<1>21. ASSUME NEW r \in Runner, ForgetOperation(r) PROVE Inv'
  <2>1. TypeOK'
    BY <1>21 DEF ForgetOperation, EndOfScope, TypeOK, Owner, HoldInv
  <2>2. HoldInv'
    BY <1>21 DEF ForgetOperation, EndOfScope, HoldInv, TypeOK, TokenInv,
         Active
  <2>3. MutexInv'
    BY <1>21 DEF ForgetOperation, EndOfScope, MutexInv
  <2>4. TokenInv'
    BY <1>21 DEF ForgetOperation, EndOfScope, TokenInv, Active
  <2>5. FinalInv'
    BY <1>21 DEF ForgetOperation, EndOfScope, FinalInv
  <2>6. OrderInv'
    <3> SUFFICES ASSUME NEW b \in Addr PROVE Order(b)'
      BY DEF OrderInv
    <3>3. Order(b)
      BY DEF OrderInv
    <3>1. CASE b # held[r]
      <4>1. held[r] # b /\ held'[r] # b
        BY <1>21, <3>1 DEF ForgetOperation, EndOfScope, TypeOK, HoldInv
      <4>2. \A q \in Runner : q # r =>
             /\ held'[q] = held[q] /\ pc'[q] = pc[q]
             /\ okFlag'[q] = okFlag[q] /\ received'[q] = received[q]
        BY <1>21 DEF ForgetOperation, EndOfScope, TypeOK
      <4>3. \A q \in Runner : held[q] = b \/ held'[q] = b =>
             /\ held'[q] = held[q] /\ pc'[q] = pc[q]
             /\ okFlag'[q] = okFlag[q] /\ received'[q] = received[q]
        BY <4>1, <4>2
      <4> QED
        BY <1>21, <3>1, <3>3, <4>3, OrderFrame DEF ForgetOperation,
             EndOfScope, TypeOK
    <3>2. CASE b = held[r]
      BY <1>21, <3>2, <3>3 DEF ForgetOperation, EndOfScope, Order, Reading,
           Leaving, Loaded, InData, HoldInv, MutexInv, TokenInv, Active,
           TypeOK
    <3> QED
      BY <3>1, <3>2
  <2> QED
    BY <2>1, <2>2, <2>3, <2>4, <2>5, <2>6
<1>22. ASSUME UNCHANGED vars PROVE Inv'
  <2>1. TypeOK'
    BY <1>22 DEF vars, TypeOK, Owner, HoldInv
  <2>2. HoldInv'
    BY <1>22 DEF vars, HoldInv
  <2>3. MutexInv'
    BY <1>22 DEF vars, MutexInv
  <2>4. TokenInv'
    BY <1>22 DEF vars, TokenInv, Active
  <2>5. FinalInv'
    BY <1>22 DEF vars, FinalInv
  <2>6. OrderInv'
    <3> SUFFICES ASSUME NEW b \in Addr PROVE Order(b)'
      BY DEF OrderInv
    <3>3. Order(b)
      BY DEF OrderInv
    <3> QED
      BY <1>22, <3>3, OrderFrame DEF vars, TypeOK, HoldInv
  <2> QED
    BY <2>1, <2>2, <2>3, <2>4, <2>5, <2>6
<1> QED
  BY <1>1, <1>2, <1>3, <1>4, <1>5, <1>6, <1>7, <1>8, <1>9, <1>10, <1>11,
       <1>12, <1>13, <1>14, <1>15, <1>16, <1>17, <1>18, <1>19, <1>20, <1>21,
       <1>22 DEF Next, AppStep, SetStep, RunnerStep, Terminated

(* The inductive invariant holds in every reachable state of the queue.     *)
THEOREM QueueInvHolds == Spec => []Inv
<1> QED
  BY InvInit, InvStep, PTL DEF Spec

(* The assertions of FindOperation() and ForgetOperation() hold, however    *)
(* many threads call Run() and however often addresses are reused.          *)
THEOREM RegisteredTags == Spec => []TagsRegistered
<1>1. Inv => TagsRegistered
  <2> SUFFICES ASSUME Inv PROVE TagsRegistered
    OBVIOUS
  <2>1. \A a \in Addr : event[a] # "none" \/ request[a] # "none" => a \in pending_ops_
    BY DEF Inv, TokenInv
  <2>2. \A r \in Runner : held[r] # NoAddr => held[r] \in pending_ops_
    BY DEF Inv, HoldInv
  <2>3. \A a \in Addr : final[a] = 1 /\ a \in pending_ops_
                        => event[a] = "none" /\ request[a] = "none"
    BY DEF Inv, FinalInv, TokenInv, Active, ActivePC
  <2> QED
    BY <2>1, <2>2, <2>3 DEF TagsRegistered
<1> QED
  BY QueueInvHolds, <1>1, PTL

(* The responses of every stream reach data_functor_ one at a time, in the  *)
(* order the server sent them, without gaps or repetitions, whichever       *)
(* runners get its events.                                                  *)
THEOREM StreamsInOrder == Spec => []StreamInOrder
<1>1. Inv => StreamInOrder
  <2> SUFFICES ASSUME Inv PROVE StreamInOrder
    OBVIOUS
  <2>1. ASSUME NEW r \in Runner, pc[r] = "switch" PROVE bound[held[r]]
    <3>1. held[r] \in pending_ops_ /\ kind[held[r]] = "stream" /\ held[r] \in Addr
      BY <2>1 DEF Inv, HoldInv, HoldingPC, ActivePC, TypeOK
    <3>2. appOp # held[r]
      BY <2>1, <3>1, QueueAssumption DEF Inv, HoldInv, TokenInv, TypeOK
    <3> QED
      BY <3>1, <3>2 DEF Inv, FinalInv
  <2>2. ASSUME NEW a \in Addr PROVE data[a] = [i \in 1..Len(data[a]) |-> i]
    <3>1. data[a] \in Seq(Nat) /\ \A i \in 1..Len(data[a]) : data[a][i] = i
      BY DEF Inv, TypeOK, OrderInv, Order
    <3> QED
      BY <3>1
  <2>3. ASSUME NEW a \in Addr, NEW r \in Runner, held[r] = a,
               pc[r] \in {"dataCallback", "dataReturned", "finalCallback"}
        PROVE  /\ request[a] = "none" /\ event[a] = "none"
               /\ \A q \in Runner : held[q] = a => q = r
    <3>1. Active(r, a) /\ pc[r] # "Notify"
      BY <2>3 DEF Active, ActivePC
    <3> QED
      BY <3>1 DEF Inv, TokenInv
  <2>4. \A a \in Addr : request[a] = "none" \/ event[a] = "none"
    BY DEF Inv, TokenInv
  <2> QED
    BY <2>1, <2>2, <2>3, <2>4 DEF StreamInOrder
<1> QED
  BY QueueInvHolds, <1>1, PTL
==============================================================================
