--------------------------- MODULE DataCallsProofs ---------------------------
(***************************************************************************)
(* Proofs about DataCalls.tla, ChannelPool.tla and BulkMutator.tla: for    *)
(* every number of threads, connections and mutations,                     *)
(*                                                                         *)
(*   PoolInTurn        the connections are used in turn                    *)
(*   BulkIsAccounted   no mutation of a BulkApply() is lost or handled     *)
(*                     twice                                               *)
(*   NothingTwice      what is not idempotent is done once                 *)
(*   OkTellsTheTruth   OK means what it says                               *)
(***************************************************************************)
EXTENDS DataCalls, FiniteSetTheorems, TLAPS

-----------------------------------------------------------------------------
(* BulkMutator.  Where a mutation is: at a position of the request that    *)
(* has no answer yet, of the next request, of the failures, or of the      *)
(* result.                                                                 *)

OpenAt(m) ==
  {i \in DOMAIN annotations_ :
     /\ pc = "stream" /\ ~annotations_[i].has_mutation_result
     /\ annotations_[i].original_index = m}

PendingAt(m) == {i \in DOMAIN pending_mutations_ : pending_mutations_[i] = m}

FailedAt(m) == {i \in DOMAIN failures_ : failures_[i].mutation = m}

ResultAt(m) == {i \in DOMAIN result : result[i].mutation = m}

One(S) == \E x : S = {x}

(* Until the call returns, every mutation is in one place ...              *)
InOnePlace(m) ==
  \/ m \in confirmed /\ OpenAt(m) = {} /\ PendingAt(m) = {} /\ FailedAt(m) = {}
  \/ m \notin confirmed /\ One(OpenAt(m)) /\ PendingAt(m) = {} /\ FailedAt(m) = {}
  \/ m \notin confirmed /\ OpenAt(m) = {} /\ One(PendingAt(m)) /\ FailedAt(m) = {}
  \/ m \notin confirmed /\ OpenAt(m) = {} /\ PendingAt(m) = {} /\ One(FailedAt(m))

(* ... and then it is confirmed or reported.                               *)
InOneResult(m) ==
  \/ m \in confirmed /\ ResultAt(m) = {}
  \/ m \notin confirmed /\ One(ResultAt(m))

Annotations ==
  [original_index : Mutation, is_idempotent : BOOLEAN, has_mutation_result : BOOLEAN]

FailedMutations ==
  [mutation : Mutation, status : {"OK", "TRANSIENT", "PERMANENT"},
   original_index : Mutation \cup {-1}]

BulkTypeOK ==
  /\ pc \in {"loop", "stream", "decide", "extract", "returned"}
  /\ mutations_ \in Seq(0..N) /\ annotations_ \in Seq(Annotations)
  /\ Len(mutations_) = Len(annotations_)
  /\ pending_mutations_ \in Seq(0..N) /\ pending_annotations_ \in Seq(Annotations)
  /\ Len(pending_mutations_) = Len(pending_annotations_)
  /\ failures_ \in Seq(FailedMutations) /\ result \in Seq(FailedMutations)
  /\ sent \in [Mutation -> 0..2] /\ confirmed \subseteq Mutation

(* The parallel arrays: a position without an answer still has its         *)
(* mutation.                                                               *)
ArraysInv ==
  /\ \A i \in DOMAIN annotations_ :
       /\ mutations_[i] \in {Moved, annotations_[i].original_index}
       /\ pc = "stream" /\ ~annotations_[i].has_mutation_result =>
            mutations_[i] = annotations_[i].original_index
  /\ pc # "returned" =>
       \A i \in DOMAIN pending_mutations_ :
         pending_mutations_[i] = pending_annotations_[i].original_index

IndexInv ==
  /\ \A k \in DOMAIN failures_ :
       failures_[k].status # "OK" => failures_[k].original_index = failures_[k].mutation
  /\ \A k \in DOMAIN result :
       result[k].status # "OK" => result[k].original_index = result[k].mutation

(* What is pending and not idempotent has not been sent.                   *)
SentInv ==
  /\ \A i \in DOMAIN annotations_ :
       ~annotations_[i].is_idempotent => sent[annotations_[i].original_index] <= 1
  /\ pc # "returned" =>
       \A i \in DOMAIN pending_annotations_ :
         ~pending_annotations_[i].is_idempotent =>
           sent[pending_annotations_[i].original_index] = 0

PlaceInv ==
  \A m \in Mutation : IF pc = "returned" THEN InOneResult(m) ELSE InOnePlace(m)

(* A sync call whose status is OK in the end has no failures to report.    *)
OkInv == pc = "returned" /\ mode = "sync" /\ status = "OK" => result = <<>>

BulkInv ==
  /\ pc = "unused" => annotations_ = <<>>
  /\ pc # "unused" =>
       BulkTypeOK /\ ArraysInv /\ IndexInv /\ SentInv /\ PlaceInv /\ OkInv

LEMMA BulkInit == Init => BulkInv
<1> SUFFICES ASSUME Init PROVE BulkInv
  OBVIOUS
<1> USE BulkAssumption
<1>1. PICK idempotent \in [Mutation -> BOOLEAN] :
        pending_annotations_ = [i \in Mutation |-> Annotation(i, idempotent[i])]
  BY DEF Init
<1>2. \A i \in Mutation :
        /\ Annotation(i, idempotent[i]) \in Annotations
        /\ Annotation(i, idempotent[i]).original_index = i
  BY DEF Annotation, Annotations
<1>3. /\ pc = "loop" /\ mutations_ = <<>> /\ annotations_ = <<>>
      /\ pending_mutations_ = [i \in 1..N |-> i] /\ failures_ = <<>> /\ result = <<>>
      /\ confirmed = {} /\ sent = [i \in Mutation |-> 0]
  BY DEF Init, Mutation
<1>4. /\ pending_annotations_ \in Seq(Annotations) /\ Len(pending_annotations_) = N
      /\ DOMAIN pending_annotations_ = Mutation
      /\ \A i \in Mutation : pending_annotations_[i].original_index = i
  <2> DEFINE F == [i \in 1..N |-> Annotation(i, idempotent[i])]
  <2>1. F \in [1..N -> Annotations]
    BY <1>2 DEF Mutation
  <2>2. pending_annotations_ = F
    BY <1>1 DEF Mutation
  <2>3. \A i \in 1..N : F[i].original_index = i
    BY <1>2 DEF Mutation
  <2> HIDE DEF F
  <2> QED
    BY <2>1, <2>2, <2>3 DEF Mutation
<1>5. /\ pending_mutations_ \in Seq(0..N) /\ Len(pending_mutations_) = N
      /\ DOMAIN pending_mutations_ = Mutation
      /\ \A i \in Mutation : pending_mutations_[i] = i
  BY <1>3 DEF Mutation
<1>6. BulkTypeOK
  BY <1>3, <1>4, <1>5 DEF BulkTypeOK
<1>7. ArraysInv /\ IndexInv /\ OkInv
  BY <1>3, <1>4, <1>5 DEF ArraysInv, IndexInv, OkInv
<1>8. SentInv
  BY <1>3, <1>4 DEF SentInv
<1>9. ASSUME NEW m \in Mutation PROVE InOnePlace(m)
  <2>1. OpenAt(m) = {} /\ FailedAt(m) = {} /\ PendingAt(m) = {m}
    BY <1>3, <1>5 DEF OpenAt, FailedAt, PendingAt
  <2> QED
    BY <1>3, <2>1 DEF InOnePlace, One
<1> QED
  BY <1>3, <1>6, <1>7, <1>8, <1>9 DEF BulkInv, PlaceInv

(* A request is sent: what was pending is open.                            *)
LEMMA PrepareKeepsInv ==
  ASSUME BulkInv, PrepareForRequest
  PROVE  BulkInv'
<1>1. pc = "loop" /\ pc' = "stream" /\ BulkTypeOK /\ ArraysInv /\ IndexInv /\ SentInv /\ PlaceInv
  BY DEF BulkInv, PrepareForRequest
<1> DEFINE n == Len(pending_annotations_)
<1>2. n \in Nat /\ DOMAIN pending_annotations_ = 1..n /\ DOMAIN pending_mutations_ = 1..n
  BY <1>1 DEF BulkTypeOK
<1>3. \A i \in 1..n :
        /\ pending_annotations_[i] \in Annotations
        /\ pending_annotations_[i].original_index = pending_mutations_[i]
  <2>1. \A i \in 1..n : pending_annotations_[i] \in Annotations
    BY <1>1, <1>2 DEF BulkTypeOK
  <2>2. \A i \in 1..n : pending_annotations_[i].original_index = pending_mutations_[i]
    BY <1>1, <1>2 DEF ArraysInv
  <2> QED
    BY <2>1, <2>2
<1>4. /\ annotations_' = [i \in 1..n |->
             [pending_annotations_[i] EXCEPT !.has_mutation_result = FALSE]]
      /\ mutations_' = pending_mutations_ /\ pending_mutations_' = <<>>
      /\ pending_annotations_' = <<>>
      /\ UNCHANGED <<failures_, result, confirmed, status, mode>>
  BY <1>2 DEF PrepareForRequest, NextAnnotations
<1>5. \A i \in 1..n :
        /\ annotations_'[i] \in Annotations
        /\ annotations_'[i].has_mutation_result = FALSE
        /\ annotations_'[i].original_index = pending_mutations_[i]
        /\ annotations_'[i].is_idempotent = pending_annotations_[i].is_idempotent
  BY <1>3, <1>4 DEF Annotations
<1>6. annotations_' \in Seq(Annotations) /\ Len(annotations_') = n /\ DOMAIN annotations_' = 1..n
  BY <1>2, <1>4, <1>5
<1> HIDE DEF n
<1>7. sent' = [m \in Mutation |->
                IF m \in ToSet(pending_mutations_) /\ sent[m] < 2
                  THEN sent[m] + 1 ELSE sent[m]]
  BY DEF PrepareForRequest
<1>8. sent' \in [Mutation -> 0..2] /\ \A m \in Mutation : sent'[m] <= sent[m] + 1
  <2>1. \A m \in Mutation : sent[m] \in 0..2
    BY <1>1 DEF BulkTypeOK
  <2>2. ASSUME NEW m \in Mutation
        PROVE  sent'[m] \in 0..2 /\ sent'[m] <= sent[m] + 1
    <3>1. sent'[m] = sent[m] \/ (sent[m] < 2 /\ sent'[m] = sent[m] + 1)
      BY <1>7
    <3> QED
      BY <2>1, <3>1
  <2>3. sent' \in [Mutation -> 0..2]
    BY <1>7, <2>2
  <2> QED
    BY <2>2, <2>3
<1>9. BulkTypeOK'
  BY <1>1, <1>4, <1>6, <1>8, <1>2 DEF BulkTypeOK, n
<1>10. ArraysInv'
  BY <1>1, <1>4, <1>5, <1>6 DEF ArraysInv
<1>11. IndexInv'
  BY <1>1, <1>4 DEF IndexInv
<1>12. SentInv'
  <2>1. ASSUME NEW i \in 1..n, ~annotations_'[i].is_idempotent
        PROVE  sent'[annotations_'[i].original_index] <= 1
    <3>1. sent[pending_annotations_[i].original_index] = 0
      BY <1>1, <1>2, <1>5, <2>1 DEF SentInv
    <3>2. annotations_'[i].original_index = pending_annotations_[i].original_index
            /\ annotations_'[i].original_index \in Mutation
      BY <1>3, <1>5 DEF Annotations
    <3> QED
      BY <1>8, <3>1, <3>2
  <2> QED
    BY <1>4, <1>6, <2>1 DEF SentInv
<1>13. PlaceInv'
  <2>1. ASSUME NEW m \in Mutation PROVE InOnePlace(m)'
    <3>1. OpenAt(m) = {}
      BY <1>1 DEF OpenAt
    <3>2. OpenAt(m)' = PendingAt(m)
      BY <1>1, <1>2, <1>5, <1>6 DEF OpenAt, PendingAt
    <3>3. PendingAt(m)' = {} /\ FailedAt(m)' = FailedAt(m) /\ confirmed' = confirmed
      BY <1>4 DEF PendingAt, FailedAt
    <3>4. InOnePlace(m)
      BY <1>1 DEF PlaceInv
    <3> QED
      BY <3>1, <3>2, <3>3, <3>4 DEF InOnePlace, One
  <2> QED
    BY <1>1, <2>1 DEF PlaceInv
<1> QED
  BY <1>1, <1>9, <1>10, <1>11, <1>12, <1>13 DEF BulkInv, OkInv

(* An entry is answered: it is confirmed, pending again, or failed.        *)
LEMMA ResponseKeepsInv ==
  ASSUME BulkInv, NEW index, NEW code \in {"OK", "TRANSIENT", "PERMANENT"},
         ProcessResponse(index, code)
  PROVE  BulkInv'
<1>1. /\ pc = "stream" /\ pc' = "stream" /\ BulkTypeOK /\ ArraysInv /\ IndexInv
      /\ SentInv /\ PlaceInv /\ UNCHANGED <<sent, result, mode, status>>
  BY DEF BulkInv, ProcessResponse
<1>2. CASE index \notin DOMAIN annotations_
  <2>1. UNCHANGED <<pc, annotations_, mutations_, pending_mutations_,
                    pending_annotations_, failures_, confirmed>>
    BY <1>1, <1>2 DEF ProcessResponse, requestVars, pendingVars
  <2>2. ASSUME NEW m \in Mutation
        PROVE  /\ OpenAt(m)' = OpenAt(m) /\ PendingAt(m)' = PendingAt(m)
               /\ FailedAt(m)' = FailedAt(m)
    BY <2>1 DEF OpenAt, PendingAt, FailedAt
  <2>3. PlaceInv'
    BY <1>1, <2>1, <2>2 DEF PlaceInv, InOnePlace
  <2> QED
    BY <1>1, <2>1, <2>3 DEF BulkInv, BulkTypeOK, ArraysInv, IndexInv, SentInv, OkInv
<1>3. CASE index \in DOMAIN annotations_
  <2> DEFINE n == Len(annotations_)
  <2>x. PICK x : x = mutations_[index]
    OBVIOUS
  <2>a. PICK a : a = [annotations_[index] EXCEPT !.has_mutation_result = TRUE]
    OBVIOUS
  <2>1. /\ n \in Nat /\ DOMAIN annotations_ = 1..n /\ DOMAIN mutations_ = 1..n
        /\ index \in 1..n
    BY <1>1, <1>3 DEF BulkTypeOK
  <2>2. /\ annotations_[index] \in Annotations
        /\ ~annotations_[index].has_mutation_result
    BY <1>1, <1>3, <2>1 DEF BulkTypeOK, ProcessResponse
  <2>3. x = annotations_[index].original_index /\ x \in Mutation /\ x # Moved
    BY <1>1, <1>3, <2>2, <2>x DEF ArraysInv, Annotations, Mutation, Moved
  <2>4. /\ a \in Annotations /\ a.has_mutation_result = TRUE /\ a.original_index = x
        /\ a.is_idempotent = annotations_[index].is_idempotent
    BY <2>2, <2>3, <2>a DEF Annotations
  <2>5. annotations_' = [annotations_ EXCEPT ![index] = a]
    BY <1>3, <2>a DEF ProcessResponse
  <2>6. /\ annotations_' \in Seq(Annotations) /\ Len(annotations_') = n
        /\ DOMAIN annotations_' = 1..n
        /\ annotations_'[index] = a
        /\ \A i \in 1..n : i # index => annotations_'[i] = annotations_[i]
    BY <1>1, <2>1, <2>4, <2>5 DEF BulkTypeOK
  <2>7. \/ /\ code = "OK" /\ confirmed' = confirmed \union {x}
           /\ UNCHANGED <<mutations_, pending_mutations_, pending_annotations_, failures_>>
        \/ /\ a.is_idempotent
           /\ mutations_' = [mutations_ EXCEPT ![index] = Moved]
           /\ pending_mutations_' = Append(pending_mutations_, x)
           /\ pending_annotations_' = Append(pending_annotations_, a)
           /\ UNCHANGED <<failures_, confirmed>>
        \/ /\ code # "OK"
           /\ mutations_' = [mutations_ EXCEPT ![index] = Moved]
           /\ failures_' = Append(failures_, Failed(x, code, x))
           /\ UNCHANGED <<pending_mutations_, pending_annotations_, confirmed>>
    BY <1>3, <2>x, <2>a, <2>4 DEF ProcessResponse, pendingVars, MayRetry, ReportedIndex
  <2> HIDE DEF n
  (* The place of x is index; the other mutations are where they were.     *)
  <2>8. OpenAt(x) = {index} /\ PendingAt(x) = {} /\ FailedAt(x) = {} /\ x \notin confirmed
    <3>1. index \in OpenAt(x)
      BY <1>1, <1>3, <2>2, <2>3 DEF OpenAt
    <3>2. InOnePlace(x)
      BY <1>1, <2>3 DEF PlaceInv
    <3> QED
      BY <3>1, <3>2 DEF InOnePlace, One
  <2>9. OpenAt(x)' = {}
    <3>1. ASSUME NEW i \in 1..n, i # index, ~annotations_[i].has_mutation_result
          PROVE  annotations_[i].original_index # x
      BY <1>1, <2>1, <2>8, <3>1 DEF OpenAt
    <3> QED
      BY <2>4, <2>6, <3>1 DEF OpenAt
  <2>10. ASSUME NEW m \in Mutation, m # x
         PROVE  OpenAt(m)' = OpenAt(m)
    BY <1>1, <2>1, <2>3, <2>4, <2>6, <2>10 DEF OpenAt
  <2>11. \A i \in DOMAIN annotations_' :
           ~annotations_'[i].is_idempotent => sent'[annotations_'[i].original_index] <= 1
    BY <1>1, <2>1, <2>3, <2>4, <2>6 DEF SentInv
  <2>12. ASSUME mutations_' = mutations_ \/ mutations_' = [mutations_ EXCEPT ![index] = Moved]
         PROVE  /\ mutations_' \in Seq(0..N) /\ Len(mutations_') = n
                /\ \A i \in DOMAIN annotations_' :
                     /\ mutations_'[i] \in {Moved, annotations_'[i].original_index}
                     /\ ~annotations_'[i].has_mutation_result =>
                          mutations_'[i] = annotations_'[i].original_index
    <3>1. mutations_' \in Seq(0..N) /\ Len(mutations_') = n
      <4>1. Moved \in 0..N
        BY BulkAssumption DEF Moved
      <4>2. mutations_ \in Seq(0..N) /\ Len(mutations_) = n
        BY <1>1 DEF BulkTypeOK, n
      <4>3. CASE mutations_' = mutations_
        BY <4>2, <4>3
      <4>4. CASE mutations_' = [mutations_ EXCEPT ![index] = Moved]
        <5>1. \A i \in 1..n : mutations_[i] \in 0..N
          BY <2>1, <4>2, BulkAssumption
        <5>2. mutations_' = [i \in 1..n |-> IF i = index THEN Moved ELSE mutations_[i]]
          BY <2>1, <4>2, <4>4
        <5>3. \A i \in 1..n : mutations_'[i] \in 0..N
          BY <4>1, <5>1, <5>2
        <5> QED
          BY <2>1, <5>2, <5>3
      <4> QED
        BY <2>12, <4>3, <4>4
    <3>2. mutations_'[index] \in {Moved, x} /\ \A i \in 1..n : i # index => mutations_'[i] = mutations_[i]
      BY <1>1, <2>1, <2>12, <2>x DEF BulkTypeOK
    <3> QED
      BY <1>1, <2>1, <2>4, <2>6, <3>1, <3>2 DEF ArraysInv
  <2>13. CASE /\ code = "OK" /\ confirmed' = confirmed \union {x}
              /\ UNCHANGED <<mutations_, pending_mutations_, pending_annotations_, failures_>>
    <3>1. BulkTypeOK'
      <4>1. confirmed' \subseteq Mutation
        BY <1>1, <2>3, <2>13 DEF BulkTypeOK
      <4> QED
        BY <1>1, <2>6, <2>12, <2>13, <4>1 DEF BulkTypeOK
    <3>2. ArraysInv' /\ IndexInv' /\ SentInv'
      BY <1>1, <2>11, <2>12, <2>13 DEF ArraysInv, IndexInv, SentInv
    <3>3. ASSUME NEW m \in Mutation PROVE InOnePlace(m)'
      <4>1. PendingAt(m)' = PendingAt(m) /\ FailedAt(m)' = FailedAt(m)
        BY <2>13 DEF PendingAt, FailedAt
      <4>2. InOnePlace(m)
        BY <1>1 DEF PlaceInv
      <4>3. CASE m = x
        BY <2>8, <2>9, <2>13, <4>1, <4>3 DEF InOnePlace
      <4>4. CASE m # x
        BY <2>10, <2>13, <4>1, <4>2, <4>4 DEF InOnePlace
      <4> QED
        BY <4>3, <4>4
    <3> QED
      BY <1>1, <3>1, <3>2, <3>3 DEF BulkInv, PlaceInv, OkInv
  <2>14. CASE /\ a.is_idempotent
              /\ mutations_' = [mutations_ EXCEPT ![index] = Moved]
              /\ pending_mutations_' = Append(pending_mutations_, x)
              /\ pending_annotations_' = Append(pending_annotations_, a)
              /\ UNCHANGED <<failures_, confirmed>>
    <3> DEFINE p == Len(pending_mutations_)
    <3>1. /\ p \in Nat /\ DOMAIN pending_mutations_ = 1..p /\ Len(pending_annotations_) = p
          /\ DOMAIN pending_annotations_ = 1..p
      BY <1>1 DEF BulkTypeOK
    <3>2. /\ pending_mutations_' \in Seq(0..N) /\ Len(pending_mutations_') = p + 1
          /\ DOMAIN pending_mutations_' = 1..(p + 1) /\ pending_mutations_'[p + 1] = x
          /\ \A i \in 1..p : pending_mutations_'[i] = pending_mutations_[i]
      <4>1. x \in 0..N /\ pending_mutations_ \in Seq(0..N)
        BY <1>1, <2>3, BulkAssumption DEF BulkTypeOK, Mutation
      <4> QED
        BY <2>14, <3>1, <4>1
    <3>3. /\ pending_annotations_' \in Seq(Annotations) /\ Len(pending_annotations_') = p + 1
          /\ DOMAIN pending_annotations_' = 1..(p + 1) /\ pending_annotations_'[p + 1] = a
          /\ \A i \in 1..p : pending_annotations_'[i] = pending_annotations_[i]
      BY <1>1, <2>4, <2>14, <3>1 DEF BulkTypeOK
    <3> HIDE DEF p
    <3>4. BulkTypeOK'
      BY <1>1, <2>6, <2>12, <2>14, <3>2, <3>3 DEF BulkTypeOK
    <3>5. ArraysInv'
      <4>1. \A i \in 1..(p + 1) : pending_mutations_'[i] = pending_annotations_'[i].original_index
        <5>1. \A i \in 1..p : pending_mutations_[i] = pending_annotations_[i].original_index
          BY <1>1, <3>1 DEF ArraysInv
        <5>2. pending_mutations_'[p + 1] = pending_annotations_'[p + 1].original_index
          BY <2>4, <3>2, <3>3
        <5>3. \A i \in 1..(p + 1) : i \in 1..p \/ i = p + 1
          BY <3>1
        <5> QED
          BY <3>2, <3>3, <5>1, <5>2, <5>3
      <4> QED
        BY <2>12, <2>14, <3>2, <4>1 DEF ArraysInv
    <3>6. IndexInv'
      BY <1>1, <2>14 DEF IndexInv
    <3>7. SentInv'
      <4>1. \A i \in 1..(p + 1) : ~pending_annotations_'[i].is_idempotent =>
              sent'[pending_annotations_'[i].original_index] = 0
        BY <1>1, <2>14, <3>1, <3>3 DEF SentInv
      <4> QED
        BY <2>11, <3>3, <4>1 DEF SentInv
    <3>8. ASSUME NEW m \in Mutation PROVE InOnePlace(m)'
      <4>1. FailedAt(m)' = FailedAt(m)
        BY <2>14 DEF FailedAt
      <4>2. InOnePlace(m)
        BY <1>1 DEF PlaceInv
      <4>3. CASE m = x
        <5>1. PendingAt(m)' = {p + 1}
          BY <2>8, <3>1, <3>2, <4>3 DEF PendingAt
        <5> QED
          BY <2>8, <2>9, <2>14, <4>1, <4>3, <5>1 DEF InOnePlace, One
      <4>4. CASE m # x
        <5>1. PendingAt(m)' = PendingAt(m)
          BY <3>1, <3>2, <4>4 DEF PendingAt
        <5> QED
          BY <2>10, <2>14, <4>1, <4>2, <4>4, <5>1 DEF InOnePlace
      <4> QED
        BY <4>3, <4>4
    <3> QED
      BY <1>1, <3>4, <3>5, <3>6, <3>7, <3>8 DEF BulkInv, PlaceInv, OkInv
  <2>15. CASE /\ code # "OK"
              /\ mutations_' = [mutations_ EXCEPT ![index] = Moved]
              /\ failures_' = Append(failures_, Failed(x, code, x))
              /\ UNCHANGED <<pending_mutations_, pending_annotations_, confirmed>>
    <3> DEFINE f == Len(failures_)
    <3>e. PICK e : e = Failed(x, code, x)
      OBVIOUS
    <3>1. f \in Nat /\ DOMAIN failures_ = 1..f
      BY <1>1 DEF BulkTypeOK
    <3>2. e \in FailedMutations /\ e.mutation = x /\ e.original_index = x
      BY <2>3, <2>15, <3>e DEF Failed, FailedMutations
    <3>3. /\ failures_' \in Seq(FailedMutations) /\ DOMAIN failures_' = 1..(f + 1)
          /\ failures_'[f + 1] = e /\ \A i \in 1..f : failures_'[i] = failures_[i]
      BY <1>1, <2>15, <3>1, <3>2, <3>e DEF BulkTypeOK
    <3> HIDE DEF f
    <3>4. BulkTypeOK'
      BY <1>1, <2>6, <2>12, <2>15, <3>3 DEF BulkTypeOK
    <3>5. ArraysInv' /\ SentInv'
      BY <1>1, <2>11, <2>12, <2>15 DEF ArraysInv, SentInv
    <3>6. IndexInv'
      BY <1>1, <3>1, <3>2, <3>3 DEF IndexInv
    <3>7. ASSUME NEW m \in Mutation PROVE InOnePlace(m)'
      <4>1. PendingAt(m)' = PendingAt(m)
        BY <2>15 DEF PendingAt
      <4>2. InOnePlace(m)
        BY <1>1 DEF PlaceInv
      <4>3. CASE m = x
        <5>1. FailedAt(m)' = {f + 1}
          BY <2>8, <3>1, <3>2, <3>3, <4>3 DEF FailedAt
        <5> QED
          BY <2>8, <2>9, <2>15, <4>1, <4>3, <5>1 DEF InOnePlace, One
      <4>4. CASE m # x
        <5>1. FailedAt(m)' = FailedAt(m)
          BY <3>1, <3>2, <3>3, <4>4 DEF FailedAt
        <5> QED
          BY <2>10, <2>15, <4>1, <4>2, <4>4, <5>1 DEF InOnePlace
      <4> QED
        BY <4>3, <4>4
    <3> QED
      BY <1>1, <3>4, <3>5, <3>6, <3>7 DEF BulkInv, PlaceInv, OkInv
  <2> QED
    BY <2>7, <2>13, <2>14, <2>15
<1> QED
  BY <1>2, <1>3

(* The order in which positions are visited has each of them once.         *)
LEMMA OrderFacts ==
  ASSUME NEW n \in Nat, NEW P \in SUBSET (1..n), NEW s \in InOrder(P)
  PROVE  /\ Len(s) \in Nat /\ DOMAIN s = 1..Len(s)
         /\ \A k \in 1..Len(s) : s[k] \in P
         /\ \A i \in P : \E k \in 1..Len(s) : \A j \in 1..Len(s) : s[j] = i <=> j = k
<1>1. IsFiniteSet(P)
  <2>1. IsFiniteSet(1..n)
    BY FS_Interval
  <2> QED
    BY <2>1, FS_Subset
<1>2. PICK c \in Nat : c = Cardinality(P)
  BY <1>1, FS_CardinalityType
<1>3. /\ s \in [1..c -> P] /\ P \subseteq Range(s)
      /\ \A i, j \in 1..c : i < j => s[i] < s[j]
  BY <1>2 DEF InOrder
<1>4. Len(s) = c /\ DOMAIN s = 1..c
  BY <1>2, <1>3
<1>5. ASSUME NEW i \in P
      PROVE  \E k \in 1..c : \A j \in 1..c : s[j] = i <=> j = k
  <2>1. PICK k \in 1..c : s[k] = i
    BY <1>3, <1>4 DEF Range
  <2>2. ASSUME NEW j \in 1..c, s[j] = i PROVE j = k
    <3>1. s[j] \in Int /\ s[k] \in Int
      <4>1. s[j] \in P /\ s[k] \in P
        BY <1>3
      <4>2. \A z \in P : z \in Int
        OBVIOUS
      <4> QED
        BY <4>1, <4>2
    <3>2. ~(j < k) /\ ~(k < j)
      BY <1>3, <2>1, <2>2, <3>1
    <3> QED
      BY <3>2
  <2> QED
    BY <2>1, <2>2
<1> QED
  BY <1>3, <1>4, <1>5

(* u is s with t behind it.                                                *)
Grown(u, s, t) ==
  /\ Len(u) = Len(s) + Len(t) /\ DOMAIN u = 1..(Len(s) + Len(t))
  /\ \A i \in 1..Len(s) : u[i] = s[i]
  /\ \A k \in 1..Len(t) : u[Len(s) + k] = t[k]

LEMMA Concatenation ==
  ASSUME NEW S, NEW s \in Seq(S), NEW t \in Seq(S)
  PROVE  s \o t \in Seq(S) /\ Grown(s \o t, s, t)
BY DEF Grown

(* A position of s \o t is one of s, or one of t behind s.                 *)
LEMMA Positions ==
  ASSUME NEW p \in Nat, NEW q \in Nat, NEW i \in 1..(p + q)
  PROVE  i \in 1..p \/ \E k \in 1..q : i = p + k
<1>1. CASE i <= p
  BY <1>1
<1>2. CASE i > p
  <2>1. i - p \in 1..q /\ i = p + (i - p)
    BY <1>2
  <2> QED
    BY <2>1
<1> QED
  BY <1>1, <1>2

(* The stream ends: what has no answer is pending again, or failed.        *)
LEMMA FinishKeepsInv ==
  ASSUME BulkInv, NEW st, FinishRequest(st)
  PROVE  BulkInv'
<1>1. /\ pc = "stream" /\ pc' = "decide" /\ BulkTypeOK /\ ArraysInv /\ IndexInv
      /\ SentInv /\ PlaceInv
      /\ annotations_' = annotations_ /\ sent' = sent /\ result' = result
      /\ confirmed' = confirmed /\ mode' = mode
  BY DEF BulkInv, FinishRequest, historyVars
<1>n. PICK n \in Nat : n = Len(annotations_)
  BY <1>1 DEF BulkTypeOK
<1>2. /\ DOMAIN annotations_ = 1..n /\ DOMAIN mutations_ = 1..n /\ Len(mutations_) = n
      /\ \A i \in 1..n : annotations_[i] \in Annotations /\ mutations_[i] \in 0..N
  BY <1>1, <1>n, BulkAssumption DEF BulkTypeOK
<1> DEFINE R == {i \in Unanswered : RetryUnknown(annotations_[i])}
           D == {i \in Unanswered : ~RetryUnknown(annotations_[i])}
<1>3. PICK retry \in InOrder(R), drop \in InOrder(D) :
        /\ pending_mutations_' =
             pending_mutations_ \o [k \in DOMAIN retry |-> OriginalOf(retry[k])]
        /\ pending_annotations_' =
             pending_annotations_ \o [k \in DOMAIN retry |-> annotations_[retry[k]]]
        /\ failures_' =
             failures_ \o [k \in DOMAIN drop |->
               Failed(OriginalOf(drop[k]), "OK", annotations_[drop[k]].original_index)]
        /\ mutations_' = [i \in DOMAIN mutations_ |->
             IF annotations_[i].has_mutation_result THEN mutations_[i] ELSE Moved]
  BY DEF FinishRequest
<1>4. /\ R \in SUBSET (1..n) /\ D \in SUBSET (1..n)
      /\ \A i \in R : i \in Unanswered /\ annotations_[i].is_idempotent
      /\ \A i \in D : i \in Unanswered /\ ~annotations_[i].is_idempotent
      /\ \A i \in Unanswered : i \in R \/ i \in D
  BY <1>2 DEF Unanswered, RetryUnknown
<1> HIDE DEF R, D
<1>5. PICK q \in Nat, d \in Nat :
        /\ q = Len(retry) /\ d = Len(drop) /\ DOMAIN retry = 1..q /\ DOMAIN drop = 1..d
        /\ \A k \in 1..q : retry[k] \in R
        /\ \A k \in 1..d : drop[k] \in D
        /\ \A i \in R : \E k \in 1..q : \A j \in 1..q : retry[j] = i <=> j = k
        /\ \A i \in D : \E k \in 1..d : \A j \in 1..d : drop[j] = i <=> j = k
  <2>1. /\ Len(retry) \in Nat /\ DOMAIN retry = 1..Len(retry)
        /\ \A k \in 1..Len(retry) : retry[k] \in R
        /\ \A i \in R : \E k \in 1..Len(retry) : \A j \in 1..Len(retry) : retry[j] = i <=> j = k
    BY <1>4, OrderFacts
  <2>2. /\ Len(drop) \in Nat /\ DOMAIN drop = 1..Len(drop)
        /\ \A k \in 1..Len(drop) : drop[k] \in D
        /\ \A i \in D : \E k \in 1..Len(drop) : \A j \in 1..Len(drop) : drop[j] = i <=> j = k
    BY <1>4, OrderFacts
  <2> QED
    BY <2>1, <2>2
<1>6. \A i \in Unanswered :
        /\ i \in 1..n /\ OriginalOf(i) = annotations_[i].original_index
        /\ annotations_[i] \in Annotations /\ annotations_[i].original_index \in Mutation
        /\ OriginalOf(i) \in 0..N
        /\ i \in OpenAt(annotations_[i].original_index)
  BY <1>1, <1>2 DEF ArraysInv, Unanswered, OriginalOf, Annotations, OpenAt
<1>p. PICK p \in Nat, f \in Nat : p = Len(pending_mutations_) /\ f = Len(failures_)
  BY <1>1 DEF BulkTypeOK
<1>7. /\ pending_mutations_' \in Seq(0..N) /\ Len(pending_mutations_') = p + q
      /\ DOMAIN pending_mutations_' = 1..(p + q)
      /\ \A i \in 1..p : pending_mutations_'[i] = pending_mutations_[i]
      /\ \A k \in 1..q : pending_mutations_'[p + k] = annotations_[retry[k]].original_index
  <2>t. PICK t : t = [k \in 1..q |-> OriginalOf(retry[k])]
    OBVIOUS
  <2>1. t \in Seq(0..N) /\ Len(t) = q
    <3>1. \A k \in 1..q : OriginalOf(retry[k]) \in 0..N
      BY <1>4, <1>5, <1>6
    <3> QED
      BY <2>t, <3>1
  <2>2. \A k \in 1..q : t[k] = annotations_[retry[k]].original_index
    BY <1>4, <1>5, <1>6, <2>t
  <2>3. pending_mutations_' = pending_mutations_ \o t /\ pending_mutations_ \in Seq(0..N)
    BY <1>1, <1>3, <1>5, <2>t DEF BulkTypeOK
  <2>4. /\ pending_mutations_' \in Seq(0..N)
        /\ Grown(pending_mutations_', pending_mutations_, t)
    BY <2>1, <2>3, Concatenation
  <2> QED
    BY <1>p, <2>1, <2>2, <2>4 DEF Grown
<1>8. /\ pending_annotations_' \in Seq(Annotations) /\ Len(pending_annotations_') = p + q
      /\ DOMAIN pending_annotations_' = 1..(p + q)
      /\ \A i \in 1..p : pending_annotations_'[i] = pending_annotations_[i]
      /\ \A k \in 1..q : pending_annotations_'[p + k] = annotations_[retry[k]]
  <2>t. PICK t : t = [k \in 1..q |-> annotations_[retry[k]]]
    OBVIOUS
  <2>1. t \in Seq(Annotations) /\ Len(t) = q /\ \A k \in 1..q : t[k] = annotations_[retry[k]]
    <3>1. \A k \in 1..q : annotations_[retry[k]] \in Annotations
      BY <1>4, <1>5, <1>6
    <3> QED
      BY <2>t, <3>1
  <2>2. /\ pending_annotations_' = pending_annotations_ \o t
        /\ pending_annotations_ \in Seq(Annotations) /\ Len(pending_annotations_) = p
    BY <1>1, <1>3, <1>5, <1>p, <2>t DEF BulkTypeOK
  <2>3. /\ pending_annotations_' \in Seq(Annotations)
        /\ Grown(pending_annotations_', pending_annotations_, t)
    BY <2>1, <2>2, Concatenation
  <2> QED
    BY <2>1, <2>2, <2>3 DEF Grown
<1>9. /\ failures_' \in Seq(FailedMutations) /\ DOMAIN failures_' = 1..(f + d)
      /\ \A i \in 1..f : failures_'[i] = failures_[i]
      /\ \A k \in 1..d : /\ failures_'[f + k].mutation = annotations_[drop[k]].original_index
                         /\ failures_'[f + k].status = "OK"
  <2>t. PICK t : t = [k \in 1..d |->
            Failed(OriginalOf(drop[k]), "OK", annotations_[drop[k]].original_index)]
    OBVIOUS
  <2>1. ASSUME NEW k \in 1..d
        PROVE  /\ t[k] \in FailedMutations /\ t[k].status = "OK"
               /\ t[k].mutation = annotations_[drop[k]].original_index
    <3>1. /\ annotations_[drop[k]].original_index \in Mutation
          /\ OriginalOf(drop[k]) = annotations_[drop[k]].original_index
      BY <1>4, <1>5, <1>6
    <3>2. t[k] = Failed(OriginalOf(drop[k]), "OK", annotations_[drop[k]].original_index)
      BY <2>t
    <3> QED
      BY <3>1, <3>2 DEF Failed, FailedMutations
  <2>2. t \in Seq(FailedMutations) /\ Len(t) = d
    BY <2>1, <2>t
  <2>3. failures_' = failures_ \o t /\ failures_ \in Seq(FailedMutations)
    BY <1>1, <1>3, <1>5, <2>t DEF BulkTypeOK
  <2>4. failures_' \in Seq(FailedMutations) /\ Grown(failures_', failures_, t)
    BY <2>2, <2>3, Concatenation
  <2> QED
    BY <1>p, <2>1, <2>2, <2>4 DEF Grown
<1>10. /\ mutations_' \in Seq(0..N) /\ Len(mutations_') = n /\ DOMAIN mutations_' = 1..n
       /\ \A i \in 1..n : mutations_'[i] \in {mutations_[i], Moved}
  <2>1. Moved \in 0..N
    BY BulkAssumption DEF Moved
  <2>2. mutations_' = [i \in 1..n |->
             IF annotations_[i].has_mutation_result THEN mutations_[i] ELSE Moved]
    BY <1>2, <1>3
  <2> QED
    BY <1>2, <2>1, <2>2
<1>o. DOMAIN pending_mutations_ = 1..p /\ DOMAIN pending_annotations_ = 1..p /\ DOMAIN failures_ = 1..f
  BY <1>1, <1>p DEF BulkTypeOK
<1>11. BulkTypeOK'
  BY <1>1, <1>n, <1>7, <1>8, <1>9, <1>10 DEF BulkTypeOK
<1>12. ArraysInv'
  <2>1. ASSUME NEW i \in 1..(p + q)
        PROVE  pending_mutations_'[i] = pending_annotations_'[i].original_index
    <3>1. CASE i \in 1..p
      BY <1>1, <1>7, <1>8, <1>o, <3>1 DEF ArraysInv
    <3>2. CASE \E k \in 1..q : i = p + k
      <4>1. PICK k \in 1..q : i = p + k
        BY <3>2
      <4> QED
        BY <1>7, <1>8, <4>1
    <3> QED
      BY <3>1, <3>2, Positions
  <2> QED
    BY <1>1, <1>2, <1>7, <1>10, <2>1 DEF ArraysInv
<1>13. IndexInv'
  <2>1. ASSUME NEW i \in 1..(f + d), failures_'[i].status # "OK"
        PROVE  failures_'[i].original_index = failures_'[i].mutation
    <3>1. i \in 1..f
      BY <1>9, <2>1, Positions
    <3> QED
      BY <1>1, <1>9, <1>o, <2>1, <3>1 DEF IndexInv
  <2> QED
    BY <1>1, <1>9, <2>1 DEF IndexInv
<1>14. SentInv'
  <2>1. ASSUME NEW i \in 1..(p + q), ~pending_annotations_'[i].is_idempotent
        PROVE  sent[pending_annotations_'[i].original_index] = 0
    <3>1. i \in 1..p
      <4>1. \A k \in 1..q : pending_annotations_'[p + k].is_idempotent
        <5>1. \A k \in 1..q : annotations_[retry[k]].is_idempotent
          BY <1>4, <1>5
        <5> QED
          BY <1>8, <5>1
      <4>2. i \in 1..p \/ \E k \in 1..q : i = p + k
        BY Positions
      <4> QED
        BY <2>1, <4>1, <4>2
    <3> QED
      BY <1>1, <1>8, <1>o, <2>1, <3>1 DEF SentInv
  <2> QED
    BY <1>1, <1>8, <2>1 DEF SentInv
<1>15. ASSUME NEW m \in Mutation PROVE InOnePlace(m)'
  <2> DEFINE Rm == {k \in 1..q : annotations_[retry[k]].original_index = m}
             Dm == {k \in 1..d : annotations_[drop[k]].original_index = m}
  <2>1. OpenAt(m)' = {}
    BY <1>1 DEF OpenAt
  <2>2. PendingAt(m)' = PendingAt(m) \cup {p + k : k \in Rm}
    <3>1. ASSUME NEW i \in PendingAt(m)'
          PROVE  i \in PendingAt(m) \cup {p + k : k \in Rm}
      <4>1. i \in 1..(p + q) /\ pending_mutations_'[i] = m
        BY <1>7 DEF PendingAt
      <4>2. CASE i \in 1..p
        BY <1>7, <1>o, <4>1, <4>2 DEF PendingAt
      <4>3. CASE \E k \in 1..q : i = p + k
        BY <1>7, <4>1, <4>3
      <4> QED
        BY <4>1, <4>2, <4>3, Positions
    <3>2. ASSUME NEW i \in PendingAt(m) PROVE i \in PendingAt(m)'
      BY <1>7, <1>o DEF PendingAt
    <3>3. ASSUME NEW k \in Rm PROVE p + k \in PendingAt(m)'
      BY <1>7 DEF PendingAt
    <3> HIDE DEF Rm
    <3> QED
      BY <3>1, <3>2, <3>3
  <2>3. FailedAt(m)' = FailedAt(m) \cup {f + k : k \in Dm}
    <3>1. ASSUME NEW i \in FailedAt(m)'
          PROVE  i \in FailedAt(m) \cup {f + k : k \in Dm}
      <4>1. i \in 1..(f + d) /\ failures_'[i].mutation = m
        BY <1>9 DEF FailedAt
      <4>2. CASE i \in 1..f
        BY <1>9, <1>o, <4>1, <4>2 DEF FailedAt
      <4>3. CASE \E k \in 1..d : i = f + k
        BY <1>9, <4>1, <4>3
      <4> QED
        BY <4>1, <4>2, <4>3, Positions
    <3>2. ASSUME NEW i \in FailedAt(m) PROVE i \in FailedAt(m)'
      BY <1>9, <1>o DEF FailedAt
    <3>3. ASSUME NEW k \in Dm PROVE f + k \in FailedAt(m)'
      BY <1>9 DEF FailedAt
    <3> HIDE DEF Dm
    <3> QED
      BY <3>1, <3>2, <3>3
  <2>4. /\ \A k \in Rm : retry[k] \in OpenAt(m) /\ annotations_[retry[k]].is_idempotent
        /\ \A k \in Dm : drop[k] \in OpenAt(m) /\ ~annotations_[drop[k]].is_idempotent
    BY <1>4, <1>5, <1>6
  <2>5. InOnePlace(m)
    BY <1>1 DEF PlaceInv
  <2>6. CASE OpenAt(m) = {}
    <3>1. Rm = {} /\ Dm = {}
      BY <2>4, <2>6
    <3> HIDE DEF Rm, Dm
    <3>2. PendingAt(m)' = PendingAt(m) /\ FailedAt(m)' = FailedAt(m)
      BY <2>2, <2>3, <3>1
    <3> QED
      BY <1>1, <2>1, <2>5, <2>6, <3>2 DEF InOnePlace
  <2>7. ASSUME NEW i, OpenAt(m) = {i} PROVE InOnePlace(m)'
    <3>1. m \notin confirmed /\ PendingAt(m) = {} /\ FailedAt(m) = {}
      BY <2>5, <2>7 DEF InOnePlace
    <3>2. i \in Unanswered /\ annotations_[i].original_index = m
      BY <2>7 DEF OpenAt, Unanswered
    <3>3. CASE i \in R
      <4>1. PICK k \in 1..q : \A j \in 1..q : retry[j] = i <=> j = k
        BY <1>5, <3>3
      <4>2. Rm = {k}
        BY <2>4, <2>7, <3>2, <4>1
      <4>3. Dm = {}
        BY <1>4, <2>4, <2>7, <3>3
      <4> HIDE DEF Rm, Dm
      <4>4. PendingAt(m)' = {p + k} /\ FailedAt(m)' = {}
        BY <2>2, <2>3, <3>1, <4>2, <4>3
      <4> QED
        BY <1>1, <2>1, <3>1, <4>4 DEF InOnePlace, One
    <3>4. CASE i \in D
      <4>1. PICK k \in 1..d : \A j \in 1..d : drop[j] = i <=> j = k
        BY <1>5, <3>4
      <4>2. Dm = {k}
        BY <2>4, <2>7, <3>2, <4>1
      <4>3. Rm = {}
        BY <1>4, <2>4, <2>7, <3>4
      <4> HIDE DEF Rm, Dm
      <4>4. PendingAt(m)' = {} /\ FailedAt(m)' = {f + k}
        BY <2>2, <2>3, <3>1, <4>2, <4>3
      <4> QED
        BY <1>1, <2>1, <3>1, <4>4 DEF InOnePlace, One
    <3> QED
      BY <1>4, <3>2, <3>3, <3>4
  <2>8. OpenAt(m) = {} \/ One(OpenAt(m))
    BY <2>5 DEF InOnePlace
  <2> QED
    BY <2>6, <2>7, <2>8 DEF One
<1> QED
  BY <1>1, <1>11, <1>12, <1>13, <1>14, <1>15 DEF BulkInv, PlaceInv, OkInv

(* The policies decide, or the call is cancelled.                          *)
LEMMA DecideKeepsInv ==
  ASSUME BulkInv, pc \in {"loop", "decide"}, pc' \in {"loop", "extract"},
         UNCHANGED <<mode, requestVars, pendingVars, failures_, result, historyVars>>
  PROVE  BulkInv'
<1>1. /\ BulkTypeOK /\ ArraysInv /\ IndexInv /\ SentInv /\ PlaceInv
      /\ UNCHANGED <<mode, mutations_, annotations_, pending_mutations_,
                     pending_annotations_, failures_, result, confirmed, sent>>
  BY DEF BulkInv, requestVars, pendingVars, historyVars
<1>2. ASSUME NEW m \in Mutation PROVE InOnePlace(m)'
  <2>1. /\ OpenAt(m)' = OpenAt(m) /\ PendingAt(m)' = PendingAt(m)
        /\ FailedAt(m)' = FailedAt(m)
    BY <1>1 DEF OpenAt, PendingAt, FailedAt
  <2>2. InOnePlace(m)
    BY <1>1 DEF PlaceInv
  <2> QED
    BY <1>1, <2>1, <2>2 DEF InOnePlace
<1>3. PlaceInv' /\ OkInv'
  BY <1>2 DEF PlaceInv, OkInv
<1>4. BulkTypeOK'
  BY <1>1 DEF BulkTypeOK
<1>5. ArraysInv' /\ IndexInv' /\ SentInv'
  BY <1>1 DEF ArraysInv, IndexInv, SentInv
<1> QED
  BY <1>3, <1>4, <1>5 DEF BulkInv

(* The call ends: what is pending is reported with the failures.           *)
LEMMA ExtractKeepsInv ==
  ASSUME BulkInv, ExtractFinalFailures
  PROVE  BulkInv'
<1>1. /\ pc = "extract" /\ pc' = "returned" /\ BulkTypeOK /\ ArraysInv /\ IndexInv
      /\ SentInv /\ PlaceInv
      /\ UNCHANGED <<mode, mutations_, annotations_, pending_annotations_, confirmed, sent>>
      /\ failures_' = <<>> /\ result' = FinalFailures /\ status' = FinalStatus(result')
      /\ pending_mutations_' = [k \in DOMAIN pending_mutations_ |-> Moved]
  BY DEF BulkInv, ExtractFinalFailures, requestVars, historyVars
<1>p. PICK p \in Nat, f \in Nat : p = Len(pending_mutations_) /\ f = Len(failures_)
  BY <1>1 DEF BulkTypeOK
<1>2. /\ DOMAIN pending_mutations_ = 1..p /\ DOMAIN pending_annotations_ = 1..p
      /\ Len(pending_annotations_) = p /\ DOMAIN failures_ = 1..f
  BY <1>1, <1>p DEF BulkTypeOK
<1>3. \A k \in 1..p : pending_mutations_[k] \in Mutation
  <2>1. \A k \in 1..p : pending_annotations_[k] \in Annotations
    BY <1>1, <1>2 DEF BulkTypeOK
  <2> QED
    BY <1>1, <1>2, <2>1 DEF ArraysInv, Annotations
<1>t. PICK t : t = [k \in 1..p |-> Failed(pending_mutations_[k], "OK", -1)]
  OBVIOUS
<1>4. ASSUME NEW k \in 1..p
      PROVE  /\ t[k] \in FailedMutations /\ t[k].status = "OK"
             /\ t[k].mutation = pending_mutations_[k]
  <2>1. t[k] = Failed(pending_mutations_[k], "OK", -1)
    BY <1>t
  <2> QED
    BY <1>3, <2>1 DEF Failed, FailedMutations
<1>5. t \in Seq(FailedMutations) /\ Len(t) = p
  BY <1>4, <1>t
<1>6. result' = failures_ \o t /\ failures_ \in Seq(FailedMutations)
  BY <1>1, <1>2, <1>t DEF FinalFailures, BulkTypeOK
<1>7. result' \in Seq(FailedMutations) /\ Grown(result', failures_, t)
  BY <1>5, <1>6, Concatenation
<1>8. /\ DOMAIN result' = 1..(f + p)
      /\ \A i \in 1..f : result'[i] = failures_[i]
      /\ \A k \in 1..p : /\ result'[f + k].mutation = pending_mutations_[k]
                         /\ result'[f + k].status = "OK"
  BY <1>p, <1>4, <1>5, <1>7 DEF Grown
<1>9. pending_mutations_' \in Seq(0..N) /\ Len(pending_mutations_') = p
  <2>1. Moved \in 0..N
    BY BulkAssumption DEF Moved
  <2>2. pending_mutations_' = [k \in 1..p |-> Moved]
    BY <1>1, <1>2
  <2> QED
    BY <2>1, <2>2
<1>10. BulkTypeOK'
  <2>1. failures_' \in Seq(FailedMutations)
    BY <1>1
  <2> QED
    BY <1>1, <1>2, <1>7, <1>9, <2>1 DEF BulkTypeOK
<1>11. ArraysInv' /\ SentInv'
  BY <1>1 DEF ArraysInv, SentInv
<1>12. IndexInv'
  <2>1. ASSUME NEW i \in 1..(f + p), result'[i].status # "OK"
        PROVE  result'[i].original_index = result'[i].mutation
    <3>1. i \in 1..f
      BY <1>8, <2>1, Positions
    <3> QED
      BY <1>1, <1>2, <1>8, <2>1, <3>1 DEF IndexInv
  <2>2. \A k \in DOMAIN failures_' :
          failures_'[k].status # "OK" => failures_'[k].original_index = failures_'[k].mutation
    BY <1>1
  <2> QED
    BY <1>8, <2>1, <2>2 DEF IndexInv
<1>13. ASSUME NEW m \in Mutation PROVE InOneResult(m)'
  <2>1. ResultAt(m)' = FailedAt(m) \cup {f + k : k \in PendingAt(m)}
    <3>1. ASSUME NEW i \in ResultAt(m)'
          PROVE  i \in FailedAt(m) \cup {f + k : k \in PendingAt(m)}
      <4>1. i \in 1..(f + p) /\ result'[i].mutation = m
        BY <1>8 DEF ResultAt
      <4>2. CASE i \in 1..f
        BY <1>2, <1>8, <4>1, <4>2 DEF FailedAt
      <4>3. CASE \E k \in 1..p : i = f + k
        <5>1. PICK k \in 1..p : i = f + k
          BY <4>3
        <5>2. k \in PendingAt(m)
          BY <1>2, <1>8, <4>1, <5>1 DEF PendingAt
        <5> QED
          BY <5>1, <5>2
      <4> QED
        BY <4>1, <4>2, <4>3, Positions
    <3>2. ASSUME NEW i \in FailedAt(m) PROVE i \in ResultAt(m)'
      BY <1>2, <1>8 DEF FailedAt, ResultAt
    <3>3. ASSUME NEW k \in PendingAt(m) PROVE f + k \in ResultAt(m)'
      <4>1. k \in 1..p /\ pending_mutations_[k] = m
        BY <1>2 DEF PendingAt
      <4>2. f + k \in 1..(f + p)
        BY <4>1
      <4> QED
        BY <1>8, <4>1, <4>2 DEF ResultAt
    <3> QED
      BY <3>1, <3>2, <3>3
  <2>2. InOnePlace(m) /\ OpenAt(m) = {}
    BY <1>1 DEF PlaceInv, OpenAt
  <2>3. CASE PendingAt(m) = {}
    <3>1. ResultAt(m)' = FailedAt(m)
      BY <2>1, <2>3
    <3> QED
      BY <1>1, <2>2, <2>3, <3>1 DEF InOnePlace, InOneResult, One
  <2>4. CASE PendingAt(m) # {}
    <3>1. One(PendingAt(m)) /\ FailedAt(m) = {} /\ m \notin confirmed
      BY <2>2, <2>4 DEF InOnePlace, One
    <3>2. PICK k : PendingAt(m) = {k}
      BY <3>1 DEF One
    <3>3. ResultAt(m)' = {f + k}
      BY <2>1, <3>1, <3>2
    <3> QED
      BY <1>1, <3>1, <3>3 DEF InOneResult, One
  <2> QED
    BY <2>3, <2>4
<1>14. PlaceInv'
  BY <1>1, <1>13 DEF PlaceInv
<1>15. OkInv'
  BY <1>1 DEF OkInv, FinalStatus
<1> QED
  BY <1>1, <1>10, <1>11, <1>12, <1>14, <1>15 DEF BulkInv

(* Every step of a bulk mutation.                                          *)
LEMMA BulkStep ==
  ASSUME BulkInv, [Next]_vars
  PROVE  BulkInv' /\ (pc' = "unused" <=> pc = "unused")
<1>1. CASE UNCHANGED vars
  <2>1. UNCHANGED <<mode, mutations_, annotations_, pending_mutations_, pc, status,
                    pending_annotations_, failures_, result, confirmed, sent>>
    BY <1>1 DEF vars, requestVars, pendingVars, historyVars
  <2>2. \A m \in Mutation :
          /\ OpenAt(m)' = OpenAt(m) /\ PendingAt(m)' = PendingAt(m)
          /\ FailedAt(m)' = FailedAt(m) /\ ResultAt(m)' = ResultAt(m)
    BY <2>1 DEF OpenAt, PendingAt, FailedAt, ResultAt
  <2>3. \A m \in Mutation : (InOnePlace(m) => InOnePlace(m)') /\ (InOneResult(m) => InOneResult(m)')
    BY <2>1, <2>2 DEF InOnePlace, InOneResult
  <2>4. PlaceInv => PlaceInv'
    BY <2>1, <2>3 DEF PlaceInv
  <2>5. BulkTypeOK => BulkTypeOK'
    BY <2>1 DEF BulkTypeOK
  <2>6. (ArraysInv => ArraysInv') /\ (IndexInv => IndexInv') /\ (SentInv => SentInv') /\ (OkInv => OkInv')
    BY <2>1 DEF ArraysInv, IndexInv, SentInv, OkInv
  <2> QED
    BY <2>1, <2>4, <2>5, <2>6 DEF BulkInv
<1>2. CASE PrepareForRequest
  BY <1>2, PrepareKeepsInv DEF PrepareForRequest
<1>3. ASSUME NEW index \in 1..(N + 1), NEW code \in {"OK", "TRANSIENT", "PERMANENT"},
             ProcessResponse(index, code)
      PROVE  BulkInv' /\ (pc' = "unused" <=> pc = "unused")
  BY <1>3, ResponseKeepsInv DEF ProcessResponse
<1>4. ASSUME NEW st, FinishRequest(st)
      PROVE  BulkInv' /\ (pc' = "unused" <=> pc = "unused")
  BY <1>4, FinishKeepsInv DEF FinishRequest
<1>5. CASE SyncDecide \/ AsyncDecide \/ Cancel
  <2>1. /\ pc \in {"loop", "decide"} /\ pc' \in {"loop", "extract"}
        /\ UNCHANGED <<mode, requestVars, pendingVars, failures_, result, historyVars>>
    BY <1>5 DEF SyncDecide, AsyncDecide, Cancel
  <2> QED
    BY <2>1, DecideKeepsInv
<1>6. CASE ExtractFinalFailures
  BY <1>6, ExtractKeepsInv DEF ExtractFinalFailures
<1> QED
  BY <1>1, <1>2, <1>3, <1>4, <1>5, <1>6 DEF Next, Step, Terminated

-----------------------------------------------------------------------------
(* ChannelPool.  Since the connections exist, those before the current     *)
(* index have been used once more than the others.                         *)

PoolInv ==
  /\ stubs_ = <<>> => uses = NoUses
  /\ stubs_ # <<>> =>
       /\ stubs_ = channels_ /\ Len(stubs_) = ConnectionPoolSize
       /\ current_index_ \in 0..(ConnectionPoolSize - 1)
       /\ uses = [i \in 1..ConnectionPoolSize |-> IF i <= current_index_ THEN 1 ELSE 0]

(* A connection is used.                                                   *)
LEMMA UseInTurn ==
  ASSUME NEW stubs, Len(stubs) = ConnectionPoolSize, stubs # <<>>,
         NEW index \in 0..(ConnectionPoolSize - 1),
         uses = [i \in 1..ConnectionPoolSize |-> IF i <= index THEN 1 ELSE 0],
         channels_' = stubs, Use(stubs, index)
  PROVE  PoolInv'
<1> USE PoolAssumption
<1> DEFINE size == ConnectionPoolSize
           now == [uses EXCEPT ![index + 1] = @ + 1]
<1>1. now = [i \in 1..size |-> IF i <= index + 1 THEN 1 ELSE 0]
  <2>1. index + 1 \in 1..size
    OBVIOUS
  <2>2. \A i \in 1..size : i # index + 1 => (i <= index <=> i <= index + 1)
    OBVIOUS
  <2>3. uses[index + 1] + 1 = 1
    BY <2>1
  <2> QED
    BY <2>1, <2>2, <2>3
<1>2. /\ stubs_' = stubs /\ current_index_' = Following(index, size)
      /\ uses' = IF \A i \in DOMAIN now : now[i] > 0
                 THEN [i \in DOMAIN now |-> now[i] - 1] ELSE now
  BY DEF Use
<1> HIDE DEF now
<1>3. CASE index + 1 >= size
  <2>1. current_index_' = 0 /\ \A i \in 1..size : now[i] = 1
    BY <1>1, <1>2, <1>3 DEF Following
  <2>2. DOMAIN now = 1..size
    BY <1>1
  <2>3. uses' = [i \in 1..size |-> now[i] - 1]
    BY <1>2, <2>1, <2>2
  <2>4. uses' = [i \in 1..size |-> IF i <= 0 THEN 1 ELSE 0]
    BY <2>1, <2>3
  <2> QED
    BY <1>2, <2>1, <2>4 DEF PoolInv
<1>4. CASE index + 1 < size
  <2>1. current_index_' = index + 1
    BY <1>2, <1>4 DEF Following
  <2>2. size \in DOMAIN now /\ now[size] = 0
    BY <1>1, <1>4
  <2>3. uses' = now
    BY <1>2, <2>2
  <2> QED
    BY <1>1, <1>2, <1>4, <2>1, <2>3, SMTT(40) DEF PoolInv
<1> QED
  BY <1>3, <1>4

LEMMA StubKeepsInv ==
  ASSUME PoolInv, NEW t, Stub(t)
  PROVE  PoolInv'
<1> DEFINE created == CreateChannelPool(t)
<1>1. CASE t \in creating /\ ~KeepInstalled(t)
  <2>1. stubs_ = <<>> /\ uses = NoUses /\ channels_' = created /\ Use(created, 0)
    BY <1>1 DEF Stub, KeepInstalled, PoolInv
  <2>2. Len(created) = ConnectionPoolSize /\ created # <<>>
    BY PoolAssumption DEF CreateChannelPool
  <2>3. uses = [i \in 1..ConnectionPoolSize |-> IF i <= 0 THEN 1 ELSE 0]
    BY <2>1 DEF NoUses
  <2> HIDE DEF created
  <2>4. 0 \in 0..(ConnectionPoolSize - 1)
    BY PoolAssumption
  <2> QED
    BY <2>1, <2>2, <2>3, <2>4, UseInTurn
<1>2. CASE ~(t \in creating /\ ~KeepInstalled(t))
  <2>1. stubs_ # <<>> /\ channels_' = channels_ /\ Use(stubs_, current_index_)
    BY <1>2 DEF Stub, KeepInstalled
  <2> QED
    BY <2>1, UseInTurn DEF PoolInv
<1> QED
  BY <1>1, <1>2

-----------------------------------------------------------------------------
(* The calls on a single row, and SampleRows().                            *)

Statuses == {"OK", "TRANSIENT", "PERMANENT", "CANCELLED", "INTERNAL"}

CallRequests ==
  [op : {"none", "Apply", "CheckAndMutateRow", "ReadModifyWriteRow", "SampleRows"},
   style : {"sync", "async"}, retried : BOOLEAN, repeatable : BOOLEAN]

Calls ==
  [pc : {"idle", "ready", "inflight", "answered", "returned"}, request : CallRequests,
   failures : Nat, status : Statuses, cancelled : BOOLEAN, matched : BOOLEAN,
   read : 0..Samples, samples : Seq(Nat), executed : Seq(BOOLEAN)]

(* What is not repeatable is not retried; what is not retried has not been *)
(* carried out before it is answered.                                      *)
OnceInv(p, k) ==
  /\ p = "safe" /\ ~k.request.repeatable => ~k.request.retried
  /\ ~k.request.retried =>
       /\ Len(k.executed) <= 1
       /\ k.pc \in {"idle", "ready", "inflight"} => k.executed = <<>>

(* The last time the server carried it out is the one that was answered.   *)
AnswerInv(k) ==
  k.request.op # "SampleRows" /\ k.pc \in {"answered", "returned"} /\ k.status = "OK" =>
    k.executed # <<>> /\ k.executed[Len(k.executed)] = k.matched

(* The samples are those of one attempt.                                   *)
FirstSamples(k, n) == Len(k.samples) = n /\ \A i \in 1..n : k.samples[i] = i

SamplesInv(k) ==
  k.request.op = "SampleRows" =>
    /\ k.pc = "ready" => k.samples = <<>>
    /\ k.pc = "inflight" => FirstSamples(k, k.read)
    /\ k.pc = "answered" /\ k.request.style = "async" /\ k.status # "OK" => k.samples = <<>>
    /\ k.pc \in {"answered", "returned"} /\ k.status = "OK" => FirstSamples(k, Samples)

GoodCall(p, k) == k \in Calls /\ OnceInv(p, k) /\ AnswerInv(k) /\ SamplesInv(k)

CallsInv ==
  /\ policy \in {"safe", "always"}
  /\ DOMAIN call = Thread /\ call = [c \in Thread |-> call[c]]
  /\ \A c \in Thread : GoodCall(policy, call[c])

(* The test-and-set: who has passed the test.                              *)
Passed(k) == k.request.op = "CheckAndMutateRow" /\ k.matched

MatchInv ==
  /\ row \in BOOLEAN
  /\ row => \A c \in Thread : ~Passed(call[c])
  /\ \A c, d \in Thread : Passed(call[c]) /\ Passed(call[d]) => c = d

DataInv == BulkInv /\ PoolInv /\ CallsInv /\ MatchInv

(* With SafeIdempotentMutationPolicy a request is retried only if it is    *)
(* repeatable.                                                             *)
LEMMA RequestFacts ==
  ASSUME NEW p \in {"safe", "always"}, NEW r \in Requests(p)
  PROVE  /\ r \in CallRequests
         /\ p = "safe" /\ ~r.repeatable => ~r.retried
<1>1. ASSUME NEW ms, SetCell \in ms, p = "safe"
      PROVE  ~(\A m \in ms : MutationIsIdempotent(p, m))
  BY <1>1 DEF MutationIsIdempotent, SetCell, ServerSetTimestamp
<1>2. CASE r \in ApplyRequests(p)
  <2> DEFINE Q(style) ==
        {Request("Apply", style, \A m \in ms : MutationIsIdempotent(p, m), SetCell \notin ms) :
           ms \in SingleRowMutation}
  <2>s. r \in Q("sync") \/ r \in Q("async")
    BY <1>2 DEF ApplyRequests, ApplyRetried, AsyncApplyRetried
  <2>t. PICK style \in {"sync", "async"} : r \in Q(style)
    BY <2>s
  <2>1. PICK ms : r = Request("Apply", style, \A m \in ms : MutationIsIdempotent(p, m),
                              SetCell \notin ms)
    BY <2>t
  <2>2. /\ r.op = "Apply" /\ r.style = style
        /\ r.retried = (\A m \in ms : MutationIsIdempotent(p, m))
        /\ r.repeatable = (SetCell \notin ms)
        /\ r = [op |-> r.op, style |-> r.style, retried |-> r.retried, repeatable |-> r.repeatable]
    BY <2>1 DEF Request
  <2>3. r.retried \in BOOLEAN /\ r.repeatable \in BOOLEAN
    BY <2>2
  <2>4. r \in CallRequests
    BY <2>2, <2>3 DEF CallRequests
  <2>5. p = "safe" /\ ~r.repeatable => ~r.retried
    BY <1>1, <2>2
  <2> QED
    BY <2>4, <2>5
<1>3. CASE r \notin ApplyRequests(p)
  <2>1. \/ r = Request("CheckAndMutateRow", "sync", p = "always", FALSE)
        \/ r = Request("CheckAndMutateRow", "async", p = "always", FALSE)
        \/ r = Request("ReadModifyWriteRow", "sync", FALSE, FALSE)
        \/ r = Request("SampleRows", "sync", TRUE, TRUE)
        \/ r = Request("SampleRows", "async", TRUE, TRUE)
    BY <1>3 DEF Requests, CheckAndMutateRowRequests, ReadModifyWriteRowRequests,
         SampleRowsRequests, CheckAndMutateRowRetried, AsyncCheckAndMutateRowRetried,
         RequestIsIdempotent, ReadModifyWriteRowRetried, SampleRowsRetried,
         AsyncSampleRowKeysRetried
  <2>2. (p = "always") \in BOOLEAN
    OBVIOUS
  <2>3. r \in CallRequests
    <3>1. ASSUME NEW op \in {"CheckAndMutateRow", "ReadModifyWriteRow", "SampleRows"},
                 NEW style \in {"sync", "async"}, NEW retried \in BOOLEAN,
                 NEW repeatable \in BOOLEAN
          PROVE  Request(op, style, retried, repeatable) \in CallRequests
      BY DEF Request, CallRequests
    <3> QED
      BY <2>1, <2>2, <3>1
  <2>4. r.repeatable \/ r.retried = (p = "always") \/ r.retried = FALSE
    BY <2>1 DEF Request
  <2>5. p = "safe" /\ ~r.repeatable => ~r.retried
    BY <2>4
  <2> QED
    BY <2>3, <2>5
<1> QED
  BY <1>2, <1>3

LEMMA NoCallGood ==
  ASSUME NEW p \in {"safe", "always"}
  PROVE  GoodCall(p, NoCall) /\ ~Passed(NoCall)
<1>1. NoCall \in Calls
  BY CallAssumption DEF NoCall, Calls, CallRequests, Request, Statuses
<1>2. NoCall.pc = "idle" /\ NoCall.executed = <<>> /\ NoCall.matched = FALSE
      /\ NoCall.request.op = "none" /\ NoCall.request.repeatable = TRUE
  BY DEF NoCall, Request
<1> QED
  BY <1>1, <1>2 DEF GoodCall, OnceInv, AnswerInv, SamplesInv, Passed

(* One call changes, and does not pass the test.                           *)
LEMMA SetKeepsInv ==
  ASSUME CallsInv, MatchInv, NEW c \in Thread, NEW k, GoodCall(policy, k),
         Passed(k) => Passed(call[c]), Set(c, k), policy' = policy, row' = row
  PROVE  CallsInv' /\ MatchInv'
<1>1. call' = [d \in Thread |-> IF d = c THEN k ELSE call[d]]
  BY DEF Set, CallsInv
<1>2. CallsInv'
  BY <1>1 DEF CallsInv
<1>3. \A d \in Thread : Passed(call'[d]) => Passed(call[d])
  BY <1>1
<1> QED
  BY <1>2, <1>3 DEF MatchInv

(* The parts of GoodCall, one by one.                                      *)
LEMMA CallFields ==
  ASSUME NEW p, NEW k, GoodCall(p, k)
  PROVE  /\ k \in Calls /\ OnceInv(p, k) /\ AnswerInv(k) /\ SamplesInv(k)
         /\ k.pc \in {"idle", "ready", "inflight", "answered", "returned"}
         /\ k.request \in CallRequests /\ k.failures \in Nat /\ k.status \in Statuses
         /\ k.cancelled \in BOOLEAN /\ k.matched \in BOOLEAN /\ k.read \in 0..Samples
         /\ k.samples \in Seq(Nat) /\ k.executed \in Seq(BOOLEAN)
<1>1. k \in Calls /\ OnceInv(p, k) /\ AnswerInv(k) /\ SamplesInv(k)
  BY DEF GoodCall
<1>2. /\ k.pc \in {"idle", "ready", "inflight", "answered", "returned"}
      /\ k.request \in CallRequests /\ k.failures \in Nat /\ k.status \in Statuses
      /\ k.cancelled \in BOOLEAN
  BY <1>1 DEF Calls
<1>3. /\ k.matched \in BOOLEAN /\ k.read \in 0..Samples
      /\ k.samples \in Seq(Nat) /\ k.executed \in Seq(BOOLEAN)
  BY <1>1 DEF Calls
<1> QED
  BY <1>1, <1>2, <1>3

(* StartCall.                                                              *)
LEMMA StartGood ==
  ASSUME NEW p \in {"safe", "always"}, NEW r \in Requests(p)
  PROVE  LET l == [NoCall EXCEPT !.pc = "ready", !.request = r]
         IN  GoodCall(p, l) /\ ~Passed(l)
<1>l. PICK l : l = [NoCall EXCEPT !.pc = "ready", !.request = r]
  OBVIOUS
<1>1. r \in CallRequests /\ (p = "safe" /\ ~r.repeatable => ~r.retried)
  BY RequestFacts
<1>2. NoCall \in Calls
  BY NoCallGood DEF GoodCall
<1>3. l \in Calls
  BY <1>1, <1>2, <1>l DEF Calls
<1>4. /\ l.pc = "ready" /\ l.request = r /\ l.executed = <<>> /\ l.samples = <<>>
      /\ l.matched = FALSE
  BY <1>l DEF NoCall
<1>5. GoodCall(p, l)
  BY <1>1, <1>3, <1>4 DEF GoodCall, OnceInv, AnswerInv, SamplesInv
<1>6. ~Passed(l)
  BY <1>4 DEF Passed
<1> QED
  BY <1>5, <1>6, <1>l

(* Send.                                                                   *)
LEMMA SendGood ==
  ASSUME NEW p, NEW k, GoodCall(p, k), k.pc = "ready"
  PROVE  LET l == [k EXCEPT !.pc = "inflight", !.read = 0]
         IN  GoodCall(p, l) /\ (Passed(l) => Passed(k))
<1>l. PICK l : l = [k EXCEPT !.pc = "inflight", !.read = 0]
  OBVIOUS
<1>1. k \in Calls /\ OnceInv(p, k) /\ SamplesInv(k)
  BY DEF GoodCall
<1>2. /\ l.pc = "inflight" /\ l.read = 0 /\ l.request = k.request
      /\ l.executed = k.executed /\ l.samples = k.samples /\ l.matched = k.matched
  BY <1>1, <1>l DEF Calls
<1>3. l \in Calls
  <2>1. 0 \in 0..Samples
    BY CallAssumption
  <2> QED
    BY <1>1, <1>l, <2>1 DEF Calls
<1>4. OnceInv(p, l)
  BY <1>1, <1>2 DEF OnceInv
<1>5. AnswerInv(l)
  BY <1>2 DEF AnswerInv
<1>6. SamplesInv(l)
  BY <1>1, <1>2 DEF SamplesInv, FirstSamples
<1>7. Passed(l) => Passed(k)
  BY <1>2 DEF Passed
<1> QED
  BY <1>3, <1>4, <1>5, <1>6, <1>7, <1>l DEF GoodCall

(* Lose.                                                                   *)
LEMMA LoseGood ==
  ASSUME NEW p, NEW k, GoodCall(p, k), k.pc = "inflight", k.request.op # "SampleRows",
         NEW st \in Statuses, st # "OK"
  PROVE  LET l == [k EXCEPT !.pc = "answered", !.status = st]
         IN  GoodCall(p, l) /\ (Passed(l) => Passed(k))
<1>l. PICK l : l = [k EXCEPT !.pc = "answered", !.status = st]
  OBVIOUS
<1>1. k \in Calls /\ OnceInv(p, k)
  BY DEF GoodCall
<1>2. /\ l.pc = "answered" /\ l.status = st /\ l.request = k.request
      /\ l.executed = k.executed /\ l.matched = k.matched
  BY <1>1, <1>l DEF Calls
<1>3. l \in Calls
  BY <1>1, <1>l DEF Calls
<1>4. OnceInv(p, l)
  BY <1>1, <1>2 DEF OnceInv
<1>5. AnswerInv(l) /\ SamplesInv(l)
  BY <1>2 DEF AnswerInv, SamplesInv
<1>6. Passed(l) => Passed(k)
  BY <1>2 DEF Passed
<1> QED
  BY <1>3, <1>4, <1>5, <1>6, <1>l DEF GoodCall

(* Serve: the server carries it out, with the filter matching or not.      *)
Carried(k, st, matches) ==
  [k EXCEPT !.pc = "answered", !.status = st, !.matched = st = "OK" /\ matches,
            !.executed = Append(@, matches)]

LEMMA ServeGood ==
  ASSUME NEW p, NEW k, GoodCall(p, k), k.pc = "inflight", k.request.op # "SampleRows",
         NEW st \in Statuses, NEW matches \in BOOLEAN,
         NEW l, l = Carried(k, st, matches)
  PROVE  GoodCall(p, l) /\ l.request = k.request /\ (l.matched => matches)
<1>1. /\ k \in Calls /\ OnceInv(p, k) /\ k.executed \in Seq(BOOLEAN)
  BY CallFields
<1>m. PICK m \in BOOLEAN, e \in Seq(BOOLEAN) :
        m = (st = "OK" /\ matches) /\ e = Append(k.executed, matches)
  <2>1. Append(k.executed, matches) \in Seq(BOOLEAN)
    BY <1>1
  <2>2. (st = "OK" /\ matches) \in BOOLEAN
    OBVIOUS
  <2> QED
    BY <2>1, <2>2, Zenon
<1>2. l = [k EXCEPT !.pc = "answered", !.status = st, !.matched = m, !.executed = e]
  BY <1>m DEF Carried
<1>3. /\ l.pc = "answered" /\ l.status = st /\ l.request = k.request
      /\ l.matched = m /\ l.executed = e
  BY <1>1, <1>2 DEF Calls
<1>4. l \in Calls
  BY <1>1, <1>2 DEF Calls
<1>5. e # <<>> /\ Len(e) = Len(k.executed) + 1 /\ e[Len(e)] = matches
  BY <1>1, <1>m
<1>6. OnceInv(p, l)
  <2>1. ~k.request.retried => Len(e) <= 1
    BY <1>1, <1>5 DEF OnceInv
  <2> QED
    BY <1>1, <1>3, <2>1 DEF OnceInv
<1>7. AnswerInv(l)
  <2>1. st = "OK" => m = matches
    BY <1>m DEF Carried
  <2> QED
    BY <1>3, <1>5, <2>1 DEF AnswerInv
<1>8. SamplesInv(l) /\ (l.matched => matches)
  BY <1>3, <1>m DEF SamplesInv
<1> QED
  BY <1>3, <1>4, <1>6, <1>7, <1>8 DEF GoodCall

(* ReadSample.                                                             *)
LEMMA ReadGood ==
  ASSUME NEW p, NEW k, GoodCall(p, k), k.pc = "inflight", k.request.op = "SampleRows",
         k.read < Samples
  PROVE  LET l == [k EXCEPT !.read = @ + 1, !.samples = Append(@, k.read + 1)]
         IN  GoodCall(p, l) /\ (Passed(l) => Passed(k))
<1>1. k \in Calls /\ OnceInv(p, k) /\ SamplesInv(k) /\ k.read \in 0..Samples /\ k.samples \in Seq(Nat)
  BY CallFields
<1>n. PICK n \in 0..Samples, s \in Seq(Nat) : n = k.read + 1 /\ s = Append(k.samples, k.read + 1)
  <2>1. k.read + 1 \in 0..Samples
    BY <1>1, CallAssumption
  <2>2. k.read + 1 \in Nat
    BY <1>1, CallAssumption
  <2>3. Append(k.samples, k.read + 1) \in Seq(Nat)
    BY <1>1, <2>2
  <2> QED
    BY <2>1, <2>3, Zenon
<1>l. PICK l : l = [k EXCEPT !.read = n, !.samples = s]
  OBVIOUS
<1>2. l = [k EXCEPT !.read = @ + 1, !.samples = Append(@, k.read + 1)]
  BY <1>l, <1>n
<1>3. /\ l.pc = "inflight" /\ l.read = n /\ l.samples = s /\ l.request = k.request
      /\ l.executed = k.executed /\ l.matched = k.matched
  BY <1>1, <1>l DEF Calls
<1>4. l \in Calls
  BY <1>1, <1>l DEF Calls
<1>5. OnceInv(p, l)
  BY <1>1, <1>3 DEF OnceInv
<1>6. AnswerInv(l)
  BY <1>3 DEF AnswerInv
<1>7. Len(s) = n /\ \A i \in 1..n : s[i] = i
  <2>1. Len(k.samples) = k.read /\ \A i \in 1..k.read : k.samples[i] = i
    BY <1>1 DEF SamplesInv, FirstSamples
  <2> QED
    BY <1>1, <1>n, <2>1, CallAssumption
<1>8. SamplesInv(l)
  BY <1>3, <1>7 DEF SamplesInv, FirstSamples
<1>9. Passed(l) => Passed(k)
  BY <1>3 DEF Passed
<1> QED
  BY <1>2, <1>4, <1>5, <1>6, <1>8, <1>9 DEF GoodCall

(* FinishStream.                                                           *)
LEMMA FinishGood ==
  ASSUME NEW p, NEW k, GoodCall(p, k), k.pc = "inflight", k.request.op = "SampleRows",
         NEW st \in Statuses, st = "OK" => k.read = Samples
  PROVE  LET l == [k EXCEPT !.pc = "answered", !.status = st,
                     !.samples = ForgetSamples(k, st)]
         IN  GoodCall(p, l) /\ (Passed(l) => Passed(k))
<1>1. k \in Calls /\ OnceInv(p, k) /\ SamplesInv(k) /\ k.samples \in Seq(Nat)
  BY CallFields
<1>s. PICK s \in Seq(Nat) :
        /\ s = ForgetSamples(k, st)
        /\ k.request.style = "async" /\ st # "OK" => s = <<>>
        /\ st = "OK" => s = k.samples
  <2>1. ForgetSamples(k, st) \in Seq(Nat)
    BY <1>1 DEF ForgetSamples
  <2>2. /\ k.request.style = "async" /\ st # "OK" => ForgetSamples(k, st) = <<>>
        /\ st = "OK" => ForgetSamples(k, st) = k.samples
    BY DEF ForgetSamples
  <2> QED
    BY <2>1, <2>2, Zenon
<1>l. PICK l : l = [k EXCEPT !.pc = "answered", !.status = st, !.samples = s]
  OBVIOUS
<1>2. /\ l.pc = "answered" /\ l.status = st /\ l.samples = s /\ l.request = k.request
      /\ l.executed = k.executed /\ l.matched = k.matched
  BY <1>1, <1>l DEF Calls
<1>3. l \in Calls
  BY <1>1, <1>l DEF Calls
<1>4. OnceInv(p, l) /\ AnswerInv(l)
  BY <1>1, <1>2 DEF OnceInv, AnswerInv
<1>5. SamplesInv(l)
  BY <1>1, <1>2, <1>s DEF SamplesInv, FirstSamples
<1>6. Passed(l) => Passed(k)
  BY <1>2 DEF Passed
<1> QED
  BY <1>3, <1>4, <1>5, <1>6, <1>l, <1>s DEF GoodCall

(* Return: the call ends with OK only if the last attempt did.             *)
LEMMA ReturnGood ==
  ASSUME NEW p, NEW k, GoodCall(p, k), k.pc # "idle", NEW st \in Statuses,
         st = "OK" => k.pc = "answered" /\ k.status = "OK"
  PROVE  GoodCall(p, Return(k, st)) /\ (Passed(Return(k, st)) => Passed(k))
<1>l. PICK l : l = Return(k, st)
  OBVIOUS
<1>1. k \in Calls /\ OnceInv(p, k) /\ AnswerInv(k) /\ SamplesInv(k)
  BY DEF GoodCall
<1>2. /\ l.pc = "returned" /\ l.status = st /\ l.samples = k.samples
      /\ l.request = k.request /\ l.executed = k.executed /\ l.matched = k.matched
  BY <1>1, <1>l DEF Calls, Return
<1>3. l \in Calls
  <2>1. 0 \in 0..Samples
    BY CallAssumption
  <2> QED
    BY <1>1, <1>l, <2>1 DEF Calls, Return
<1>4. OnceInv(p, l)
  BY <1>1, <1>2 DEF OnceInv
<1>5. AnswerInv(l)
  BY <1>1, <1>2 DEF AnswerInv
<1>6. SamplesInv(l)
  BY <1>1, <1>2 DEF SamplesInv, FirstSamples
<1>7. Passed(l) => Passed(k)
  BY <1>2 DEF Passed
<1> QED
  BY <1>3, <1>4, <1>5, <1>6, <1>7, <1>l DEF GoodCall

(* Another attempt: with the samples forgotten, now or already.            *)
LEMMA AgainGood ==
  ASSUME NEW p, NEW k, GoodCall(p, k), k.pc = "answered", MayGoOn(k),
         NEW s, s = <<>> \/ (s = k.samples /\ k.request.style = "async")
  PROVE  LET l == [k EXCEPT !.pc = "ready", !.failures = @ + 1, !.samples = s]
         IN  GoodCall(p, l) /\ (Passed(l) => Passed(k))
<1>1. k \in Calls /\ OnceInv(p, k) /\ SamplesInv(k) /\ k.samples \in Seq(Nat) /\ k.failures \in Nat
  BY CallFields
<1>n. PICK n \in Nat : n = k.failures + 1
  BY <1>1
<1>l. PICK l : l = [k EXCEPT !.pc = "ready", !.failures = n, !.samples = s]
  OBVIOUS
<1>2. l = [k EXCEPT !.pc = "ready", !.failures = @ + 1, !.samples = s]
  BY <1>l, <1>n
<1>3. /\ l.pc = "ready" /\ l.samples = s /\ l.request = k.request
      /\ l.executed = k.executed /\ l.matched = k.matched
  BY <1>1, <1>l DEF Calls
<1>4. l \in Calls
  <2>1. s \in Seq(Nat)
    <3>1. <<>> \in Seq(Nat)
      OBVIOUS
    <3> QED
      BY <1>1, <3>1, Zenon
  <2> QED
    BY <1>1, <1>l, <2>1 DEF Calls
<1>5. k.request.retried /\ k.status = "TRANSIENT"
  BY DEF MayGoOn
<1>6. OnceInv(p, l)
  BY <1>1, <1>3, <1>5 DEF OnceInv
<1>7. AnswerInv(l)
  BY <1>3 DEF AnswerInv
<1>8. SamplesInv(l)
  BY <1>1, <1>3, <1>5 DEF SamplesInv
<1>9. Passed(l) => Passed(k)
  BY <1>3 DEF Passed
<1> QED
  BY <1>2, <1>4, <1>6, <1>7, <1>8, <1>9 DEF GoodCall

(* CancelCall.                                                             *)
LEMMA CancelGood ==
  ASSUME NEW p, NEW k, GoodCall(p, k)
  PROVE  LET l == [k EXCEPT !.cancelled = TRUE]
         IN  GoodCall(p, l) /\ (Passed(l) => Passed(k))
<1>l. PICK l : l = [k EXCEPT !.cancelled = TRUE]
  OBVIOUS
<1>1. k \in Calls /\ OnceInv(p, k) /\ AnswerInv(k) /\ SamplesInv(k)
  BY DEF GoodCall
<1>2. /\ l.pc = k.pc /\ l.status = k.status /\ l.samples = k.samples /\ l.read = k.read
      /\ l.request = k.request /\ l.executed = k.executed /\ l.matched = k.matched
  BY <1>1, <1>l DEF Calls
<1>3. l \in Calls
  BY <1>1, <1>l DEF Calls
<1>4. OnceInv(p, l)
  BY <1>1, <1>2 DEF OnceInv
<1>5. AnswerInv(l)
  BY <1>1, <1>2 DEF AnswerInv
<1>6. SamplesInv(l)
  BY <1>1, <1>2 DEF SamplesInv, FirstSamples
<1>7. Passed(l) => Passed(k)
  BY <1>2 DEF Passed
<1> QED
  BY <1>3, <1>4, <1>5, <1>6, <1>7, <1>l DEF GoodCall

(* A step that leaves the bulk mutation alone.                             *)
LEMMA BulkUnchanged ==
  ASSUME BulkInv, UNCHANGED vars
  PROVE  BulkInv'
BY BulkStep

LEMMA PoolUnchanged ==
  ASSUME PoolInv, UNCHANGED <<stubs_, channels_, current_index_, uses>>
  PROVE  PoolInv'
BY DEF PoolInv

LEMMA CallsUnchanged ==
  ASSUME CallsInv, MatchInv, UNCHANGED callVars
  PROVE  CallsInv' /\ MatchInv'
BY DEF CallsInv, MatchInv, callVars

(* The steps of a call that use no connection.                             *)
LEMMA CallStep ==
  ASSUME CallsInv, MatchInv, NEW c \in Thread,
         \/ StartCall(c) \/ Lose(c) \/ Serve(c) \/ ReadSample(c) \/ FinishStream(c)
         \/ SyncAnswered(c) \/ AsyncAnswered(c) \/ CancelCall(c) \/ OnTimerCancelled(c)
  PROVE  CallsInv' /\ MatchInv'
<1> DEFINE k == call[c]
<1>1. GoodCall(policy, k) /\ policy \in {"safe", "always"}
  BY DEF CallsInv
<1>2. k.status \in Statuses
  BY <1>1, CallFields
<1>3. Failures(c) \subseteq Statuses \ {"OK"}
  BY DEF Failures, Statuses
<1>4. CASE StartCall(c)
  <2>1. PICK r \in Requests(policy) : Set(c, [NoCall EXCEPT !.pc = "ready", !.request = r])
    BY <1>4 DEF StartCall
  <2>2. policy' = policy /\ row' = row
    BY <1>4 DEF StartCall
  <2> QED
    BY <1>1, <2>1, <2>2, StartGood, SetKeepsInv
<1>5. CASE Lose(c)
  <2>1. PICK st \in Failures(c) : Set(c, [k EXCEPT !.pc = "answered", !.status = st])
    BY <1>5 DEF Lose
  <2>2. k.pc = "inflight" /\ k.request.op # "SampleRows" /\ policy' = policy /\ row' = row
    BY <1>5 DEF Lose, Unary, Op
  <2> HIDE DEF k
  <2>3. st \in Statuses /\ st # "OK"
    BY <1>3, <2>1
  <2>4. PICK l : l = [k EXCEPT !.pc = "answered", !.status = st]
    OBVIOUS
  <2>5. GoodCall(policy, l) /\ (Passed(l) => Passed(k))
    BY <1>1, <2>2, <2>3, <2>4, LoseGood
  <2> QED
    BY <2>1, <2>2, <2>4, <2>5, SetKeepsInv DEF k
<1>6. CASE Serve(c)
  <2>1. PICK st \in {"OK"} \cup (Failures(c) \ {"PERMANENT"}) :
          Set(c, [k EXCEPT !.pc = "answered", !.status = st,
                    !.matched = st = "OK" /\ row, !.executed = Append(@, row)])
    BY <1>6 DEF Serve
  <2>2. /\ k.pc = "inflight" /\ k.request.op # "SampleRows" /\ policy' = policy
        /\ row' = (row /\ k.request.op # "CheckAndMutateRow")
    BY <1>6 DEF Serve, Unary, Op
  <2> HIDE DEF k
  <2>3. st \in Statuses
    BY <1>3, <2>1 DEF Statuses
  <2>4. row \in BOOLEAN
    BY DEF MatchInv
  <2>5. PICK l : l = [k EXCEPT !.pc = "answered", !.status = st,
                        !.matched = st = "OK" /\ row, !.executed = Append(@, row)]
    OBVIOUS
  <2>6. GoodCall(policy, l) /\ l.request = k.request /\ (l.matched => row)
    <3>1. PICK b \in BOOLEAN : b = row
      BY <2>4
    <3>2. l = Carried(k, st, b)
      BY <2>5, <3>1 DEF Carried
    <3>3. GoodCall(policy, l) /\ l.request = k.request /\ (l.matched => b)
      BY <1>1, <2>2, <2>3, <3>2, ServeGood
    <3> QED
      BY <3>1, <3>3
  <2>7. call' = [d \in Thread |-> IF d = c THEN l ELSE call[d]]
    BY <2>1, <2>5 DEF Set, CallsInv, k
  <2>8. CallsInv'
    BY <2>2, <2>6, <2>7 DEF CallsInv
  <2>9. Passed(l) => row /\ ~row'
    BY <2>2, <2>6 DEF Passed
  <2>10. row' \in BOOLEAN /\ (row' => row)
    BY <2>2, <2>4
  <2>11. row' => \A d \in Thread : ~Passed(call'[d])
    BY <2>7, <2>9, <2>10 DEF MatchInv
  <2>12. \A d, e \in Thread : Passed(call'[d]) /\ Passed(call'[e]) => d = e
    BY <2>7, <2>9 DEF MatchInv
  <2> QED
    BY <2>8, <2>10, <2>11, <2>12 DEF MatchInv
<1>7. CASE ReadSample(c)
  <2>1. /\ k.pc = "inflight" /\ k.request.op = "SampleRows" /\ k.read < Samples
        /\ Set(c, [k EXCEPT !.read = @ + 1, !.samples = Append(@, k.read + 1)])
        /\ policy' = policy /\ row' = row
    BY <1>7 DEF ReadSample, Op
  <2> HIDE DEF k
  <2>2. PICK l : l = [k EXCEPT !.read = @ + 1, !.samples = Append(@, k.read + 1)]
    OBVIOUS
  <2>3. GoodCall(policy, l) /\ (Passed(l) => Passed(k))
    BY <1>1, <2>1, <2>2, ReadGood
  <2> QED
    BY <2>1, <2>2, <2>3, SetKeepsInv DEF k
<1>8. CASE FinishStream(c)
  <2>1. PICK st \in Failures(c) \cup IF k.read = Samples THEN {"OK"} ELSE {} :
          Set(c, [k EXCEPT !.pc = "answered", !.status = st,
                    !.samples = ForgetSamples(k, st)])
    BY <1>8 DEF FinishStream
  <2>2. k.pc = "inflight" /\ k.request.op = "SampleRows" /\ policy' = policy /\ row' = row
    BY <1>8 DEF FinishStream, Op
  <2> HIDE DEF k
  <2>3. st \in Statuses /\ (st = "OK" => k.read = Samples)
    BY <1>3, <2>1 DEF Statuses
  <2>4. PICK l : l = [k EXCEPT !.pc = "answered", !.status = st,
                        !.samples = ForgetSamples(k, st)]
    OBVIOUS
  <2>5. GoodCall(policy, l) /\ (Passed(l) => Passed(k))
    BY <1>1, <2>2, <2>3, <2>4, FinishGood
  <2> QED
    BY <2>1, <2>2, <2>4, <2>5, SetKeepsInv DEF k
<1>9. CASE SyncAnswered(c)
  <2>1. /\ k.pc = "answered" /\ policy' = policy /\ row' = row
        /\ Set(c, IF k.status = "OK" THEN Return(k, "OK")
                  ELSE IF MayGoOn(k)
                  THEN [k EXCEPT !.pc = "ready", !.failures = @ + 1, !.samples = <<>>]
                  ELSE Return(k, IF Op(c) = "SampleRows" THEN "INTERNAL" ELSE k.status))
    BY <1>9 DEF SyncAnswered
  <2> HIDE DEF k
  <2>2. CASE k.status = "OK"
    <3>1. Set(c, Return(k, "OK"))
      BY <2>1, <2>2
    <3>2. GoodCall(policy, Return(k, "OK")) /\ (Passed(Return(k, "OK")) => Passed(k))
      BY <1>1, <2>1, <2>2, ReturnGood DEF Statuses
    <3> QED
      BY <2>1, <3>1, <3>2, SetKeepsInv DEF k
  <2>3. CASE k.status # "OK" /\ MayGoOn(k)
    <3>1. PICK l : l = [k EXCEPT !.pc = "ready", !.failures = @ + 1, !.samples = <<>>]
      OBVIOUS
    <3>2. Set(c, l)
      BY <2>1, <2>3, <3>1
    <3>3. GoodCall(policy, l) /\ (Passed(l) => Passed(k))
      BY <1>1, <2>1, <2>3, <3>1, AgainGood
    <3> QED
      BY <2>1, <3>2, <3>3, SetKeepsInv DEF k
  <2>4. CASE k.status # "OK" /\ ~MayGoOn(k)
    <3>1. PICK st \in Statuses \ {"OK"} : Set(c, Return(k, st))
      BY <1>2, <2>1, <2>4 DEF Statuses
    <3>2. GoodCall(policy, Return(k, st)) /\ (Passed(Return(k, st)) => Passed(k))
      BY <1>1, <2>1, ReturnGood
    <3> QED
      BY <2>1, <3>1, <3>2, SetKeepsInv DEF k
  <2> QED
    BY <2>2, <2>3, <2>4
<1>10. CASE AsyncAnswered(c)
  <2>1. /\ k.pc = "answered" /\ policy' = policy /\ row' = row
        /\ k.request.style = "async"
        /\ Set(c, IF ~MayGoOn(k) THEN Return(k, k.status)
                  ELSE IF k.cancelled THEN Return(k, "CANCELLED")
                  ELSE [k EXCEPT !.pc = "ready", !.failures = @ + 1])
    BY <1>10 DEF AsyncAnswered, Async
  <2> HIDE DEF k
  <2>2. CASE ~MayGoOn(k) \/ k.cancelled
    <3>1. PICK st \in {k.status, "CANCELLED"} : Set(c, Return(k, st))
      BY <2>1, <2>2
    <3>2. GoodCall(policy, Return(k, st)) /\ (Passed(Return(k, st)) => Passed(k))
      BY <1>1, <1>2, <2>1, ReturnGood DEF Statuses
    <3> QED
      BY <2>1, <3>1, <3>2, SetKeepsInv DEF k
  <2>3. CASE MayGoOn(k) /\ ~k.cancelled
    <3>1. PICK l : l = [k EXCEPT !.pc = "ready", !.failures = @ + 1, !.samples = k.samples]
      OBVIOUS
    <3>2. l = [k EXCEPT !.pc = "ready", !.failures = @ + 1]
      <4>1. k \in Calls
        BY <1>1 DEF GoodCall
      <4> QED
        BY <3>1, <4>1 DEF Calls
    <3>3. Set(c, l)
      BY <2>1, <2>3, <3>2
    <3>4. GoodCall(policy, l) /\ (Passed(l) => Passed(k))
      BY <1>1, <2>1, <2>3, <3>1, AgainGood
    <3> QED
      BY <2>1, <3>3, <3>4, SetKeepsInv DEF k
  <2> QED
    BY <2>2, <2>3
<1>11. CASE CancelCall(c)
  <2>1. Set(c, [k EXCEPT !.cancelled = TRUE]) /\ policy' = policy /\ row' = row
    BY <1>11 DEF CancelCall
  <2> HIDE DEF k
  <2>2. PICK l : l = [k EXCEPT !.cancelled = TRUE]
    OBVIOUS
  <2>3. GoodCall(policy, l) /\ (Passed(l) => Passed(k))
    BY <1>1, <2>2, CancelGood
  <2> QED
    BY <2>1, <2>2, <2>3, SetKeepsInv DEF k
<1>12. CASE OnTimerCancelled(c)
  <2>1. k.pc = "ready" /\ Set(c, Return(k, "CANCELLED")) /\ policy' = policy /\ row' = row
    BY <1>12 DEF OnTimerCancelled
  <2> HIDE DEF k
  <2>2. /\ GoodCall(policy, Return(k, "CANCELLED"))
        /\ Passed(Return(k, "CANCELLED")) => Passed(k)
    BY <1>1, <2>1, ReturnGood DEF Statuses
  <2> QED
    BY <2>1, <2>2, SetKeepsInv DEF k
<1> QED
  BY <1>4, <1>5, <1>6, <1>7, <1>8, <1>9, <1>10, <1>11, <1>12

-----------------------------------------------------------------------------
(* The whole module.                                                       *)

LEMMA DataInitInv == DataInit => DataInv
<1> SUFFICES ASSUME DataInit PROVE DataInv
  OBVIOUS
<1>1. BulkInv
  <2>1. CASE Init
    BY <2>1, BulkInit
  <2>2. CASE NoBulkApply
    BY <2>2 DEF NoBulkApply, BulkInv
  <2> QED
    BY <2>1, <2>2 DEF DataInit
<1>2. PoolInv
  BY DEF DataInit, PoolInv
<1>3. policy \in {"safe", "always"} /\ row = TRUE /\ call = [c \in Thread |-> NoCall]
  BY DEF DataInit
<1>4. CallsInv /\ MatchInv
  BY <1>3, NoCallGood DEF CallsInv, MatchInv
<1> QED
  BY <1>1, <1>2, <1>4 DEF DataInv

LEMMA DataStep ==
  ASSUME DataInv, [DataNext]_dataVars
  PROVE  DataInv'
<1>1. BulkInv /\ PoolInv /\ CallsInv /\ MatchInv
  BY DEF DataInv
<1>2. CASE Next /\ UNCHANGED <<poolVars, callVars>>
  <2>1. BulkInv'
    BY <1>1, <1>2, BulkStep
  <2>2. PoolInv'
    BY <1>1, <1>2, PoolUnchanged DEF poolVars
  <2>3. CallsInv' /\ MatchInv'
    BY <1>1, <1>2, CallsUnchanged
  <2> QED
    BY <2>1, <2>2, <2>3 DEF DataInv
<1>3. ASSUME NEW c \in Thread,
             \/ StartCall(c) \/ Lose(c) \/ Serve(c) \/ ReadSample(c) \/ FinishStream(c)
             \/ SyncAnswered(c) \/ AsyncAnswered(c) \/ CancelCall(c) \/ OnTimerCancelled(c)
      PROVE  DataInv'
  <2>1. UNCHANGED vars /\ UNCHANGED poolVars
    BY <1>3 DEF StartCall, Lose, Serve, ReadSample, FinishStream, SyncAnswered,
         AsyncAnswered, CancelCall, OnTimerCancelled
  <2>2. BulkInv'
    BY <1>1, <2>1, BulkUnchanged
  <2>3. PoolInv'
    BY <1>1, <2>1, PoolUnchanged DEF poolVars
  <2>4. CallsInv' /\ MatchInv'
    BY <1>1, <1>3, CallStep
  <2> QED
    BY <2>2, <2>3, <2>4 DEF DataInv
<1>4. ASSUME NEW c \in Thread, Connect(c)
      PROVE  DataInv'
  <2>1. UNCHANGED vars /\ UNCHANGED callVars
    BY <1>4 DEF Connect
  <2>2. UNCHANGED <<stubs_, channels_, current_index_, uses>>
    BY <1>4 DEF Connect, CheckConnections
  <2>3. BulkInv' /\ PoolInv'
    BY <1>1, <2>1, <2>2, BulkUnchanged, PoolUnchanged
  <2>4. CallsInv' /\ MatchInv'
    BY <1>1, <2>1, CallsUnchanged
  <2> QED
    BY <2>3, <2>4 DEF DataInv
<1>5. ASSUME NEW c \in Thread, Send(c)
      PROVE  DataInv'
  <2> DEFINE k == call[c]
  <2>1. /\ k.pc = "ready" /\ Stub(c) /\ Set(c, [k EXCEPT !.pc = "inflight", !.read = 0])
        /\ UNCHANGED vars /\ policy' = policy /\ row' = row
    BY <1>5 DEF Send
  <2>2. GoodCall(policy, k)
    BY <1>1 DEF CallsInv
  <2> HIDE DEF k
  <2>3. PICK l : l = [k EXCEPT !.pc = "inflight", !.read = 0]
    OBVIOUS
  <2>4. GoodCall(policy, l) /\ (Passed(l) => Passed(k))
    BY <2>1, <2>2, <2>3, SendGood
  <2>5. CallsInv' /\ MatchInv'
    BY <1>1, <2>1, <2>3, <2>4, SetKeepsInv DEF k
  <2>6. BulkInv' /\ PoolInv'
    BY <1>1, <2>1, BulkUnchanged, StubKeepsInv
  <2> QED
    BY <2>5, <2>6 DEF DataInv
<1>6. CASE ResetClient
  <2>1. UNCHANGED vars /\ UNCHANGED callVars /\ stubs_' = <<>> /\ uses' = NoUses
    BY <1>6 DEF ResetClient, Reset
  <2>2. PoolInv'
    BY <2>1 DEF PoolInv, NoUses
  <2>3. BulkInv' /\ CallsInv' /\ MatchInv'
    BY <1>1, <2>1, BulkUnchanged, CallsUnchanged
  <2> QED
    BY <2>2, <2>3 DEF DataInv
<1>7. CASE UNCHANGED dataVars
  <2>1. UNCHANGED vars /\ UNCHANGED poolVars /\ UNCHANGED callVars
    BY <1>7 DEF dataVars
  <2>2. BulkInv' /\ CallsInv' /\ MatchInv'
    BY <1>1, <2>1, BulkUnchanged, CallsUnchanged
  <2>3. PoolInv'
    BY <1>1, <2>1, PoolUnchanged DEF poolVars
  <2> QED
    BY <2>2, <2>3 DEF DataInv
<1> QED
  BY <1>2, <1>3, <1>4, <1>5, <1>6, <1>7 DEF DataNext, AllReturned

(* The inductive invariant of the data calls: the bulk mutation, the pool  *)
(* and the single calls.                                                   *)
THEOREM DataInvHolds == DataSpec => []DataInv
<1>1. DataInit => DataInv
  BY DataInitInv
<1>2. DataInv /\ [DataNext]_dataVars => DataInv'
  BY DataStep
<1> QED
  BY <1>1, <1>2, PTL DEF DataSpec

(* CommonClient uses its connections in turn, whoever creates them and     *)
(* however often they are reset.                                           *)
THEOREM PoolInTurn == DataSpec => []UsedInTurn
<1>1. DataInv => UsedInTurn
  <2> SUFFICES ASSUME PoolInv PROVE UsedInTurn
    BY DEF DataInv
  <2>1. CASE stubs_ = <<>>
    BY <2>1, PoolAssumption DEF PoolInv, UsedInTurn, NoUses
  <2>2. CASE stubs_ # <<>>
    BY <2>2, PoolAssumption DEF PoolInv, UsedInTurn
  <2> QED
    BY <2>1, <2>2
<1> QED
  BY <1>1, DataInvHolds, PTL

LEMMA CountOne ==
  ASSUME NEW S
  PROVE  (S = {} => Cardinality(S) = 0) /\ (One(S) => Cardinality(S) = 1)
<1>1. S = {} => Cardinality(S) = 0
  BY FS_EmptySet
<1>2. One(S) => Cardinality(S) = 1
  BY FS_Singleton DEF One
<1> QED
  BY <1>1, <1>2

(* BulkMutator reports each mutation once and under its own index, however *)
(* many attempts it takes and however they end.                            *)
THEOREM BulkIsAccounted == DataSpec => []Accounted
<1>1. DataInv => Accounted
  <2> SUFFICES ASSUME BulkInv, pc # "unused" PROVE Aligned /\ AccountedOnce
    BY DEF DataInv, Accounted
  <2>1. BulkTypeOK /\ ArraysInv /\ IndexInv /\ PlaceInv
    BY DEF BulkInv
  <2>2. Aligned
    BY <2>1 DEF BulkTypeOK, ArraysInv, IndexInv, Aligned
  <2>3. ASSUME NEW m \in Mutation
        PROVE  /\ Count(Reported(failures_), m) = Cardinality(FailedAt(m))
               /\ Count(Reported(result), m) = Cardinality(ResultAt(m))
               /\ Count(pending_mutations_, m) = Cardinality(PendingAt(m))
    <3>1. \A s : {i \in DOMAIN Reported(s) : Reported(s)[i] = m}
                   = {i \in DOMAIN s : s[i].mutation = m}
      BY DEF Reported
    <3> QED
      BY <3>1 DEF Count, FailedAt, ResultAt, PendingAt
  <2>4. ASSUME NEW m \in Mutation, pc \in {"loop", "decide", "extract"}
        PROVE  (IF m \in confirmed THEN 1 ELSE 0) + Cardinality(FailedAt(m))
                 + Cardinality(PendingAt(m)) = 1
    <3>1. InOnePlace(m) /\ OpenAt(m) = {}
      BY <2>1, <2>4 DEF PlaceInv, OpenAt
    <3>2. ~One({})
      BY DEF One
    <3>3. \/ m \in confirmed /\ PendingAt(m) = {} /\ FailedAt(m) = {}
          \/ m \notin confirmed /\ One(PendingAt(m)) /\ FailedAt(m) = {}
          \/ m \notin confirmed /\ PendingAt(m) = {} /\ One(FailedAt(m))
      BY <3>1, <3>2 DEF InOnePlace
    <3> QED
      BY <3>3, CountOne
  <2>5. ASSUME NEW m \in Mutation, pc = "returned"
        PROVE  (IF m \in confirmed THEN 1 ELSE 0) + Cardinality(ResultAt(m)) = 1
    <3>1. InOneResult(m)
      BY <2>1, <2>5 DEF PlaceInv
    <3> QED
      BY <3>1, CountOne DEF InOneResult
  <2>6. AccountedOnce
    BY <2>3, <2>4, <2>5 DEF AccountedOnce
  <2> QED
    BY <2>2, <2>6
<1> QED
  BY <1>1, DataInvHolds, PTL

(* What is not idempotent is done once: BulkMutator does not send such a   *)
(* mutation again, and SafeIdempotentMutationPolicy lets no other call be  *)
(* carried out twice.                                                      *)
THEOREM NothingTwice == DataSpec => []NonIdempotentOnce
<1>1. DataInv => NonIdempotentOnce
  <2> SUFFICES ASSUME BulkInv, CallsInv PROVE NonIdempotentOnce
    BY DEF DataInv
  <2>1. NonIdempotentSentOnce
    <3>1. CASE pc = "unused"
      BY <3>1 DEF BulkInv, NonIdempotentSentOnce
    <3>2. CASE pc # "unused"
      BY <3>2 DEF BulkInv, SentInv, NonIdempotentSentOnce
    <3> QED
      BY <3>1, <3>2
  <2>2. ASSUME NEW c \in Thread, policy = "safe", ~call[c].request.repeatable
        PROVE  Len(call[c].executed) <= 1
    BY <2>2 DEF CallsInv, GoodCall, OnceInv
  <2> QED
    BY <2>1, <2>2 DEF NonIdempotentOnce
<1> QED
  BY <1>1, DataInvHolds, PTL

(* OK is the truth, for BulkApply(), Apply(), ReadModifyWriteRow(),        *)
(* SampleRows() and CheckAndMutateRow(), and one caller passes the test.   *)
THEOREM OkTellsTheTruth == DataSpec => []OkIsTrue
<1>1. DataInv => OkIsTrue
  <2> SUFFICES ASSUME BulkInv, CallsInv, MatchInv PROVE OkIsTrue
    BY DEF DataInv
  <2>1. OkMeansApplied
    <3> SUFFICES ASSUME pc = "returned", mode = "sync", status = "OK"
                 PROVE  confirmed = Mutation
      BY DEF OkMeansApplied
    <3>1. result = <<>> /\ \A m \in Mutation : InOneResult(m)
      BY DEF BulkInv, OkInv, PlaceInv
    <3>2. \A m \in Mutation : ResultAt(m) = {}
      BY <3>1 DEF ResultAt
    <3>3. \A m \in Mutation : m \in confirmed
      BY <3>1, <3>2 DEF InOneResult, One
    <3> QED
      BY <3>3 DEF BulkInv, BulkTypeOK
  <2>2. ASSUME NEW c \in Thread
        PROVE  /\ Succeeded(c, "Apply") \/ Succeeded(c, "ReadModifyWriteRow")
                    => call[c].executed # <<>>
               /\ Succeeded(c, "SampleRows") => call[c].samples = [i \in 1..Samples |-> i]
               /\ Succeeded(c, "CheckAndMutateRow") =>
                    LET n == Len(call[c].executed)
                    IN  n > 0 /\ call[c].executed[n] = call[c].matched
    <3>1. GoodCall(policy, call[c])
      BY DEF CallsInv
    <3>2. /\ AnswerInv(call[c]) /\ SamplesInv(call[c])
          /\ call[c].samples \in Seq(Nat) /\ call[c].executed \in Seq(BOOLEAN)
      BY <3>1, CallFields
    <3>3. call[c].executed # <<>> => Len(call[c].executed) > 0
      BY <3>2
    <3>4. ASSUME Succeeded(c, "SampleRows")
          PROVE  call[c].samples = [i \in 1..Samples |-> i]
      <4>1. FirstSamples(call[c], Samples)
        BY <3>2, <3>4 DEF SamplesInv, Succeeded, Op
      <4> QED
        BY <3>2, <4>1, CallAssumption DEF FirstSamples
    <3> QED
      BY <3>2, <3>3, <3>4 DEF AnswerInv, Succeeded, Op
  <2>3. ASSUME NEW c \in Thread, NEW d \in Thread,
               Succeeded(c, "CheckAndMutateRow"), call[c].matched,
               Succeeded(d, "CheckAndMutateRow"), call[d].matched
        PROVE  c = d
    BY <2>3 DEF MatchInv, Passed, Succeeded, Op
  <2> QED
    BY <2>1, <2>2, <2>3 DEF OkIsTrue
<1> QED
  BY <1>1, DataInvHolds, PTL

==============================================================================
