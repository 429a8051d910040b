---------------------------- MODULE BulkMutator ----------------------------
(***************************************************************************)
(* BulkMutator and AsyncBulkMutator (internal/bulk_mutator.{h,cc}) with    *)
(* the loops that drive them: noex::Table::BulkApply() (internal/table.cc) *)
(* and AsyncRetryBulkApply, an AsyncRetryOp (internal/async_bulk_apply.h). *)
(*                                                                         *)
(* The mutations of a BulkMutation are numbered from 1 to N; only those    *)
(* without a final answer are sent again, so the position of a mutation in *)
(* a request differs from its number, and two parallel arrays keep track.  *)
(* A response with several entries is handled as that many responses.      *)
(***************************************************************************)
EXTENDS Integers, Sequences, FiniteSets, SequencesExt

CONSTANTS
  N,                \* how many mutations the BulkMutation has
  MaximumFailures,  \* of LimitedErrorCountRetryPolicy
  Modes             \* "sync", "async"

ASSUME BulkAssumption ==
  /\ N \in Nat \ {0}
  /\ MaximumFailures \in Nat
  /\ Modes \subseteq {"sync", "async"}

Mutation == 1..N
Moved == 0          \* an entry whose contents were swapped out

VARIABLES
  mode,
  mutations_, annotations_,                  \* the current request
  pending_mutations_, pending_annotations_,  \* the next request
  failures_,
  status,          \* the status of the last request, then of the call
  failure_count_,  \* of the retry policy
  result,          \* what ExtractFinalFailures() returned
  pc,
  confirmed,       \* history: the mutations the server reported as applied
  sent             \* history: how often each was sent, up to 2

requestVars == <<mutations_, annotations_>>
pendingVars == <<pending_mutations_, pending_annotations_>>
historyVars == <<confirmed, sent>>
vars == <<mode, requestVars, pendingVars, failures_, status, failure_count_,
          result, pc, historyVars>>

Annotation(i, idempotent) ==
  [original_index |-> i, is_idempotent |-> idempotent, has_mutation_result |-> FALSE]

(* The constructor: everything is pending, in the user's order.             *)
Init ==
  /\ mode \in Modes
  /\ mutations_ = <<>> /\ annotations_ = <<>>
  /\ pending_mutations_ = [i \in Mutation |-> i]
  /\ \E idempotent \in [Mutation -> BOOLEAN] :
       pending_annotations_ = [i \in Mutation |-> Annotation(i, idempotent[i])]
  /\ failures_ = <<>>
  /\ status = "OK" /\ failure_count_ = 0 /\ result = <<>>
  /\ pc = "loop"
  /\ confirmed = {} /\ sent = [i \in Mutation |-> 0]

HasPendingMutations == pending_mutations_ # <<>>

Failed(m, code, index) == [mutation |-> m, status |-> code, original_index |-> index]

------------------------------------------------------------------------------

(* annotations_.swap(), and the results of the last request are forgotten.  *)
NextAnnotations ==
  [i \in DOMAIN pending_annotations_ |->
     [pending_annotations_[i] EXCEPT !.has_mutation_result = FALSE]]

(* PrepareForRequest(), and the request is sent.                            *)
PrepareForRequest ==
  /\ pc = "loop"
  /\ mode = "sync" => HasPendingMutations
  /\ mutations_' = pending_mutations_
  /\ annotations_' = NextAnnotations
  /\ pending_mutations_' = <<>> /\ pending_annotations_' = <<>>
  /\ sent' = [m \in Mutation |->
                IF m \in ToSet(pending_mutations_) /\ sent[m] < 2
                  THEN sent[m] + 1 ELSE sent[m]]
  /\ pc' = "stream"
  /\ UNCHANGED <<mode, failures_, status, failure_count_, result, confirmed>>

MayRetry(code, a) == code = "TRANSIENT" /\ a.is_idempotent

(* The index a failure is reported with.                                    *)
ReportedIndex(a, index) == a.original_index

(* ProcessResponse() for an entry with this index and status code.  The     *)
(* server answers an entry once; an index out of range is ignored.          *)
ProcessResponse(index, code) ==
  /\ pc = "stream"
  /\ index \in DOMAIN annotations_ => ~annotations_[index].has_mutation_result
  /\ IF index \notin DOMAIN annotations_
       THEN UNCHANGED <<requestVars, pendingVars, failures_, confirmed>>
       ELSE LET m == mutations_[index]
                a == [annotations_[index] EXCEPT !.has_mutation_result = TRUE]
            IN /\ annotations_' = [annotations_ EXCEPT ![index] = a]
               /\ CASE code = "OK" ->
                         /\ confirmed' = confirmed \union {m}
                         /\ UNCHANGED <<mutations_, pendingVars, failures_>>
                    [] MayRetry(code, a) ->
                         /\ mutations_' = [mutations_ EXCEPT ![index] = Moved]
                         /\ pending_mutations_' = Append(pending_mutations_, m)
                         /\ pending_annotations_' = Append(pending_annotations_, a)
                         /\ UNCHANGED <<failures_, confirmed>>
                    [] OTHER ->
                         /\ mutations_' = [mutations_ EXCEPT ![index] = Moved]
                         /\ failures_' = Append(failures_,
                                                Failed(m, code, ReportedIndex(a, index)))
                         /\ UNCHANGED <<pendingVars, confirmed>>
  /\ UNCHANGED <<mode, status, failure_count_, result, pc, sent>>

(* The positions without an answer.                                         *)
Unanswered == {i \in DOMAIN annotations_ : ~annotations_[i].has_mutation_result}

(* The loop over them visits each once, from the first to the last: it has  *)
(* one order.                                                               *)
InOrder(positions) ==
  {s \in [1..Cardinality(positions) -> positions] :
     /\ positions \subseteq Range(s)
     /\ \A i, j \in DOMAIN s : i < j => s[i] < s[j]}

(* Fault: index is not incremented for the entries that have an answer.     *)
OriginalOf_NotIncremented(i) ==
  mutations_[Cardinality({j \in 1..i : ~annotations_[j].has_mutation_result})]

(* *mutations_.mutable_entries(index).                                      *)
OriginalOf(i) == mutations_[i]

(* The status of the call when the stream ended with st.  AsyncBulkMutator  *)
(* turns a success that leaves something pending into UNAVAILABLE.          *)
StatusAfter(st, pending) ==
  IF mode = "async" /\ st = "OK" /\ pending # <<>> THEN "TRANSIENT" ELSE st

RetryUnknown(a) == a.is_idempotent

(* FinishRequest(), after the stream ended with status st.                  *)
FinishRequest(st) ==
  /\ pc = "stream"
  /\ \E retry \in InOrder({i \in Unanswered : RetryUnknown(annotations_[i])}),
        drop \in InOrder({i \in Unanswered : ~RetryUnknown(annotations_[i])}) :
        /\ pending_mutations_' =
             pending_mutations_ \o [k \in DOMAIN retry |-> OriginalOf(retry[k])]
        /\ pending_annotations_' =
             pending_annotations_ \o [k \in DOMAIN retry |-> annotations_[retry[k]]]
        /\ failures_' =
             failures_ \o [k \in DOMAIN drop |->
               Failed(OriginalOf(drop[k]), "OK", annotations_[drop[k]].original_index)]
        /\ mutations_' = [i \in DOMAIN mutations_ |->
             IF annotations_[i].has_mutation_result THEN mutations_[i] ELSE Moved]
  /\ status' = StatusAfter(st, pending_mutations_')
  /\ pc' = "decide"
  /\ UNCHANGED <<mode, annotations_, failure_count_, result, historyVars>>

(* Fault: the limit is never reached.                                       *)
OnFailure_NoLimit(st, count) == st = "TRANSIENT"

(* RetryPolicy::OnFailure() of LimitedErrorCountRetryPolicy.                *)
OnFailure(st, count) == st = "TRANSIENT" /\ count <= MaximumFailures

(* OnFailureImpl() counts the transient failures; the count is of interest  *)
(* up to the first one above the limit.                                     *)
Counted ==
  IF status = "TRANSIENT" /\ failure_count_ <= MaximumFailures
    THEN failure_count_ + 1 ELSE failure_count_

(* BulkApply() asks the policy only if the request failed.                  *)
SyncDecide ==
  /\ pc = "decide" /\ mode = "sync"
  /\ failure_count_' = Counted
  /\ pc' = IF (status # "OK" /\ ~OnFailure(status, failure_count_'))
              \/ ~HasPendingMutations
             THEN "extract" ELSE "loop"
  /\ UNCHANGED <<mode, requestVars, pendingVars, failures_, status, result,
                 historyVars>>

(* RetriableLoopAdapter::OnCompletion(): the operation counts as idempotent.*)
AsyncDecide ==
  /\ pc = "decide" /\ mode = "async"
  /\ failure_count_' = Counted
  /\ pc' = IF OnFailure(status, failure_count_') THEN "loop" ELSE "extract"
  /\ UNCHANGED <<mode, requestVars, pendingVars, failures_, status, result,
                 historyVars>>

(* The asynchronous call is cancelled while it waits for its next attempt.  *)
Cancel ==
  /\ pc = "loop" /\ mode = "async" /\ failure_count_ > 0
  /\ status' = "CANCELLED"
  /\ pc' = "extract"
  /\ UNCHANGED <<mode, requestVars, pendingVars, failures_, failure_count_,
                 result, historyVars>>

(* What the mutations that were given up are reported with.                 *)
FinalFailures ==
  failures_ \o [k \in DOMAIN pending_mutations_ |->
                  Failed(pending_mutations_[k], "OK", -1)]

(* BulkApply() turns a success with failures into INTERNAL.                 *)
FinalStatus(failures) ==
  IF mode = "sync" /\ status = "OK" /\ failures # <<>> THEN "INTERNAL" ELSE status

(* ExtractFinalFailures(), and the end of the call.                         *)
ExtractFinalFailures ==
  /\ pc = "extract"
  /\ result' = FinalFailures
  /\ failures_' = <<>>
  /\ pending_mutations_' = [k \in DOMAIN pending_mutations_ |-> Moved]
  /\ status' = FinalStatus(result')
  /\ pc' = "returned"
  /\ UNCHANGED <<mode, requestVars, pending_annotations_, failure_count_,
                 historyVars>>

Terminated == pc = "returned" /\ UNCHANGED vars

Step ==
  \/ PrepareForRequest
  \/ \E index \in 1..(N + 1), code \in {"OK", "TRANSIENT", "PERMANENT"} :
       ProcessResponse(index, code) /\ index <= Len(annotations_) + 1
  \/ \E st \in {"OK", "TRANSIENT", "PERMANENT", "CANCELLED"} : FinishRequest(st)
  \/ SyncDecide \/ AsyncDecide \/ ExtractFinalFailures

Next == Step \/ Cancel \/ Terminated

Spec == Init /\ [][Next]_vars

------------------------------------------------------------------------------
(* Properties.                                                              *)

(* The two parallel arrays stay aligned through every retry: an annotation  *)
(* describes the mutation at its position (bulk_mutator.cc: "this vector    *)
(* maps from the index in the current array to the index in the original    *)
(* array"), and a pending mutation has not lost its contents.  So a failure *)
(* the server reported carries the position of its mutation in the user's   *)
(* request (bulk_mutator.h:78: "we want to report any permanent failures    *)
(* using the index in the original request provided by the application");   *)
(* mutations that were given up have no index.                              *)
Aligned ==
  /\ Len(mutations_) = Len(annotations_)
  /\ \A i \in DOMAIN mutations_ :
       mutations_[i] \in {Moved, annotations_[i].original_index}
  /\ pc # "returned" =>
       \A i \in DOMAIN pending_mutations_ :
         pending_mutations_[i] = pending_annotations_[i].original_index
  /\ \A k \in DOMAIN result :
       result[k].status # "OK" => result[k].original_index = result[k].mutation

Count(s, m) == Cardinality({i \in DOMAIN s : s[i] = m})
Reported(s) == [k \in DOMAIN s |-> s[k].mutation]

(* No mutation is lost or handled twice: outside of a request each one is   *)
(* confirmed, failed or pending, and only one of them (bulk_mutator.cc:     *)
(* ProcessResponse, FinishRequest).  In the end each was confirmed or is in *)
(* the list of failures, once, even if the call is cancelled or the policy  *)
(* is exhausted (bulk_mutator.cc: ExtractFinalFailures).                    *)
AccountedOnce ==
  \A m \in Mutation :
    LET ok == IF m \in confirmed THEN 1 ELSE 0
    IN  /\ pc \in {"loop", "decide", "extract"} =>
             ok + Count(Reported(failures_), m) + Count(pending_mutations_, m) = 1
        /\ pc = "returned" => ok + Count(Reported(result), m) = 1

(* A mutation that is not idempotent is sent once (table.h:214: "not        *)
(* idempotent mutations that are not reported as successful or failed by    *)
(* the server are not sent to the server more than once").                  *)
NonIdempotentSentOnce ==
  \A i \in DOMAIN annotations_ :
    ~annotations_[i].is_idempotent => sent[annotations_[i].original_index] <= 1

(* BulkApply() returns OK only if the server confirmed every mutation, and  *)
(* never because the last of several requests succeeded (internal/table.cc: *)
(* the INTERNAL status).  AsyncBulkApply() has no such rule: its callback   *)
(* gets OK together with the permanent failures of single mutations.        *)
OkMeansApplied ==
  pc = "returned" /\ mode = "sync" /\ status = "OK" => confirmed = Mutation

(* The call ends (internal/table.cc:86: "repeatedly until successful, or    *)
(* until the policies in effect tell us to stop"), unless the server goes   *)
(* on answering BulkApply() with streams that end well and leave mutations  *)
(* pending: the policy is not asked then.                                   *)
CallEnds ==
  \/ <>(pc = "returned")
  \/ []<>(mode = "sync" /\ pc = "decide" /\ status = "OK" /\ HasPendingMutations)
==============================================================================
