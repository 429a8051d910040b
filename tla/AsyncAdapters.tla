---------------------------- MODULE AsyncAdapters ----------------------------
(***************************************************************************)
(* The three Operations that the library runs in an AsyncLoopOp:           *)
(*   "retry"      RetriableLoopAdapter       (async_retry_op.h)            *)
(*   "multipage"  MultipageRetriableAdapter  (async_retry_multi_page.h)    *)
(*   "poll"       PollableLoopAdapter        (async_poll_op.h)             *)
(* with the retry policies of internal/retry_policy.h.  Every step of the  *)
(* loop is a step of AsyncLoop; the adapters decide when an attempt ends   *)
(* the loop and with which status the user callback is called.             *)
(***************************************************************************)
EXTENDS AsyncLoop

CONSTANTS
  MaximumFailures,  \* LimitedErrorCountRetryPolicy::maximum_failures_
  Pages,            \* how many pages the server has for a "multipage" call
  Adapters,         \* the adapters to consider
  Policies          \* the policies to consider: "count", "time"

ASSUME AdapterAssumption ==
  /\ MaximumFailures \in Nat
  /\ Pages \in Nat \ {0}
  /\ Adapters \subseteq {"retry", "multipage", "poll"}
  /\ Policies \subseteq {"count", "time"}

VARIABLES
  adapter, policy,
  idempotent,      \* idempotent_policy_.is_idempotent()
  failure_count_,  \* LimitedErrorCountRetryPolicy::failure_count_
  expired,         \* LimitedTimeRetryPolicy: now() >= deadline_
  status_,         \* the adapter's status_
  page,            \* the pages accumulated by a "multipage" call
  attempts,        \* history: attempts started, up to MaximumFailures + 2
  delivered,       \* history: an attempt finished the operation with OK
  result           \* history: the status given to the user callback

policyVars == <<failure_count_, expired>>
fixedVars == <<adapter, policy, idempotent>>
adapterVars == <<fixedVars, policyVars, status_, page, attempts, delivered, result>>
allVars == <<vars, adapterVars>>

(* grpc::Status, up to what the adapters and policies tell apart.           *)
Status == {"OK", "TRANSIENT", "PERMANENT", "CANCELLED", "EXHAUSTED"}

AdapterInit ==
  /\ Init
  /\ adapter \in Adapters
  /\ policy \in Policies
  /\ idempotent \in IF adapter = "retry" THEN BOOLEAN ELSE {TRUE}
  /\ failure_count_ = 0
  /\ expired = FALSE
  /\ status_ = "OK"
  /\ page = 0
  /\ attempts = 0
  /\ delivered = FALSE
  /\ result = "none"

------------------------------------------------------------------------------
(* The retry policies.                                                      *)

(* SafeGrpcRetry::IsPermanentFailure().                                     *)
IsPermanentFailure(s) == s \notin {"OK", "TRANSIENT"}

(* Fault: failures are not counted.                                         *)
OnFailureImpl_Dropped(s, count) == count

(* OnFailureImpl() runs unless the failure is permanent.                    *)
OnFailureImpl(s, count) ==
  IF IsPermanentFailure(s) \/ policy = "time" THEN count ELSE count + 1

(* Fault: one attempt too many.                                             *)
IsExhausted_OffByOne(count) ==
  IF policy = "count" THEN count > MaximumFailures + 1 ELSE expired

IsExhausted(count) ==
  IF policy = "count" THEN count > MaximumFailures ELSE expired

(* RetryPolicy::OnFailure(); count is the value OnFailureImpl() left.       *)
OnFailure(s, count) == ~IsPermanentFailure(s) /\ ~IsExhausted(count)

(* The deadline of LimitedTimeRetryPolicy passes.                           *)
Expire ==
  /\ policy = "time" /\ ~expired
  /\ expired' = TRUE
  /\ UNCHANGED <<vars, fixedVars, failure_count_, status_, page, attempts,
                 delivered, result>>

------------------------------------------------------------------------------
(* What an adapter does with a completed attempt.                           *)

(* user_callback_(cq, res, s); attempt_completed_callback(cq, true).        *)
Report(t, s) ==
  /\ AttemptFinished(t)
  /\ result' = s
  /\ UNCHANGED status_

(* status_ = s; attempt_completed_callback(cq, false).                      *)
Continue(t, s) ==
  /\ AttemptNotFinished(t)
  /\ status_' = s
  /\ UNCHANGED result

(* Fault: a cancelled loop ignores the answer that has arrived.             *)
RetriableOnCompletion_PreferCancel(t, s) ==
  /\ adapter = "retry"
  /\ delivered' = (delivered \/ s = "OK")
  /\ Report(t, IF cancelled_ THEN "CANCELLED" ELSE s)
  /\ UNCHANGED <<policyVars, fixedVars, page, attempts>>

(* Fault: the attempt is reported and tried again.                          *)
RetriableOnCompletion_Twice(t, s) ==
  /\ adapter = "retry"
  /\ delivered' = (delivered \/ s = "OK")
  /\ pc[t] = "Adapter"
  /\ fired' = fired + 1
  /\ pc' = [pc EXCEPT ![t] = "OnCompletion"]
  /\ result' = s
  /\ UNCHANGED <<mu_, cancelled_, current_op_, opVars, held, made, status_>>
  /\ UNCHANGED <<policyVars, fixedVars, page, attempts>>

(* RetriableLoopAdapter::OnCompletion().                                    *)
RetriableOnCompletion(t, s) ==
  /\ adapter = "retry"
  /\ delivered' = (delivered \/ s = "OK")
  /\ IF s \in {"OK", "CANCELLED"} \/ ~idempotent
       THEN Report(t, s) /\ UNCHANGED policyVars
       ELSE /\ failure_count_' = OnFailureImpl(s, failure_count_)
            /\ IF OnFailure(s, failure_count_') THEN Continue(t, s) ELSE Report(t, s)
            /\ UNCHANGED expired
  /\ UNCHANGED <<fixedVars, page, attempts>>

(* MultipageRetriableAdapter::OnCompletion(): a successful page that is not *)
(* the last one goes through OnFailure() as well.                           *)
MultipageOnCompletion(t, s) ==
  /\ adapter = "multipage"
  /\ page' = IF s = "OK" THEN page + 1 ELSE page
  /\ LET finished == page' = Pages
     IN /\ delivered' = (delivered \/ finished)
        /\ IF s = "CANCELLED" \/ finished
             THEN Report(t, s) /\ UNCHANGED policyVars
             ELSE /\ failure_count_' = OnFailureImpl(s, failure_count_)
                  /\ IF OnFailure(s, failure_count_') THEN Continue(t, s)
                                                      ELSE Report(t, s)
                  /\ UNCHANGED expired
  /\ UNCHANGED <<fixedVars, attempts>>

(* PollableLoopAdapter::OnCompletion() over AsyncLongrunningOp: finished    *)
(* says that the answer holds the outcome of the long-running operation.    *)
(* OnFailure() is always called, and Exhausted() calls it a second time     *)
(* (GenericPollingPolicy).                                                  *)
PollableOnCompletion(t, s, finished) ==
  /\ adapter = "poll"
  /\ delivered' = (delivered \/ (finished /\ s = "OK"))
  /\ IF s = "CANCELLED" \/ finished
       THEN Report(t, s) /\ UNCHANGED policyVars
       ELSE LET once  == OnFailureImpl(s, failure_count_)
                twice == OnFailureImpl("OK", once)
            IN  /\ UNCHANGED expired
                /\ IF s # "OK" /\ ~OnFailure(s, once)
                     THEN Report(t, s) /\ failure_count_' = once
                     ELSE /\ failure_count_' = twice
                          /\ IF OnFailure("OK", twice) THEN Continue(t, s)
                                                       ELSE Report(t, "EXHAUSTED")
  /\ UNCHANGED <<fixedVars, page, attempts>>

(* The server's answer, or the failure gRPC reports for the attempt.        *)
Answer == Status \ {"EXHAUSTED"}

AdapterOnCompletion(t) ==
  \E s \in Answer :
    \/ RetriableOnCompletion(t, s)
    \/ MultipageOnCompletion(t, s)
    \/ \E finished \in BOOLEAN : PollableOnCompletion(t, s, finished)

(* Adapter::WaitPeriod(): an ExponentialBackoffPolicy may return 0 ms, and  *)
(* there is no delay after a successful page.                               *)
WaitPeriodIsZero ==
  IF adapter = "multipage" /\ status_ = "OK" THEN {TRUE} ELSE BOOLEAN

(* Adapter::Start().                                                        *)
AdapterStart(t) ==
  /\ StartUnlocked(t)
  /\ attempts' = IF attempts < MaximumFailures + 2 THEN attempts + 1 ELSE attempts
  /\ UNCHANGED <<fixedVars, policyVars, status_, page, delivered, result>>

(* Adapter::Cancel(): the user callback gets CANCELLED.                     *)
AdapterCancel(t) ==
  /\ OperationCancel(t)
  /\ result' = "CANCELLED"
  /\ UNCHANGED <<fixedVars, policyVars, status_, page, attempts, delivered>>

(* The steps of the loop that do not enter the adapter.                     *)
OtherStep(t) ==
  /\ \/ \E o \in Op : Notify(t, o)
     \/ \E noDelay \in WaitPeriodIsZero : OnCompletion(t, noDelay)
     \/ MakeRelativeTimer(t) \/ Assign(t) \/ OnCompletionFinished(t)
     \/ OnTimer(t) \/ CallbackReturns(t) \/ ForgetOperation(t)
  /\ UNCHANGED adapterVars

AdapterRunnerStep(t) ==
  AdapterOnCompletion(t) \/ AdapterStart(t) \/ AdapterCancel(t) \/ OtherStep(t)

AdapterStarterStep ==
  \/ AdapterStart(Starter)
  \/ (Start \/ RunAsync \/ Assign(Starter)) /\ UNCHANGED adapterVars

AdapterEnvironment ==
  /\ \/ \E t \in Runner : CallbackCancels(t)
     \/ \E t \in Canceller : Cancel(t)
     \/ Terminated
  /\ UNCHANGED adapterVars

AdapterComplete(o) == Complete(o) /\ UNCHANGED adapterVars

AdapterNext ==
  \/ AdapterStarterStep
  \/ \E t \in Runner : AdapterRunnerStep(t)
  \/ AdapterEnvironment
  \/ \E o \in Op : AdapterComplete(o)
  \/ Expire

AdapterSpec == AdapterInit /\ [][AdapterNext]_allVars

(* The operating system schedules the threads, timers and cancelled calls   *)
(* complete, and time passes.                                               *)
AdapterFairness ==
  /\ WF_allVars(AdapterStarterStep)
  /\ \A t \in Runner : WF_allVars(AdapterRunnerStep(t))
  /\ \A o \in Op : WF_allVars(MustComplete(o) /\ UNCHANGED adapterVars)
  /\ WF_allVars(Expire)

AdapterFairSpec == AdapterSpec /\ AdapterFairness

------------------------------------------------------------------------------
(* Properties.                                                              *)

(* The adapters implement the abstract loop (async_loop_op.h: AsyncLoopOp), *)
(* so what is proved of AsyncLoop holds of every retried, paged or polled   *)
(* call.                                                                    *)
ImplementsLoop == Spec

(* With LimitedErrorCountRetryPolicy no call makes more than                *)
(* maximum_failures_ + 1 attempts (internal/retry_policy.h: OnFailure), and *)
(* an operation that is not idempotent is sent at most once                 *)
(* (async_retry_op.h: "non-idempotent operation failed").                   *)
AttemptBudget ==
  /\ policy = "count" => attempts <= MaximumFailures + 1
  /\ adapter = "retry" /\ ~idempotent => attempts <= 1

(* Success is reported when it should be and only then.  An answer that     *)
(* completes the operation is the one the user gets, even if a cancellation *)
(* races it (async_retry_op.h: OnCompletion); and a paged call that reports *)
(* success has accumulated every page (async_retry_multi_page.h:34: "will   *)
(* keep calling Operation::Start() to retrieve all parts (pages) of an API  *)
(* call") or has used up its policy, which is charged for the pages that    *)
(* succeed as well.                                                         *)
SuccessExact ==
  /\ delivered /\ fired = 1 => result = "OK"
  /\ adapter = "multipage" /\ result = "OK" => page = Pages \/ IsExhausted(failure_count_)

(* If the server answers every attempt, every started call ends with the    *)
(* user callback under a limited policy, without anybody cancelling it      *)
(* (async_loop_op.h: OnCompletion, OnTimer).                                *)
EveryCallCompletes ==
  (\A o \in Op : WF_allVars(AdapterComplete(o))) => ((pc[Starter] # "Start") ~> fired = 1)
==============================================================================
