----------------------------- MODULE AdminCalls -----------------------------
(***************************************************************************)
(* Administrative calls against the service: synchronous ones in threads   *)
(* of the application (UnaryClientUtils, PollLongRunningOperation,         *)
(* WaitForConsistencyCheckHelper) and asynchronous ones, which go on in    *)
(* the threads of a CompletionQueue (AsyncRetryUnaryRpc,                   *)
(* AsyncRetryAndPollUnaryRpc, AsyncAwaitConsistency) and may be cancelled. *)
(*                                                                         *)
(* The loops inside the asynchronous calls are what AsyncLoop.tla and      *)
(* AsyncAdapters.tla show of them: attempts one after the other, the       *)
(* callback once, no attempt after Cancel().  Asynchronous listings are    *)
(* loops of their own and left to those modules.                           *)
(***************************************************************************)
EXTENDS AdminService

CONSTANTS Callers,      \* the calls under way at the same time
          Asked,        \* Asked[c]: the <<operation, style>> it may be
          MaxFailures,  \* of LimitedErrorCountRetryPolicy
          MaxPolls,     \* of the same policy inside GenericPollingPolicy
          Pages,        \* the pages of a listing
          MaxWrites     \* bound: the mutations applied to the table

ASSUME AdminAssumption ==
  /\ MaxFailures \in Nat /\ MaxPolls \in Nat
  /\ Pages \in Nat \ {0} /\ MaxWrites \in Nat
  /\ \A c \in Callers :
       Asked[c] \subseteq ((DOMAIN Sync) \X {"sync"})
                            \cup ((DOMAIN Async) \X {"async"})

VARIABLES at,           \* the resources
          lro,          \* lro[c]: the long-running operation of call c
          written, replicated, \* mutations applied, and replicated of them
          call          \* call[c]: the call

vars == <<at, lro, written, replicated, call>>

(* How a long-running operation may end: a response, a response of another *)
(* type, or an error.                                                      *)
Outcomes == {"response", "garbled", "error"}

Idle == [pc |-> "idle", op |-> "none", style |-> "sync", failures |-> 0,
         page |-> 0, status |-> "OK", lro |-> "none",
         polls |-> 0, token |-> 0, before |-> 0, consistent |-> FALSE,
         changed |-> FALSE, phase |-> "retry", current_op_ |-> "none",
         assigning |-> "none", cancelled_ |-> FALSE, loopCancelled |-> FALSE,
         outcome |-> "none"]

Init ==
  /\ at \in {[r \in Resources |-> IF r \in missing THEN Absent ELSE "another"] :
               missing \in {Resources, {"table", "families", "rows"}, {}}}
  /\ lro = [c \in Callers |-> "none"]
  /\ written = 0 /\ replicated = 0
  /\ call = [c \in Callers |-> Idle]

-----------------------------------------------------------------------------
(* Policies.                                                               *)

Transient(s) == s \in {"OK", "UNAVAILABLE"}

(* The failure count after OnFailure(s), and its verdict.                  *)
Count(n, s) == IF Transient(s) THEN n + 1 ELSE n

OnFailure(n, max, s) == Transient(s) /\ n + 1 <= max

(* GenericPollingPolicy::Exhausted() counts as a failure.                  *)
Exhausted(n) == ~OnFailure(n, MaxPolls, "OK")

(* The call returns, throws, or its callback gets the status; its policies *)
(* and loops are gone.                                                     *)
Finished(k, s) ==
  [Idle EXCEPT !.pc = "returned", !.op = k.op, !.style = k.style,
     !.page = k.page, !.status = s, !.before = k.before, !.changed = k.changed,
     !.phase = k.phase, !.cancelled_ = k.cancelled_,
     !.outcome = IF s = "OK" THEN "value" ELSE Reported(k.op, k.style)]

(* Whether a call is about the replication of the mutations so far.        *)
Consistency(op) == op \in {"AwaitConsistency", "WaitForConsistencyCheck"}

WrittenFor(op) == IF Consistency(op) THEN written ELSE 0

Set(c, k) == call' = [call EXCEPT ![c] = k]

-----------------------------------------------------------------------------
(* A function of InstanceAdmin or TableAdmin is called.  The caller of     *)
(* WaitForConsistencyCheck() has just obtained a token.                    *)
StartSync(c) ==
  /\ call[c].pc = "idle"
  /\ \E ask \in Asked[c] :
       /\ ask[2] = "sync" /\ ask[1] \in DOMAIN Api
       /\ Set(c, [Idle EXCEPT !.pc = "ready", !.op = ask[1],
                    !.token = WrittenFor(ask[1]), !.before = WrittenFor(ask[1])])
  /\ UNCHANGED <<at, lro, written, replicated>>

(* AsyncRetryUnaryRpc: the handle is the loop itself.  The calls with two  *)
(* phases start their first loop with the mutex held, and the attempt may  *)
(* be answered before current_op_ is assigned.                             *)
StartAsync(c) ==
  /\ call[c].pc = "idle"
  /\ \E ask \in Asked[c] :
       /\ ask[2] = "async" /\ ask[1] \notin Paged
       /\ Set(c, [Idle EXCEPT !.pc = "inflight", !.op = ask[1],
                    !.style = "async", !.before = WrittenFor(ask[1]),
                    !.assigning = IF ask[1] \in TwoPhase THEN "retry" ELSE "none",
                    !.current_op_ = IF ask[1] \in TwoPhase THEN "none" ELSE "retry"])
  /\ UNCHANGED <<at, lro, written, replicated>>

-----------------------------------------------------------------------------
(* One attempt of the first RPC of a call.                                 *)

Attempting(c) ==
  \/ call[c].pc = "ready"
  \/ call[c].pc = "inflight" /\ call[c].phase = "retry"

Handled(c) == Handle(at, Rpc(call[c].op, call[c].style), c)

(* A failed attempt; a cancelled one may fail with CANCELLED.              *)
Answered(c, s) ==
  LET k == call[c]
  IN  Set(c, [k EXCEPT !.pc = "answered", !.status = s,
                !.changed = @ \/ at' # at])

Cancelling(c) == IF call[c].loopCancelled THEN {"CANCELLED"} ELSE {}

Lose(c) ==
  /\ Attempting(c)
  /\ at' = at
  /\ \E s \in {"UNAVAILABLE", "PERMISSION_DENIED"} \cup Cancelling(c) :
       Answered(c, s)
  /\ UNCHANGED <<lro, written, replicated>>

(* The service carries out the request, but the answer is lost.            *)
ServeAndLose(c) ==
  /\ Attempting(c)
  /\ at' = Handled(c).at
  /\ \E s \in {"UNAVAILABLE"} \cup Cancelling(c) : Answered(c, s)
  /\ UNCHANGED <<lro, written, replicated>>

(* It answers; a long-running operation may be done already.               *)
Serve(c) ==
  LET k == call[c]
      h == Handled(c)
      good == h.code = "OK"
  IN  /\ Attempting(c)
      /\ at' = h.at
      /\ \E o \in IF good /\ k.op \in LongRunning THEN {"running"} \cup Outcomes
                  ELSE {"none"} :
           /\ lro' = [lro EXCEPT ![c] = o]
           /\ Set(c, [k EXCEPT !.pc = "answered", !.status = h.code, !.lro = o,
                !.page = IF good /\ k.op \in Paged THEN @ + 1 ELSE @,
                !.token = IF good /\ k.op = "AwaitConsistency" THEN written ELSE @,
                !.consistent = good /\ Consistency(k.op) /\ replicated >= k.token,
                !.changed = @ \/ at' # at])
      /\ UNCHANGED <<written, replicated>>

-----------------------------------------------------------------------------
(* Synchronous calls.                                                      *)

(* A successful MakeCall() is followed by the next page, the polling of a  *)
(* long-running operation, a look at the consistency, or the end.          *)
Proceed(k) ==
  CASE k.op \in Paged /\ k.page < Pages -> [k EXCEPT !.pc = "ready"]
    [] k.op \in LongRunning -> [k EXCEPT !.pc = "polling"]
    [] k.op = "WaitForConsistencyCheck" -> [k EXCEPT !.pc = "checked"]
    [] OTHER -> Finished(k, "OK")

Fail(k) ==
  IF k.op = "WaitForConsistencyCheck" THEN [k EXCEPT !.pc = "checked"]
  ELSE Finished(k, k.status)

(* MakeNonIdemponentCall() and MakeCall(), after an attempt.  Without      *)
(* retry_on_failure the delay passes before the failure is reported.       *)
SyncAnswered(c) ==
  LET k == call[c]
  IN  /\ k.pc = "answered" /\ k.style = "sync"
      /\ Set(c, IF k.status = "OK" THEN Proceed(k)
                ELSE IF Sync[k.op] = "retry" /\ OnFailure(k.failures, MaxFailures, k.status)
                THEN [k EXCEPT !.pc = "ready", !.failures = @ + 1]
                ELSE Fail(k))
      /\ UNCHANGED <<at, lro, written, replicated>>

(* PollLongRunningOperation().                                             *)
Result(o) ==
  CASE o = "response" -> "OK" [] o = "error" -> "FAILED" [] o = "garbled" -> "UNKNOWN"

PollSync(c) ==
  LET k == call[c]
  IN  /\ k.pc = "polling"
      /\ \/ /\ k.lro # "running"
            /\ Set(c, Finished(k, Result(k.lro)))
         \/ /\ k.lro = "running"
            /\ \E s \in {"OK", "UNAVAILABLE", "PERMISSION_DENIED"} :
                 LET once == IF s = "OK" THEN k.polls ELSE Count(k.polls, s)
                 IN  Set(c, IF s # "OK" /\ ~OnFailure(k.polls, MaxPolls, s)
                            THEN Finished(k, s)
                            ELSE IF Exhausted(once) THEN Finished(k, "UNKNOWN")
                            ELSE [k EXCEPT !.polls = once + 1,
                                    !.lro = IF s = "OK" THEN lro[c] ELSE @])
      /\ UNCHANGED <<at, lro, written, replicated>>

(* WaitForConsistencyCheckHelper(), after a MakeCall() with policies of    *)
(* its own.  A false result is not an error.                               *)
Checked(c) ==
  LET k == call[c]
  IN  /\ k.pc = "checked"
      /\ Set(c, CASE k.status = "OK" /\ k.consistent -> Finished(k, "OK")
                  [] ~Transient(k.status)            -> Finished(k, k.status)
                  [] Transient(k.status) /\ ~(k.status = "OK" /\ k.consistent) ->
                       IF ~Exhausted(k.polls)
                       THEN [k EXCEPT !.pc = "ready", !.polls = @ + 1, !.failures = 0]
                       ELSE IF k.status = "OK"
                       THEN [Finished(k, "OK") EXCEPT !.outcome = "false"]
                       ELSE Finished(k, k.status))
      /\ UNCHANGED <<at, lro, written, replicated>>

-----------------------------------------------------------------------------
(* Asynchronous calls: their loops.                                        *)

(* Operation::OnCompletion() wants another attempt.                        *)
Again(k) ==
  IF k.loopCancelled THEN [k EXCEPT !.pc = "callback", !.status = "CANCELLED"]
  ELSE [k EXCEPT !.pc = "waiting"]

(* RetriableLoopAdapter::OnCompletion().                                   *)
AsyncAnswered(c) ==
  LET k == call[c]
  IN  /\ k.pc = "answered" /\ k.style = "async"
      /\ Set(c, IF \/ k.status \in {"OK", "CANCELLED"} \/ ~Async[k.op]
                   \/ ~OnFailure(k.failures, MaxFailures, k.status)
                THEN [k EXCEPT !.pc = "callback"]
                ELSE Again([k EXCEPT !.failures = @ + 1]))
      /\ UNCHANGED <<at, lro, written, replicated>>

(* The timer between two attempts expires or is cancelled.                 *)
OnTimer(c) ==
  LET k == call[c]
  IN  /\ k.pc = "waiting"
      /\ Set(c, IF k.loopCancelled
                THEN [k EXCEPT !.pc = "callback", !.status = "CANCELLED"]
                ELSE [k EXCEPT !.pc = "inflight"])
      /\ UNCHANGED <<at, lro, written, replicated>>

(* What an attempt of AsyncCheckConsistency or AsyncLongrunningOp tells    *)
(* PollableLoopAdapter when the RPC succeeds.                              *)
\* mutant: any answer to CheckConsistency ends the polling
PollFinished_Any(c) ==
  IF call[c].op = "AwaitConsistency" THEN TRUE ELSE lro[c] # "running"
PollFinished(c) ==
  IF call[c].op = "AwaitConsistency" THEN replicated >= call[c].token
  ELSE lro[c] # "running"

(* AccumulatedResult() does not look at the type of the response.          *)
PollResult(o) == IF o = "error" THEN "FAILED" ELSE "OK"

(* PollableLoopAdapter::OnCompletion().                                    *)
PollCompleted(k, s, finished) ==
  LET once == Count(k.polls, s)
  IN  IF s = "CANCELLED" \/ finished THEN [k EXCEPT !.pc = "callback", !.status = s]
      ELSE IF s # "OK" /\ ~OnFailure(k.polls, MaxPolls, s)
      THEN [k EXCEPT !.pc = "callback", !.status = s]
      ELSE IF Exhausted(once) THEN [k EXCEPT !.pc = "callback", !.status = "UNKNOWN"]
      ELSE Again([k EXCEPT !.polls = once + 1])

(* AsyncLongrunningOp::Start() on an operation that is done already sends  *)
(* no RPC: the completion queue runs the callback.                         *)
PollDone(c) ==
  LET k == call[c]
  IN  /\ k.pc = "inflight" /\ k.phase = "poll" /\ k.lro \in Outcomes
      /\ Set(c, PollCompleted(k, PollResult(k.lro), TRUE))
      /\ UNCHANGED <<at, lro, written, replicated>>

PollAsync(c) ==
  LET k == call[c]
      finished == PollFinished(c)
  IN  /\ k.pc = "inflight" /\ k.phase = "poll" /\ k.lro \notin Outcomes
      /\ \/ Set(c, PollCompleted([k EXCEPT !.lro = lro[c]],
                     IF finished THEN PollResult(lro[c]) ELSE "OK", finished))
         \/ \E s \in {"UNAVAILABLE", "PERMISSION_DENIED"} \cup Cancelling(c) :
              Set(c, PollCompleted(k, s, FALSE))
      /\ UNCHANGED <<at, lro, written, replicated>>

-----------------------------------------------------------------------------
(* Asynchronous calls: the mutex, the handle and the callback.             *)

(* current_op_ = ...->Start(cq); the mutex is released.                    *)
Assign(c) ==
  /\ call[c].assigning # "none"
  /\ Set(c, [call[c] EXCEPT !.current_op_ = call[c].assigning, !.assigning = "none"])
  /\ UNCHANGED <<at, lro, written, replicated>>

MutexFree(c) == call[c].assigning = "none"

(* The loop that is current when Cancel() has the mutex is cancelled too.  *)
\* mutant: Cancel() only raises the flag
CancelCurrentOp_FlagOnly(k) == [k EXCEPT !.cancelled_ = TRUE]
CancelCurrentOp(k) ==
  [k EXCEPT !.cancelled_ = TRUE,
            !.loopCancelled = @ \/ k.current_op_ # "none"]

Cancel(c) ==
  /\ call[c].style = "async" /\ call[c].pc \notin {"idle", "returned"}
  /\ ~call[c].cancelled_ /\ Cancellable(call[c].op)
  /\ MutexFree(c)
  /\ Set(c, CancelCurrentOp(call[c]))
  /\ UNCHANGED <<at, lro, written, replicated>>

(* The callback of a call with one phase.                                  *)
OnCompletion(c) ==
  /\ call[c].pc = "callback" /\ call[c].op \notin TwoPhase
  /\ Set(c, Finished(call[c], call[c].status))
  /\ UNCHANGED <<at, lro, written, replicated>>

(* OnLongrunningStarted(), ConsistencyTokenGeneratedFunctor.               *)
\* mutant: a cancellation that came too late for the RPC is forgotten
OnLongrunningStarted_NotChecked(c) ==
  LET k == [call[c] EXCEPT !.current_op_ = "none"]
  IN  /\ k.pc = "callback" /\ k.op \in TwoPhase /\ k.phase = "retry"
      /\ MutexFree(c)
      /\ Set(c, IF k.status # "OK" THEN Finished(k, k.status)
                ELSE [k EXCEPT !.pc = "inflight", !.phase = "poll",
                        !.assigning = "poll", !.loopCancelled = FALSE])
      /\ UNCHANGED <<at, lro, written, replicated>>
OnLongrunningStarted(c) ==
  LET k == [call[c] EXCEPT !.current_op_ = "none"]
  IN  /\ k.pc = "callback" /\ k.op \in TwoPhase /\ k.phase = "retry"
      /\ MutexFree(c)
      /\ Set(c, IF k.cancelled_ THEN Finished(k, "CANCELLED")
                ELSE IF k.status # "OK" THEN Finished(k, k.status)
                ELSE [k EXCEPT !.pc = "inflight", !.phase = "poll",
                        !.assigning = "poll", !.loopCancelled = FALSE])
      /\ UNCHANGED <<at, lro, written, replicated>>

(* OnLongrunningCompleted(), CheckConsistencyFunctor.                      *)
OnLongrunningCompleted(c) ==
  LET k == [call[c] EXCEPT !.current_op_ = "none"]
  IN  /\ k.pc = "callback" /\ k.op \in TwoPhase /\ k.phase = "poll"
      /\ MutexFree(c)
      /\ Set(c, Finished(k, k.status))
      /\ UNCHANGED <<at, lro, written, replicated>>

-----------------------------------------------------------------------------
(* The service at work.                                                    *)

Settle(c) ==
  /\ lro[c] = "running"
  /\ \E o \in Outcomes : lro' = [lro EXCEPT ![c] = o]
  /\ UNCHANGED <<at, written, replicated, call>>

Mutate ==
  /\ written < MaxWrites
  /\ written' = written + 1
  /\ UNCHANGED <<at, lro, replicated, call>>

Replicate ==
  /\ replicated < written
  /\ replicated' = replicated + 1
  /\ UNCHANGED <<at, lro, written, call>>

Attempt(c) == Lose(c) \/ ServeAndLose(c) \/ Serve(c)

Next ==
  \/ \E c \in Callers :
       \/ StartSync(c) \/ StartAsync(c) \/ Lose(c) \/ ServeAndLose(c) \/ Serve(c)
       \/ SyncAnswered(c) \/ PollSync(c) \/ Checked(c)
       \/ AsyncAnswered(c) \/ OnTimer(c) \/ PollDone(c) \/ PollAsync(c)
       \/ Assign(c) \/ Cancel(c) \/ OnCompletion(c)
       \/ OnLongrunningStarted(c) \/ OnLongrunningCompleted(c) \/ Settle(c)
  \/ Mutate \/ Replicate

(* The threads are scheduled.  The server answers a synchronous call in    *)
(* the end; an asynchronous attempt is only sure to complete once it is    *)
(* cancelled, a timer and a callback scheduled by RunAsync() always.       *)
Fairness ==
  \A c \in Callers :
     /\ WF_vars(Attempt(c) /\ (call[c].style = "sync" \/ call[c].loopCancelled))
     /\ WF_vars(PollAsync(c) /\ call[c].loopCancelled)
     /\ WF_vars(PollDone(c)) /\ WF_vars(SyncAnswered(c)) /\ WF_vars(PollSync(c))
     /\ WF_vars(Checked(c)) /\ WF_vars(AsyncAnswered(c)) /\ WF_vars(OnTimer(c))
     /\ WF_vars(Assign(c)) /\ WF_vars(OnCompletion(c))
     /\ WF_vars(OnLongrunningStarted(c)) /\ WF_vars(OnLongrunningCompleted(c))

Spec == Init /\ [][Next]_vars /\ Fairness

-----------------------------------------------------------------------------
(* Properties.                                                             *)

(* The calls whose comments say "This API is not idempotent"; those of     *)
(* tables are not repeated asynchronously either.  UpdateAppProfile() has  *)
(* the comment as well, and is repeated.                                   *)
NotIdempotent(k) ==
  \/ k.op \in {"CreateTable", "DeleteTable", "DeleteSnapshot"}
  \/ k.style = "sync" /\ k.op \in {"DeleteInstance", "DeleteCluster", "CreateAppProfile"}

(* A refusal is the truth: such a call that ends with ALREADY_EXISTS or    *)
(* NOT_FOUND has not itself created or deleted what it reports on,         *)
(* whatever answers were lost and whatever other callers did               *)
(* (internal/table_admin.cc: "This API is not idempotent, lets call it     *)
(* without retry").                                                        *)
RefusalIsTrue ==
  \A c \in Callers :
     LET k == call[c]
     IN  /\ k.pc = "returned" /\ k.status \in {"ALREADY_EXISTS", "NOT_FOUND"}
         /\ NotIdempotent(k)
         => ~k.changed

(* Success means that everything a call stands for has happened: all pages *)
(* were read; the long-running operation ended with its response; and the  *)
(* mutations applied before AsyncAwaitConsistency() or the consistency     *)
(* token are replicated (internal/table_admin.h: "After this function      *)
(* returns OK you can be sure that all mutations which have been applied   *)
(* before this call have made it to their replicas").  Asynchronous calls  *)
(* do not notice a response of another type.                               *)
OkMeansDone ==
  \A c \in Callers :
     LET k == call[c]
     IN  k.outcome = "value" =>
           /\ k.op \in Paged => k.page = Pages
           /\ k.op \in LongRunning =>
                \/ lro[c] = "response"
                \/ k.style = "async" /\ lro[c] = "garbled"
           /\ Consistency(k.op) => replicated >= k.before

(* A call that is cancelled before its second phase never starts it, even  *)
(* if the first RPC succeeded all the same (async_retry_unary_rpc_and_poll *)
(* .h: "we should still interrupt the execution, i.e. not schedule the     *)
(* poll").                                                                 *)
NoPollAfterCancel ==
  [][\A c \in Callers :
       call[c].cancelled_ /\ call[c].phase = "retry" => call'[c].phase = "retry"]_vars

(* Every synchronous call returns, and every cancelled asynchronous call   *)
(* calls back even if the service never answers.                           *)
AdminCallEnds ==
  \A c \in Callers :
     (call[c].pc # "idle" /\ (call[c].style = "sync" \/ call[c].cancelled_))
       ~> call[c].pc = "returned"

=============================================================================
