------------------------------ MODULE AsyncLoop ------------------------------
(***************************************************************************)
(* AsyncLoopOp (google/cloud/bigtable/internal/async_loop_op.h): run the   *)
(* attempts of an asynchronous Operation one after the other, with a timer *)
(* between two attempts, until the Operation reports that it is finished   *)
(* or somebody cancels the loop.                                           *)
(*                                                                         *)
(* The Operation is abstract here: an attempt may finish the loop or ask   *)
(* for another attempt, after no delay or after some delay.  AsyncRetryOp, *)
(* AsyncMultiPageOp and AsyncPollOp are loops over concrete Operations and *)
(* implement this specification.                                           *)
(*                                                                         *)
(* Threads: the application thread that calls Start() (Starter), the       *)
(* threads that run CompletionQueue::Run() (Runner), the application       *)
(* threads that call Cancel() (Canceller).  The completion queue is        *)
(* represented by what CompletionQueue.tla shows of it: the callback of    *)
(* each registered operation runs once, on one of the runners.             *)
(***************************************************************************)
EXTENDS Naturals, FiniteSets

CONSTANTS
  Starter,     \* the thread that calls Start()
  Runner,      \* the threads in CompletionQueue::Run()
  Canceller,   \* the threads that call Cancel(), once each
  Op,          \* the addresses of AsyncGrpcOperation objects
  NoOp,        \* the null std::shared_ptr<AsyncOperation>
  NoThread     \* nobody owns the mutex

Thread == {Starter} \union Runner \union Canceller

ASSUME ThreadAssumption ==
  /\ Starter \notin Runner \union Canceller
  /\ Runner \intersect Canceller = {}
  /\ NoThread \notin Thread
  /\ NoOp \notin Op

VARIABLES
  mu_,          \* the owner of AsyncLoopOp::mu_
  cancelled_,   \* AsyncLoopOp::cancelled_
  current_op_,  \* AsyncLoopOp::current_op_
  kind,         \* what each AsyncGrpcOperation is
  opState,      \* where each AsyncGrpcOperation is in its life
  opCancel,     \* Cancel() was called on the AsyncGrpcOperation
  ok,           \* the flag with which gRPC completed it
  pc,           \* the point each thread has reached
  held,         \* the local `op` of a thread in CompletionQueueImpl::Run()
  made,         \* the value Operation::Start() or MakeRelativeTimer() returns
  fired         \* history: how often the user callback was called

vars == <<mu_, cancelled_, current_op_, kind, opState, opCancel, ok, pc, held,
          made, fired>>

opVars == <<kind, opState, opCancel, ok>>

Kind == {"rpc", "timer", "run"}

(* "pending": submitted to gRPC; "ready": its tag is in the gRPC queue;     *)
(* "running": a runner is in its Notify() or about to forget it.            *)
OpState == {"free", "pending", "ready", "running"}

PC == {"idle", "Start", "RunAsync", "StartUnlocked", "assign", "returned",
       "Adapter", "userCallback", "OnCompletionFinished", "OnCompletion",
       "MakeRelativeTimer", "OnTimer", "OperationCancel", "cancelCallback",
       "ForgetOperation"}

Init ==
  /\ mu_ = NoThread
  /\ cancelled_ = FALSE
  /\ current_op_ = NoOp
  /\ kind = [o \in Op |-> "rpc"]
  /\ opState = [o \in Op |-> "free"]
  /\ opCancel = [o \in Op |-> FALSE]
  /\ ok = [o \in Op |-> TRUE]
  /\ pc = [t \in Thread |-> IF t = Starter THEN "Start" ELSE "idle"]
  /\ held = [t \in Thread |-> NoOp]
  /\ made = [t \in Thread |-> NoOp]
  /\ fired = 0

------------------------------------------------------------------------------
(* The objects that live in the completion queue.                           *)

(* The memory of an operation is reused once no shared_ptr refers to it.    *)
Unreferenced(o) ==
  /\ opState[o] = "free"
  /\ current_op_ # o
  /\ \A t \in Thread : held[t] # o /\ made[t] # o

(* CompletionQueue::Make*(): register a new operation and submit it.        *)
MakeOperation(o, k) ==
  /\ Unreferenced(o)
  /\ kind' = [kind EXCEPT ![o] = k]
  /\ opState' = [opState EXCEPT ![o] = "pending"]
  /\ opCancel' = [opCancel EXCEPT ![o] = FALSE]
  /\ ok' = [ok EXCEPT ![o] = TRUE]

(* gRPC: the operation completes.  Only a cancelled alarm completes with    *)
(* ok == false, and a cancellation may come too late to have that effect.   *)
Complete(o) ==
  /\ opState[o] = "pending"
  /\ opState' = [opState EXCEPT ![o] = "ready"]
  /\ \E b \in IF kind[o] # "rpc" /\ opCancel[o] THEN BOOLEAN ELSE {TRUE} :
       ok' = [ok EXCEPT ![o] = b]
  /\ UNCHANGED <<mu_, cancelled_, current_op_, kind, opCancel, pc, held, made,
                 fired>>

(* CompletionQueueImpl::Run() gets the tag of o, finds o and notifies it.   *)
Notify(t, o) ==
  /\ pc[t] = "idle"
  /\ opState[o] = "ready"
  /\ opState' = [opState EXCEPT ![o] = "running"]
  /\ held' = [held EXCEPT ![t] = o]
  /\ pc' = [pc EXCEPT ![t] = IF kind[o] = "rpc" THEN "Adapter" ELSE "OnTimer"]
  /\ UNCHANGED <<mu_, cancelled_, current_op_, kind, opCancel, ok, made, fired>>

(* Notify() returned true: CompletionQueueImpl::Run() forgets the operation. *)
ForgetOperation(t) ==
  /\ pc[t] = "ForgetOperation"
  /\ opState' = [opState EXCEPT ![held[t]] = "free"]
  /\ held' = [held EXCEPT ![t] = NoOp]
  /\ pc' = [pc EXCEPT ![t] = "idle"]
  /\ UNCHANGED <<mu_, cancelled_, current_op_, kind, opCancel, ok, made, fired>>

------------------------------------------------------------------------------
(* AsyncLoopOp.                                                             *)

Lock(t) == mu_ = NoThread /\ mu_' = t

(* Where a thread goes when the member function of AsyncLoopOp returns.     *)
Return(t) == IF t = Starter THEN "returned" ELSE "ForgetOperation"

(* Start(): with the mutex, decide whether to make the first attempt.       *)
Start ==
  /\ pc[Starter] = "Start"
  /\ IF cancelled_
       THEN /\ mu_ = NoThread
            /\ pc' = [pc EXCEPT ![Starter] = "RunAsync"]
            /\ UNCHANGED mu_
       ELSE /\ Lock(Starter)
            /\ pc' = [pc EXCEPT ![Starter] = "StartUnlocked"]
  /\ UNCHANGED <<cancelled_, current_op_, opVars, held, made, fired>>

(* Start() on a cancelled loop: the callback is scheduled with RunAsync(),  *)
(* without the mutex, and the timer is not kept in current_op_.             *)
RunAsync ==
  /\ pc[Starter] = "RunAsync"
  /\ \E o \in Op : MakeOperation(o, "run")
  /\ pc' = [pc EXCEPT ![Starter] = "returned"]
  /\ UNCHANGED <<mu_, cancelled_, current_op_, held, made, fired>>

(* StartUnlocked(), called with the mutex: Operation::Start() submits the   *)
(* attempt, which may complete before the assignment to current_op_.        *)
StartUnlocked(t) ==
  /\ pc[t] = "StartUnlocked"
  /\ \E o \in Op :
       /\ MakeOperation(o, "rpc")
       /\ made' = [made EXCEPT ![t] = o]
  /\ pc' = [pc EXCEPT ![t] = "assign"]
  /\ UNCHANGED <<mu_, cancelled_, current_op_, held, fired>>

(* OnCompletion(), still with the mutex: schedule the next attempt.         *)
MakeRelativeTimer(t) ==
  /\ pc[t] = "MakeRelativeTimer"
  /\ \E o \in Op :
       /\ MakeOperation(o, "timer")
       /\ made' = [made EXCEPT ![t] = o]
  /\ pc' = [pc EXCEPT ![t] = "assign"]
  /\ UNCHANGED <<mu_, cancelled_, current_op_, held, fired>>

(* The assignment current_op_ = ..., and the mutex is released.             *)
Assign(t) ==
  /\ pc[t] = "assign"
  /\ current_op_' = made[t]
  /\ made' = [made EXCEPT ![t] = NoOp]
  /\ mu_' = NoThread
  /\ pc' = [pc EXCEPT ![t] = Return(t)]
  /\ UNCHANGED <<cancelled_, opVars, held, fired>>

(* The Operation handles the completion of its attempt without the mutex:   *)
(* either it calls the user callback and the loop is finished ...           *)
AttemptFinished(t) ==
  /\ pc[t] = "Adapter"
  /\ fired' = fired + 1
  /\ pc' = [pc EXCEPT ![t] = "userCallback"]
  /\ UNCHANGED <<mu_, cancelled_, current_op_, opVars, held, made>>

(* ... or it asks for another attempt.                                      *)
AttemptNotFinished(t) ==
  /\ pc[t] = "Adapter"
  /\ pc' = [pc EXCEPT ![t] = "OnCompletion"]
  /\ UNCHANGED <<mu_, cancelled_, current_op_, opVars, held, made, fired>>

(* Fault: the finished attempt stays in current_op_.                        *)
ResetCurrentOp_Dropped == mu_ = NoThread /\ UNCHANGED current_op_

(* current_op_.reset(), the first thing every callback does with the mutex. *)
ResetCurrentOp == mu_ = NoThread /\ current_op_' = NoOp

(* Fault: the mutex is kept, as it is for the next attempt.                 *)
UnlockAndCancel_Locked(t) ==
  /\ pc' = [pc EXCEPT ![t] = "OperationCancel"]
  /\ mu_' = t

(* lk.unlock(), so that operation_.Cancel(cq) runs without the mutex.       *)
UnlockAndCancel(t) ==
  /\ pc' = [pc EXCEPT ![t] = "OperationCancel"]
  /\ mu_' = NoThread

(* OnCompletion(cq, true): let go of the attempt and stop.                  *)
OnCompletionFinished(t) ==
  /\ pc[t] = "OnCompletionFinished"
  /\ ResetCurrentOp
  /\ pc' = [pc EXCEPT ![t] = "ForgetOperation"]
  /\ UNCHANGED <<mu_, cancelled_, opVars, held, made, fired>>

(* OnCompletion(cq, false): stop if cancelled_, otherwise go on with the    *)
(* mutex held; noDelay is WaitPeriod() == 0.                                *)
OnCompletion(t, noDelay) ==
  /\ pc[t] = "OnCompletion"
  /\ ResetCurrentOp
  /\ IF cancelled_
       THEN UnlockAndCancel(t)
       ELSE /\ mu_' = t
            /\ pc' = [pc EXCEPT ![t] = IF noDelay THEN "StartUnlocked"
                                                  ELSE "MakeRelativeTimer"]
  /\ UNCHANGED <<cancelled_, opVars, held, made, fired>>

(* OnTimer(cq, cancelled): RunAsync() always passes cancelled == false.     *)
TimerCancelled(o) == kind[o] = "timer" /\ ~ok[o]

(* Fault: the flag cancelled_ is not consulted.                             *)
StopAfterTimer_AlarmOnly(t) == TimerCancelled(held[t])

StopAfterTimer(t) == TimerCancelled(held[t]) \/ cancelled_

OnTimer(t) ==
  /\ pc[t] = "OnTimer"
  /\ ResetCurrentOp
  /\ IF StopAfterTimer(t)
       THEN UnlockAndCancel(t)
       ELSE /\ mu_' = t
            /\ pc' = [pc EXCEPT ![t] = "StartUnlocked"]
  /\ UNCHANGED <<cancelled_, opVars, held, made, fired>>

(* Operation::Cancel(), without the mutex: the user callback is called.     *)
OperationCancel(t) ==
  /\ pc[t] = "OperationCancel"
  /\ fired' = fired + 1
  /\ pc' = [pc EXCEPT ![t] = "cancelCallback"]
  /\ UNCHANGED <<mu_, cancelled_, current_op_, opVars, held, made>>

InCallback(t) == pc[t] \in {"userCallback", "cancelCallback"}

(* Fault: the loop is told that the attempt did not finish it.              *)
AfterCallback_NotFinished(t) ==
  IF pc[t] = "userCallback" THEN "OnCompletion" ELSE "ForgetOperation"

(* After the user callback: attempt_completed_callback(cq, true) if the     *)
(* Operation called it for an attempt, the end of Notify() otherwise.       *)
AfterCallback(t) ==
  IF pc[t] = "userCallback" THEN "OnCompletionFinished" ELSE "ForgetOperation"

(* The user callback returns.                                               *)
CallbackReturns(t) ==
  /\ InCallback(t)
  /\ pc' = [pc EXCEPT ![t] = AfterCallback(t)]
  /\ UNCHANGED <<mu_, cancelled_, current_op_, opVars, held, made, fired>>

(* Fault: Cancel() calls operation_.Cancel() itself, as OnTimer() does.     *)
CancelReturns_Inline(t) == [pc EXCEPT ![t] = "OperationCancel"]

CancelReturns(t) == [pc EXCEPT ![t] = "returned"]

(* Fault: Cancel() only raises the flag.                                    *)
CancelCurrentOp_Dropped == UNCHANGED <<opCancel, current_op_>>

(* if (current_op_) { current_op_->Cancel(); current_op_.reset(); }         *)
CancelCurrentOp ==
  /\ opCancel' = [o \in Op |-> opCancel[o] \/ o = current_op_]
  /\ current_op_' = NoOp

(* The body of Cancel(): the current attempt or timer is cancelled with the *)
(* mutex held.                                                              *)
CancelBody ==
  /\ mu_ = NoThread
  /\ cancelled_' = TRUE
  /\ CancelCurrentOp
  /\ UNCHANGED <<mu_, kind, opState, ok, held, made, fired>>

(* Cancel(), from any application thread and at any time.                   *)
Cancel(t) ==
  /\ pc[t] = "idle"
  /\ CancelBody
  /\ pc' = CancelReturns(t)

(* Cancel(), called by the user callback itself before it returns.          *)
CallbackCancels(t) ==
  /\ InCallback(t)
  /\ CancelBody
  /\ pc' = [pc EXCEPT ![t] = AfterCallback(t)]

(* Nothing is left to do: every thread is out of the library.               *)
Quiescent ==
  /\ pc[Starter] = "returned"
  /\ \A t \in Runner : pc[t] = "idle"
  /\ \A o \in Op : opState[o] = "free"

Terminated == Quiescent /\ UNCHANGED vars

(* A step of the thread t inside AsyncLoopOp, its Operation left out.       *)
LoopStep(t) ==
  \/ StartUnlocked(t) \/ MakeRelativeTimer(t) \/ Assign(t)
  \/ OnCompletionFinished(t) \/ OnTimer(t) \/ OperationCancel(t)
  \/ CallbackReturns(t) \/ ForgetOperation(t)

RunnerStep(t) ==
  \/ \E o \in Op : Notify(t, o)
  \/ AttemptFinished(t)
  \/ AttemptNotFinished(t)
  \/ \E noDelay \in BOOLEAN : OnCompletion(t, noDelay)
  \/ LoopStep(t)

StarterStep == Start \/ RunAsync \/ StartUnlocked(Starter) \/ Assign(Starter)

Next ==
  \/ StarterStep
  \/ \E t \in Runner : RunnerStep(t)
  \/ \E t \in Runner : CallbackCancels(t)
  \/ \E t \in Canceller : Cancel(t)
  \/ \E o \in Op : Complete(o)
  \/ Terminated

Spec == Init /\ [][Next]_vars

(* The threads are scheduled by the operating system.  A timer expires; an  *)
(* RPC is only sure to complete once it is cancelled (the retry policies    *)
(* that limit the number of errors set no deadline).                        *)
MustComplete(o) == Complete(o) /\ (kind[o] # "rpc" \/ opCancel[o])

Fairness ==
  /\ WF_vars(StarterStep)
  /\ \A t \in Runner : WF_vars(RunnerStep(t))
  /\ \A o \in Op : WF_vars(MustComplete(o))

FairSpec == Spec /\ Fairness

------------------------------------------------------------------------------
(* Properties.                                                              *)

(* Each kind of thread stays in its own part of the code.                   *)
RoleInv ==
  /\ pc[Starter] \in {"Start", "RunAsync", "StartUnlocked", "assign", "returned"}
  /\ \A t \in Canceller : pc[t] \in {"idle", "returned"}
  /\ \A t \in Runner : pc[t] \notin {"Start", "RunAsync", "returned"}

(* Every variable has its type, and each thread its role: in particular     *)
(* only a runner is ever inside the Operation's callbacks                   *)
(* (async_loop_op.h: AsyncLoopOp).                                          *)
TypeOK ==
  /\ RoleInv
  /\ mu_ \in Thread \union {NoThread}
  /\ cancelled_ \in BOOLEAN
  /\ current_op_ \in Op \union {NoOp}
  /\ kind \in [Op -> Kind]
  /\ opState \in [Op -> OpState]
  /\ opCancel \in [Op -> BOOLEAN]
  /\ ok \in [Op -> BOOLEAN]
  /\ pc \in [Thread -> PC]
  /\ held \in [Thread -> Op \union {NoOp}]
  /\ made \in [Thread -> Op \union {NoOp}]
  /\ fired \in Nat

(* The user callback is called at most once, however completions, timers,   *)
(* the end of Start() and cancellations are interleaved                     *)
(* (async_loop_op.h: OnCompletion, OnTimer, Cancel).                        *)
CallbackAtMostOnce == fired <= 1

(* Whichever of a completion, a timer and a cancelled Start() leads there,  *)
(* no thread is in the Operation's completion or in the user callback while *)
(* it owns mu_: the callback may call Cancel() on the same loop, which      *)
(* would lock mu_ twice and leave the loop, and everyone who cancels it,    *)
(* waiting for ever (async_loop_op.h: the lk.unlock() before                *)
(* operation_.Cancel(cq) in OnCompletion and in OnTimer).                   *)
CallbackUnlocked ==
  \A t \in Thread :
    pc[t] \in {"Adapter", "userCallback", "OperationCancel", "cancelCallback"}
      => mu_ # t

(* The threads in Operation::Start(), WaitPeriod() or Cancel().             *)
InOperation ==
  {t \in Thread : pc[t] \in {"StartUnlocked", "assign", "MakeRelativeTimer",
                             "OperationCancel", "cancelCallback"}}

(* AsyncLoopOp guarantees serial accesses to the Operation: no two threads  *)
(* are in it at the same time, and this although the mutex is not what      *)
(* keeps them apart: the Operation calls the user callback without it, so   *)
(* that the callback may cancel the loop (async_loop_op.h: AsyncLoopOp).    *)
SerialAccess ==
  /\ \A t, u \in InOperation : t = u
  /\ CallbackUnlocked

(* The loop and the operation in current_op_ own each other (the functor of *)
(* the operation holds the loop), so a loop that keeps an operation after   *)
(* its last callback is never destroyed: when nothing is left to run,       *)
(* current_op_ is empty (async_loop_op.h: the reset() of every callback).   *)
ReleasedWhenDone == Quiescent => current_op_ = NoOp

(* After Cancel() the loop submits no attempt and no timer; a cancellation  *)
(* that comes too late for the attempt or the timer in flight still stops   *)
(* the loop (async_loop_op.h: the comment on cancelled_).                   *)
NoAttemptAfterCancel ==
  [][cancelled_ =>
       \A o \in Op : opState[o] = "free" /\ opState'[o] # "free"
                        => kind'[o] = "run"]_vars

(* A cancelled loop calls the user callback even if the server never        *)
(* answers the attempt in flight.                                           *)
CancelCompletes ==
  (cancelled_ /\ pc[Starter] # "Start") ~> fired = 1
==============================================================================
