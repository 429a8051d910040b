------------------------- MODULE AsyncAdaptersProofs -------------------------
(***************************************************************************)
(* Proofs about AsyncLoop, for any number of runners, cancelling threads   *)
(* and operations, and then about AsyncAdapters: every retried, paged or   *)
(* polled call is such a loop, so it has the same properties, for any      *)
(* policy and any number of pages.                                         *)
(***************************************************************************)
EXTENDS AsyncAdapters, TLAPS

(* The threads that have the loop in hand: what they do next decides how it *)
(* goes on.  The other threads are in the queue, in a callback, or only     *)
(* have an assignment left.                                                 *)
ActivePC == {"Start", "RunAsync", "StartUnlocked", "MakeRelativeTimer",
             "Adapter", "OnCompletion", "OnTimer", "OperationCancel"}

Active == {t \in Thread : pc[t] \in ActivePC}

(* The operations whose completion will resume the loop.                    *)
Waiting == {o \in Op : opState[o] \in {"pending", "ready"}}

(* mu_ is owned exactly from StartUnlocked() or MakeRelativeTimer() to the  *)
(* assignment to current_op_, and the loop is not cancelled meanwhile.      *)
LockedPC == {"StartUnlocked", "MakeRelativeTimer", "assign"}

MutexInv ==
  \A t \in Thread : /\ mu_ = t <=> pc[t] \in LockedPC
                    /\ pc[t] \in LockedPC => ~cancelled_

(* A runner in a callback keeps its operation alive, and no other runner    *)
(* has the same operation.                                                  *)
Notifying(t) == t \in Runner /\ pc[t] # "idle"

HeldInv ==
  /\ \A t \in Thread : Notifying(t) => held[t] \in Op /\ opState[held[t]] = "running"
  /\ \A t, u \in Thread :
       Notifying(t) /\ Notifying(u) /\ held[t] = held[u] => t = u

(* The loop is in one place only: one active thread, or one operation in    *)
(* the queue, or it has called the user callback.                           *)
TokenInv ==
  /\ \A t, u \in Active : t = u
  /\ \A o, p \in Waiting : o = p
  /\ Active = {} \/ Waiting = {}
  /\ fired > 0 => Active = {} /\ Waiting = {}
  /\ fired <= 1

(* A thread in or past the user callback has counted it; while a thread has *)
(* the assignment left no other thread has entered Operation::Cancel().     *)
CallbackInv ==
  /\ \A t \in Thread :
       pc[t] \in {"userCallback", "OnCompletionFinished", "cancelCallback"}
         => fired > 0
  /\ \A t, u \in Thread : pc[t] = "cancelCallback" /\ pc[u] = "cancelCallback"
                            => t = u
  /\ \A t, u \in Thread : pc[t] = "assign"
                            => pc[u] \notin {"OperationCancel", "cancelCallback"}

(* The callback that will reset current_op_ is still to come.               *)
ResetPC == {"Adapter", "userCallback", "OnCompletionFinished", "OnCompletion",
            "OnTimer"}

Awaited(o) ==
  o \in Op /\ ( \/ opState[o] \in {"pending", "ready"}
                \/ \E t \in Runner : held[t] = o /\ pc[t] \in ResetPC )

ReleaseInv ==
  /\ current_op_ # NoOp => Awaited(current_op_)
  /\ \A t \in Thread : pc[t] = "assign" => Awaited(made[t])

Inv == TypeOK /\ MutexInv /\ HeldInv /\ TokenInv /\ CallbackInv
       /\ ReleaseInv

------------------------------------------------------------------------------
(* The initial states satisfy the inductive invariant.                      *)
LEMMA InvInit == Init => Inv
<1> SUFFICES ASSUME Init PROVE Inv
  OBVIOUS
<1> USE ThreadAssumption DEF Init, Thread
<1>1. TypeOK
  BY DEF TypeOK, RoleInv, Kind, OpState, PC
<1>2. MutexInv
  BY DEF MutexInv, LockedPC
<1>3. HeldInv /\ CallbackInv /\ ReleaseInv
  BY DEF HeldInv, Notifying, CallbackInv, ReleaseInv, Awaited
<1>4. TokenInv
  BY DEF TokenInv, Active, ActivePC, Waiting
<1> QED
  BY <1>1, <1>2, <1>3, <1>4 DEF Inv

(* Every step of the loop, of the queue and of the application preserves    *)
(* the inductive invariant.                                                 *)
LEMMA InvStep == Inv /\ [Next]_vars => Inv'
<1> SUFFICES ASSUME Inv, [Next]_vars PROVE Inv'
  OBVIOUS
<1> USE ThreadAssumption DEF Inv, Thread, opVars
<1>1. ASSUME Start PROVE Inv'
  <2>1. TypeOK'
    BY <1>1 DEF Start, Lock, TypeOK, Kind, OpState, PC, HeldInv,
         Notifying, RoleInv
  <2>2. MutexInv'
    BY <1>1 DEF Start, Lock, MutexInv, LockedPC, RoleInv, TypeOK
  <2>3. HeldInv'
    BY <1>1 DEF Start, Lock, HeldInv, Notifying, RoleInv, TypeOK
  <2>4. TokenInv'
    BY <1>1 DEF Start, Lock, TokenInv, Active, ActivePC, Waiting, HeldInv,
         Notifying, CallbackInv, RoleInv, TypeOK
  <2>5. CallbackInv'
    BY <1>1 DEF Start, Lock, CallbackInv, MutexInv, LockedPC, TokenInv,
         Active, ActivePC, RoleInv, TypeOK
  <2>6. ReleaseInv'
    BY <1>1 DEF Start, Lock, ReleaseInv, Awaited, ResetPC, MutexInv,
         LockedPC, HeldInv, Notifying, RoleInv, TypeOK
  <2> QED
    BY <2>1, <2>2, <2>3, <2>4, <2>5, <2>6
<1>2. ASSUME RunAsync PROVE Inv'
  <2>1. TypeOK'
    BY <1>2 DEF RunAsync, MakeOperation, Unreferenced, TypeOK, Kind,
         OpState, PC, HeldInv, Notifying, RoleInv
  <2>2. MutexInv'
    BY <1>2 DEF RunAsync, MakeOperation, Unreferenced, MutexInv, LockedPC,
         RoleInv, TypeOK
  <2>3. HeldInv'
    BY <1>2 DEF RunAsync, MakeOperation, Unreferenced, HeldInv, Notifying,
         RoleInv, TypeOK
  <2>4. TokenInv'
    BY <1>2 DEF RunAsync, MakeOperation, Unreferenced, TokenInv, Active,
         ActivePC, Waiting, HeldInv, Notifying, CallbackInv, RoleInv,
         TypeOK
  <2>5. CallbackInv'
    BY <1>2 DEF RunAsync, MakeOperation, Unreferenced, CallbackInv,
         MutexInv, LockedPC, TokenInv, Active, ActivePC, RoleInv, TypeOK
  <2>6. ReleaseInv'
    BY <1>2 DEF RunAsync, MakeOperation, Unreferenced, ReleaseInv,
         Awaited, ResetPC, MutexInv, LockedPC, HeldInv, Notifying,
         RoleInv, TypeOK
  <2> QED
    BY <2>1, <2>2, <2>3, <2>4, <2>5, <2>6
<1>3. ASSUME NEW t \in Thread, t \notin Canceller, StartUnlocked(t) PROVE Inv'
  <2>1. TypeOK'
    BY <1>3 DEF StartUnlocked, MakeOperation, Unreferenced, Return,
         TypeOK, Kind, OpState, PC, HeldInv, Notifying, RoleInv
  <2>2. MutexInv'
    BY <1>3 DEF StartUnlocked, MakeOperation, Unreferenced, Return,
         MutexInv, LockedPC, RoleInv, TypeOK
  <2>3. HeldInv'
    BY <1>3 DEF StartUnlocked, MakeOperation, Unreferenced, Return,
         HeldInv, Notifying, RoleInv, TypeOK
  <2>4. TokenInv'
    BY <1>3 DEF StartUnlocked, MakeOperation, Unreferenced, Return,
         TokenInv, Active, ActivePC, Waiting, HeldInv, Notifying,
         CallbackInv, RoleInv, TypeOK
  <2>5. CallbackInv'
    BY <1>3 DEF StartUnlocked, MakeOperation, Unreferenced, Return,
         CallbackInv, MutexInv, LockedPC, TokenInv, Active, ActivePC,
         RoleInv, TypeOK
  <2>6. ReleaseInv'
    BY <1>3 DEF StartUnlocked, MakeOperation, Unreferenced, Return,
         ReleaseInv, Awaited, ResetPC, MutexInv, LockedPC, HeldInv,
         Notifying, RoleInv, TypeOK
  <2> QED
    BY <2>1, <2>2, <2>3, <2>4, <2>5, <2>6
<1>4. ASSUME NEW t \in Thread, t \notin Canceller, MakeRelativeTimer(t) PROVE Inv'
  <2>1. TypeOK'
    BY <1>4 DEF MakeRelativeTimer, MakeOperation, Unreferenced, TypeOK,
         Kind, OpState, PC, HeldInv, Notifying, RoleInv
  <2>2. MutexInv'
    BY <1>4 DEF MakeRelativeTimer, MakeOperation, Unreferenced, MutexInv,
         LockedPC, RoleInv, TypeOK
  <2>3. HeldInv'
    BY <1>4 DEF MakeRelativeTimer, MakeOperation, Unreferenced, HeldInv,
         Notifying, RoleInv, TypeOK
  <2>4. TokenInv'
    BY <1>4 DEF MakeRelativeTimer, MakeOperation, Unreferenced, TokenInv,
         Active, ActivePC, Waiting, HeldInv, Notifying, CallbackInv,
         RoleInv, TypeOK
  <2>5. CallbackInv'
    BY <1>4 DEF MakeRelativeTimer, MakeOperation, Unreferenced,
         CallbackInv, MutexInv, LockedPC, TokenInv, Active, ActivePC,
         RoleInv, TypeOK
  <2>6. ReleaseInv'
    BY <1>4 DEF MakeRelativeTimer, MakeOperation, Unreferenced,
         ReleaseInv, Awaited, ResetPC, MutexInv, LockedPC, HeldInv,
         Notifying, RoleInv, TypeOK
  <2> QED
    BY <2>1, <2>2, <2>3, <2>4, <2>5, <2>6
<1>5. ASSUME NEW t \in Thread, t \notin Canceller, Assign(t) PROVE Inv'
  <2>1. TypeOK'
    BY <1>5 DEF Assign, Return, TypeOK, Kind, OpState, PC, HeldInv,
         Notifying, RoleInv
  <2>2. MutexInv'
    BY <1>5 DEF Assign, Return, MutexInv, LockedPC, RoleInv, TypeOK
  <2>3. HeldInv'
    BY <1>5 DEF Assign, Return, HeldInv, Notifying, RoleInv, TypeOK
  <2>4. TokenInv'
    BY <1>5 DEF Assign, Return, TokenInv, Active, ActivePC, Waiting,
         HeldInv, Notifying, CallbackInv, RoleInv, TypeOK
  <2>5. CallbackInv'
    BY <1>5 DEF Assign, Return, CallbackInv, MutexInv, LockedPC, TokenInv,
         Active, ActivePC, RoleInv, TypeOK
  <2>6. ReleaseInv'
    BY <1>5 DEF Assign, Return, ReleaseInv, Awaited, ResetPC, MutexInv,
         LockedPC, HeldInv, Notifying, RoleInv, TypeOK
  <2> QED
    BY <2>1, <2>2, <2>3, <2>4, <2>5, <2>6
<1>6. ASSUME NEW t \in Thread, t \notin Canceller, AttemptFinished(t) PROVE Inv'
  <2>1. TypeOK'
    BY <1>6 DEF AttemptFinished, TypeOK, Kind, OpState, PC, HeldInv,
         Notifying, RoleInv
  <2>2. MutexInv'
    BY <1>6 DEF AttemptFinished, MutexInv, LockedPC, RoleInv, TypeOK
  <2>3. HeldInv'
    BY <1>6 DEF AttemptFinished, HeldInv, Notifying, RoleInv, TypeOK
  <2>4. TokenInv'
    BY <1>6 DEF AttemptFinished, TokenInv, Active, ActivePC, Waiting,
         HeldInv, Notifying, CallbackInv, RoleInv, TypeOK
  <2>5. CallbackInv'
    BY <1>6 DEF AttemptFinished, CallbackInv, MutexInv, LockedPC,
         TokenInv, Active, ActivePC, RoleInv, TypeOK
  <2>6. ReleaseInv'
    BY <1>6 DEF AttemptFinished, ReleaseInv, Awaited, ResetPC, MutexInv,
         LockedPC, HeldInv, Notifying, RoleInv, TypeOK
  <2> QED
    BY <2>1, <2>2, <2>3, <2>4, <2>5, <2>6
<1>7. ASSUME NEW t \in Thread, t \notin Canceller, AttemptNotFinished(t) PROVE Inv'
  <2>1. TypeOK'
    BY <1>7 DEF AttemptNotFinished, TypeOK, Kind, OpState, PC, HeldInv,
         Notifying, RoleInv
  <2>2. MutexInv'
    BY <1>7 DEF AttemptNotFinished, MutexInv, LockedPC, RoleInv, TypeOK
  <2>3. HeldInv'
    BY <1>7 DEF AttemptNotFinished, HeldInv, Notifying, RoleInv, TypeOK
  <2>4. TokenInv'
    BY <1>7 DEF AttemptNotFinished, TokenInv, Active, ActivePC, Waiting,
         HeldInv, Notifying, CallbackInv, RoleInv, TypeOK
  <2>5. CallbackInv'
    BY <1>7 DEF AttemptNotFinished, CallbackInv, MutexInv, LockedPC,
         TokenInv, Active, ActivePC, RoleInv, TypeOK
  <2>6. ReleaseInv'
    BY <1>7 DEF AttemptNotFinished, ReleaseInv, Awaited, ResetPC,
         MutexInv, LockedPC, HeldInv, Notifying, RoleInv, TypeOK
  <2> QED
    BY <2>1, <2>2, <2>3, <2>4, <2>5, <2>6
<1>8. ASSUME NEW t \in Thread, t \notin Canceller, OnCompletionFinished(t) PROVE Inv'
  <2>1. TypeOK'
    BY <1>8 DEF OnCompletionFinished, ResetCurrentOp, TypeOK, Kind,
         OpState, PC, HeldInv, Notifying, RoleInv
  <2>2. MutexInv'
    BY <1>8 DEF OnCompletionFinished, ResetCurrentOp, MutexInv, LockedPC,
         RoleInv, TypeOK
  <2>3. HeldInv'
    BY <1>8 DEF OnCompletionFinished, ResetCurrentOp, HeldInv, Notifying,
         RoleInv, TypeOK
  <2>4. TokenInv'
    BY <1>8 DEF OnCompletionFinished, ResetCurrentOp, TokenInv, Active,
         ActivePC, Waiting, HeldInv, Notifying, CallbackInv, RoleInv,
         TypeOK
  <2>5. CallbackInv'
    BY <1>8 DEF OnCompletionFinished, ResetCurrentOp, CallbackInv,
         MutexInv, LockedPC, TokenInv, Active, ActivePC, RoleInv, TypeOK
  <2>6. ReleaseInv'
    BY <1>8 DEF OnCompletionFinished, ResetCurrentOp, ReleaseInv, Awaited,
         ResetPC, MutexInv, LockedPC, HeldInv, Notifying, RoleInv, TypeOK
  <2> QED
    BY <2>1, <2>2, <2>3, <2>4, <2>5, <2>6
<1>9. ASSUME NEW t \in Thread, t \notin Canceller, OnTimer(t) PROVE Inv'
  <2>1. TypeOK'
    BY <1>9 DEF OnTimer, StopAfterTimer, ResetCurrentOp, UnlockAndCancel,
         TypeOK, Kind, OpState, PC, HeldInv, Notifying, RoleInv
  <2>2. MutexInv'
    BY <1>9 DEF OnTimer, StopAfterTimer, ResetCurrentOp, UnlockAndCancel,
         MutexInv, LockedPC, RoleInv, TypeOK
  <2>3. HeldInv'
    BY <1>9 DEF OnTimer, StopAfterTimer, ResetCurrentOp, UnlockAndCancel,
         HeldInv, Notifying, RoleInv, TypeOK
  <2>4. TokenInv'
    BY <1>9 DEF OnTimer, StopAfterTimer, ResetCurrentOp, UnlockAndCancel,
         TokenInv, Active, ActivePC, Waiting, HeldInv, Notifying,
         CallbackInv, RoleInv, TypeOK
  <2>5. CallbackInv'
    BY <1>9 DEF OnTimer, StopAfterTimer, ResetCurrentOp, UnlockAndCancel,
         CallbackInv, MutexInv, LockedPC, TokenInv, Active, ActivePC,
         RoleInv, TypeOK
  <2>6. ReleaseInv'
    BY <1>9 DEF OnTimer, StopAfterTimer, ResetCurrentOp, UnlockAndCancel,
         ReleaseInv, Awaited, ResetPC, MutexInv, LockedPC, HeldInv,
         Notifying, RoleInv, TypeOK
  <2> QED
    BY <2>1, <2>2, <2>3, <2>4, <2>5, <2>6
<1>10. ASSUME NEW t \in Thread, t \notin Canceller, OperationCancel(t) PROVE Inv'
  <2>1. TypeOK'
    BY <1>10 DEF OperationCancel, TypeOK, Kind, OpState, PC, HeldInv,
         Notifying, RoleInv
  <2>2. MutexInv'
    BY <1>10 DEF OperationCancel, MutexInv, LockedPC, RoleInv, TypeOK
  <2>3. HeldInv'
    BY <1>10 DEF OperationCancel, HeldInv, Notifying, RoleInv, TypeOK
  <2>4. TokenInv'
    BY <1>10 DEF OperationCancel, TokenInv, Active, ActivePC, Waiting,
         HeldInv, Notifying, CallbackInv, RoleInv, TypeOK
  <2>5. CallbackInv'
    BY <1>10 DEF OperationCancel, CallbackInv, MutexInv, LockedPC,
         TokenInv, Active, ActivePC, RoleInv, TypeOK
  <2>6. ReleaseInv'
    BY <1>10 DEF OperationCancel, ReleaseInv, Awaited, ResetPC, MutexInv,
         LockedPC, HeldInv, Notifying, RoleInv, TypeOK
  <2> QED
    BY <2>1, <2>2, <2>3, <2>4, <2>5, <2>6
<1>11. ASSUME NEW t \in Thread, t \notin Canceller, CallbackReturns(t) PROVE Inv'
  <2>1. TypeOK'
    BY <1>11 DEF CallbackReturns, InCallback, AfterCallback, TypeOK, Kind,
         OpState, PC, HeldInv, Notifying, RoleInv
  <2>2. MutexInv'
    BY <1>11 DEF CallbackReturns, InCallback, AfterCallback, MutexInv,
         LockedPC, RoleInv, TypeOK
  <2>3. HeldInv'
    BY <1>11 DEF CallbackReturns, InCallback, AfterCallback, HeldInv,
         Notifying, RoleInv, TypeOK
  <2>4. TokenInv'
    BY <1>11 DEF CallbackReturns, InCallback, AfterCallback, TokenInv,
         Active, ActivePC, Waiting, HeldInv, Notifying, CallbackInv,
         RoleInv, TypeOK
  <2>5. CallbackInv'
    BY <1>11 DEF CallbackReturns, InCallback, AfterCallback, CallbackInv,
         MutexInv, LockedPC, TokenInv, Active, ActivePC, RoleInv, TypeOK
  <2>6. ReleaseInv'
    BY <1>11 DEF CallbackReturns, InCallback, AfterCallback, ReleaseInv,
         Awaited, ResetPC, MutexInv, LockedPC, HeldInv, Notifying,
         RoleInv, TypeOK
  <2> QED
    BY <2>1, <2>2, <2>3, <2>4, <2>5, <2>6
<1>12. ASSUME NEW t \in Thread, t \notin Canceller, CallbackCancels(t) PROVE Inv'
  <2>1. TypeOK'
    BY <1>12 DEF CallbackCancels, InCallback, AfterCallback, CancelBody,
         CancelCurrentOp, TypeOK, Kind, OpState, PC, HeldInv, Notifying,
         RoleInv
  <2>2. MutexInv'
    BY <1>12 DEF CallbackCancels, InCallback, AfterCallback, CancelBody,
         CancelCurrentOp, MutexInv, LockedPC, RoleInv, TypeOK
  <2>3. HeldInv'
    BY <1>12 DEF CallbackCancels, InCallback, AfterCallback, CancelBody,
         CancelCurrentOp, HeldInv, Notifying, RoleInv, TypeOK
  <2>4. TokenInv'
    BY <1>12 DEF CallbackCancels, InCallback, AfterCallback, CancelBody,
         CancelCurrentOp, TokenInv, Active, ActivePC, Waiting, HeldInv,
         Notifying, CallbackInv, RoleInv, TypeOK
  <2>5. CallbackInv'
    BY <1>12 DEF CallbackCancels, InCallback, AfterCallback, CancelBody,
         CancelCurrentOp, CallbackInv, MutexInv, LockedPC, TokenInv,
         Active, ActivePC, RoleInv, TypeOK
  <2>6. ReleaseInv'
    BY <1>12 DEF CallbackCancels, InCallback, AfterCallback, CancelBody,
         CancelCurrentOp, ReleaseInv, Awaited, ResetPC, MutexInv,
         LockedPC, HeldInv, Notifying, RoleInv, TypeOK
  <2> QED
    BY <2>1, <2>2, <2>3, <2>4, <2>5, <2>6
<1>13. ASSUME NEW t \in Thread, t \notin Canceller, ForgetOperation(t) PROVE Inv'
  <2>1. TypeOK'
    BY <1>13 DEF ForgetOperation, TypeOK, Kind, OpState, PC, HeldInv,
         Notifying, RoleInv
  <2>2. MutexInv'
    BY <1>13 DEF ForgetOperation, MutexInv, LockedPC, RoleInv, TypeOK
  <2>3. HeldInv'
    BY <1>13 DEF ForgetOperation, HeldInv, Notifying, RoleInv, TypeOK
  <2>4. TokenInv'
    BY <1>13 DEF ForgetOperation, TokenInv, Active, ActivePC, Waiting,
         HeldInv, Notifying, CallbackInv, RoleInv, TypeOK
  <2>5. CallbackInv'
    BY <1>13 DEF ForgetOperation, CallbackInv, MutexInv, LockedPC,
         TokenInv, Active, ActivePC, RoleInv, TypeOK
  <2>6. ReleaseInv'
    BY <1>13 DEF ForgetOperation, ReleaseInv, Awaited, ResetPC, MutexInv,
         LockedPC, HeldInv, Notifying, RoleInv, TypeOK
  <2> QED
    BY <2>1, <2>2, <2>3, <2>4, <2>5, <2>6
<1>14. ASSUME NEW t \in Runner, NEW noDelay \in BOOLEAN, OnCompletion(t, noDelay) PROVE Inv'
  <2>1. TypeOK'
    BY <1>14 DEF OnCompletion, ResetCurrentOp, UnlockAndCancel, TypeOK,
         Kind, OpState, PC, HeldInv, Notifying, RoleInv
  <2>2. MutexInv'
    BY <1>14 DEF OnCompletion, ResetCurrentOp, UnlockAndCancel, MutexInv,
         LockedPC, RoleInv, TypeOK
  <2>3. HeldInv'
    BY <1>14 DEF OnCompletion, ResetCurrentOp, UnlockAndCancel, HeldInv,
         Notifying, RoleInv, TypeOK
  <2>4. TokenInv'
    BY <1>14 DEF OnCompletion, ResetCurrentOp, UnlockAndCancel, TokenInv,
         Active, ActivePC, Waiting, HeldInv, Notifying, CallbackInv,
         RoleInv, TypeOK
  <2>5. CallbackInv'
    BY <1>14 DEF OnCompletion, ResetCurrentOp, UnlockAndCancel,
         CallbackInv, MutexInv, LockedPC, TokenInv, Active, ActivePC,
         RoleInv, TypeOK
  <2>6. ReleaseInv'
    BY <1>14 DEF OnCompletion, ResetCurrentOp, UnlockAndCancel,
         ReleaseInv, Awaited, ResetPC, MutexInv, LockedPC, HeldInv,
         Notifying, RoleInv, TypeOK
  <2> QED
    BY <2>1, <2>2, <2>3, <2>4, <2>5, <2>6
<1>15. ASSUME NEW t \in Runner, NEW o \in Op, Notify(t, o) PROVE Inv'
  <2>1. TypeOK'
    BY <1>15 DEF Notify, TypeOK, Kind, OpState, PC, HeldInv, Notifying,
         RoleInv
  <2>2. MutexInv'
    BY <1>15 DEF Notify, MutexInv, LockedPC, RoleInv, TypeOK
  <2>3. HeldInv'
    BY <1>15 DEF Notify, HeldInv, Notifying, RoleInv, TypeOK
  <2>4. TokenInv'
    BY <1>15 DEF Notify, TokenInv, Active, ActivePC, Waiting, HeldInv,
         Notifying, CallbackInv, RoleInv, TypeOK
  <2>5. CallbackInv'
    BY <1>15 DEF Notify, CallbackInv, MutexInv, LockedPC, TokenInv,
         Active, ActivePC, RoleInv, TypeOK
  <2>6. ReleaseInv'
    BY <1>15 DEF Notify, ReleaseInv, Awaited, ResetPC, MutexInv, LockedPC,
         HeldInv, Notifying, RoleInv, TypeOK
  <2> QED
    BY <2>1, <2>2, <2>3, <2>4, <2>5, <2>6
<1>16. ASSUME NEW t \in Canceller, Cancel(t) PROVE Inv'
  <2>1. TypeOK'
    BY <1>16 DEF Cancel, CancelBody, CancelCurrentOp, CancelReturns,
         TypeOK, Kind, OpState, PC, HeldInv, Notifying, RoleInv
  <2>2. MutexInv'
    BY <1>16 DEF Cancel, CancelBody, CancelCurrentOp, CancelReturns,
         MutexInv, LockedPC, RoleInv, TypeOK
  <2>3. HeldInv'
    BY <1>16 DEF Cancel, CancelBody, CancelCurrentOp, CancelReturns,
         HeldInv, Notifying, RoleInv, TypeOK
  <2>4. TokenInv'
    BY <1>16 DEF Cancel, CancelBody, CancelCurrentOp, CancelReturns,
         TokenInv, Active, ActivePC, Waiting, HeldInv, Notifying,
         CallbackInv, RoleInv, TypeOK
  <2>5. CallbackInv'
    BY <1>16 DEF Cancel, CancelBody, CancelCurrentOp, CancelReturns,
         CallbackInv, MutexInv, LockedPC, TokenInv, Active, ActivePC,
         RoleInv, TypeOK
  <2>6. ReleaseInv'
    BY <1>16 DEF Cancel, CancelBody, CancelCurrentOp, CancelReturns,
         ReleaseInv, Awaited, ResetPC, MutexInv, LockedPC, HeldInv,
         Notifying, RoleInv, TypeOK
  <2> QED
    BY <2>1, <2>2, <2>3, <2>4, <2>5, <2>6
<1>17. ASSUME NEW o \in Op, Complete(o) PROVE Inv'
  <2>1. PICK b \in BOOLEAN : ok' = [ok EXCEPT ![o] = b]
    BY <1>17 DEF Complete
  <2>2. TypeOK'
    BY <1>17, <2>1 DEF Complete, TypeOK, RoleInv, OpState
  <2>3. MutexInv'
    BY <1>17 DEF Complete, MutexInv, LockedPC, RoleInv, TypeOK
  <2>4. HeldInv'
    BY <1>17 DEF Complete, HeldInv, Notifying, RoleInv, TypeOK
  <2>5. TokenInv'
    BY <1>17 DEF Complete, TokenInv, Active, ActivePC, Waiting, HeldInv,
         Notifying, CallbackInv, RoleInv, TypeOK
  <2>6. CallbackInv'
    BY <1>17 DEF Complete, CallbackInv, MutexInv, LockedPC, TokenInv,
         Active, ActivePC, RoleInv, TypeOK
  <2>7. ReleaseInv'
    BY <1>17 DEF Complete, ReleaseInv, Awaited, ResetPC, MutexInv,
         LockedPC, HeldInv, Notifying, RoleInv, TypeOK
  <2> QED
    BY <2>2, <2>3, <2>4, <2>5, <2>6, <2>7
<1>18. ASSUME UNCHANGED vars PROVE Inv'
  <2>1. TypeOK'
    BY <1>18 DEF vars, TypeOK, Kind, OpState, PC, HeldInv, Notifying,
         RoleInv
  <2>2. MutexInv'
    BY <1>18 DEF vars, MutexInv, LockedPC, RoleInv, TypeOK
  <2>3. HeldInv'
    BY <1>18 DEF vars, HeldInv, Notifying, RoleInv, TypeOK
  <2>4. TokenInv'
    BY <1>18 DEF vars, TokenInv, Active, ActivePC, Waiting, HeldInv,
         Notifying, CallbackInv, RoleInv, TypeOK
  <2>5. CallbackInv'
    BY <1>18 DEF vars, CallbackInv, MutexInv, LockedPC, TokenInv, Active,
         ActivePC, RoleInv, TypeOK
  <2>6. ReleaseInv'
    BY <1>18 DEF vars, ReleaseInv, Awaited, ResetPC, MutexInv, LockedPC,
         HeldInv, Notifying, RoleInv, TypeOK
  <2> QED
    BY <2>1, <2>2, <2>3, <2>4, <2>5, <2>6
<1> QED
  BY <1>1, <1>2, <1>3, <1>4, <1>5, <1>6, <1>7, <1>8, <1>9, <1>10, <1>11,
     <1>12, <1>13, <1>14, <1>15, <1>16, <1>17, <1>18 DEF Next, StarterStep,
     RunnerStep, LoopStep, Terminated

(* The inductive invariant holds in every reachable state of the loop, for  *)
(* any number of threads and of attempts.                                   *)
THEOREM InvHolds == Spec => []Inv
<1> QED
  BY InvInit, InvStep, PTL DEF Spec

------------------------------------------------------------------------------
(* The variables keep their types in every behaviour of the loop.           *)
THEOREM TypeCorrect == Spec => []TypeOK
<1>1. Inv => TypeOK
  BY DEF Inv
<1> QED
  BY InvHolds, <1>1, PTL

(* The user callback is called at most once, for any number of runners,     *)
(* cancelling threads and operations.                                       *)
THEOREM AtMostOnce == Spec => []CallbackAtMostOnce
<1>1. Inv => CallbackAtMostOnce
  BY DEF Inv, TokenInv, CallbackAtMostOnce
<1> QED
  BY InvHolds, <1>1, PTL

(* The user callback never runs on a thread that owns mu_.                  *)
THEOREM Unlocked == Spec => []CallbackUnlocked
<1>1. Inv => CallbackUnlocked
  BY DEF Inv, MutexInv, LockedPC, CallbackUnlocked
<1> QED
  BY InvHolds, <1>1, PTL

(* No two threads are inside the Operation at the same time, although none  *)
(* of them owns mu_ when it calls the user callback.                        *)
THEOREM Serial == Spec => []SerialAccess
<1>1. Inv => \A t, u \in InOperation : t = u
  BY ThreadAssumption
     DEF Inv, TypeOK, MutexInv, LockedPC, TokenInv, Active, ActivePC, CallbackInv,
         InOperation
<1>2. Inv /\ CallbackUnlocked => SerialAccess
  BY <1>1 DEF SerialAccess
<1> QED
  BY InvHolds, Unlocked, <1>2, PTL

(* A loop with nothing left to run holds no operation.                      *)
THEOREM Released == Spec => []ReleasedWhenDone
<1>1. Inv => ReleasedWhenDone
  BY DEF Inv, ReleaseInv, Awaited, ResetPC, ReleasedWhenDone, Quiescent
<1> QED
  BY InvHolds, <1>1, PTL

(* A step taken when the loop is cancelled submits no attempt and no timer. *)
THEOREM NoLateAttempt == Spec => NoAttemptAfterCancel
<1> DEFINE Quiet == cancelled_ =>
              \A o \in Op : opState[o] = "free" /\ opState'[o] # "free"
                               => kind'[o] = "run"
<1>1. Inv /\ [Next]_vars => [Quiet]_vars
  <2> SUFFICES ASSUME Inv, Next, cancelled_, NEW o \in Op,
                      opState[o] = "free", opState'[o] # "free"
               PROVE  kind'[o] = "run"
    OBVIOUS
  <2> USE DEF Inv, TypeOK
  <2>1. ASSUME NEW t \in Thread, StartUnlocked(t) \/ MakeRelativeTimer(t)
        PROVE  FALSE
    BY <2>1 DEF StartUnlocked, MakeRelativeTimer, MutexInv, LockedPC
  <2>2. CASE RunAsync
    BY <2>2 DEF RunAsync, MakeOperation
  <2>3. ASSUME NEW p \in Op, Complete(p)
        PROVE  FALSE
    BY <2>3 DEF Complete
  <2>4. ASSUME NEW t \in Runner, NEW p \in Op, Notify(t, p)
        PROVE  FALSE
    BY <2>4 DEF Notify
  <2>5. ASSUME NEW t \in Runner, ForgetOperation(t)
        PROVE  FALSE
    BY <2>5 DEF ForgetOperation
  <2> QED
    BY <2>1, <2>2, <2>3, <2>4, <2>5
       DEF Next, StarterStep, RunnerStep, LoopStep, Terminated, vars, opVars,
           Thread, Start, Assign, AttemptFinished, AttemptNotFinished,
           OnCompletionFinished, OnCompletion, OnTimer, OperationCancel,
           CallbackReturns, CallbackCancels, CancelBody, Cancel
<1> QED
  BY InvHolds, <1>1, PTL DEF Spec, NoAttemptAfterCancel

------------------------------------------------------------------------------
(* The adapters.                                                            *)

(* A step of an adapter is a step of the abstract loop or leaves it alone.  *)
LEMMA AdapterStepIsLoopStep == [AdapterNext]_allVars => [Next]_vars
<1> SUFFICES ASSUME AdapterNext PROVE [Next]_vars
  BY DEF allVars, vars
<1>1. CASE AdapterStarterStep
  BY <1>1 DEF AdapterStarterStep, AdapterStart, Next, StarterStep
<1>2. ASSUME NEW t \in Runner, AdapterRunnerStep(t) PROVE Next
  <2>1. CASE AdapterOnCompletion(t)
    <3>1. AttemptFinished(t) \/ AttemptNotFinished(t)
      BY <2>1 DEF AdapterOnCompletion, RetriableOnCompletion,
           MultipageOnCompletion, PollableOnCompletion, Report, Continue
    <3> QED
      BY <3>1 DEF Next, RunnerStep
  <2>2. CASE AdapterStart(t)
    BY <2>2 DEF AdapterStart, Next, RunnerStep, LoopStep
  <2>3. CASE AdapterCancel(t)
    BY <2>3 DEF AdapterCancel, Next, RunnerStep, LoopStep
  <2>4. CASE OtherStep(t)
    BY <2>4 DEF OtherStep, WaitPeriodIsZero, Next, RunnerStep, LoopStep
  <2> QED
    BY <1>2, <2>1, <2>2, <2>3, <2>4 DEF AdapterRunnerStep
<1>3. CASE AdapterEnvironment
  BY <1>3 DEF AdapterEnvironment, Next
<1>4. CASE \E o \in Op : AdapterComplete(o)
  BY <1>4 DEF AdapterComplete, Next
<1>5. CASE Expire
  BY <1>5 DEF Expire
<1> QED
  BY <1>1, <1>2, <1>3, <1>4, <1>5 DEF AdapterNext

(* The adapters of async_retry_op.h, async_retry_multi_page.h and           *)
(* async_poll_op.h implement the loop of async_loop_op.h.                   *)
THEOREM AdaptersImplementLoop == AdapterSpec => ImplementsLoop
<1>1. AdapterInit => Init
  BY DEF AdapterInit
<1> QED
  BY <1>1, AdapterStepIsLoopStep, PTL DEF AdapterSpec, ImplementsLoop, Spec

(* A retried, paged or polled call gives its result to the user exactly     *)
(* once if at all and without the mutex, lets one thread at a time into the *)
(* adapter, submits nothing once it is cancelled and holds no operation     *)
(* once it is over.                                                         *)
THEOREM AdapterCallbacks ==
  AdapterSpec => /\ []CallbackAtMostOnce /\ []SerialAccess /\ []ReleasedWhenDone
                 /\ NoAttemptAfterCancel
<1> QED
  BY AdaptersImplementLoop, AtMostOnce, Serial, Released, NoLateAttempt, PTL
     DEF ImplementsLoop

------------------------------------------------------------------------------
(* How many attempts a call makes, and which status it reports.             *)

(* The next attempt is still to be started: no attempt is in flight.        *)
StartPC == {"Start", "RunAsync", "StartUnlocked", "MakeRelativeTimer",
            "OnCompletion", "OnTimer"}

StartDue ==
  \/ \E t \in Thread : pc[t] \in StartPC
  \/ \E o \in Waiting : kind[o] # "rpc"

AdapterTypeOK ==
  /\ adapter \in {"retry", "multipage", "poll"}
  /\ policy \in {"count", "time"}
  /\ idempotent \in BOOLEAN
  /\ failure_count_ \in Nat
  /\ expired \in BOOLEAN
  /\ page \in Nat
  /\ attempts \in Nat
  /\ delivered \in BOOLEAN
  /\ result \in Status \union {"none"}

(* Each attempt but the first was paid for with a failure; the policy is    *)
(* not exhausted before the user callback is called; and an attempt that is *)
(* still to be started has been paid for as well.                           *)
BudgetInv ==
  /\ policy = "count" =>
       /\ attempts <= MaximumFailures + 1
       /\ attempts <= failure_count_ + 1
       /\ fired = 0 => failure_count_ <= MaximumFailures
       /\ StartDue => attempts <= failure_count_
  /\ adapter = "retry" /\ ~idempotent =>
       /\ attempts <= 1
       /\ StartDue => attempts = 0

(* Nothing is delivered before the user callback, and pages are missing     *)
(* until the last one has been delivered.                                   *)
ReportInv ==
  /\ fired = 0 => ~delivered /\ result = "none"
  /\ adapter = "multipage" /\ fired = 0 => page < Pages
  /\ SuccessExact

AdapterInv == Inv /\ AdapterTypeOK /\ BudgetInv /\ ReportInv

(* A step that does not enter the Operation makes no attempt due, and leaves *)
(* the user callback alone.                                                  *)
SilentStep ==
  \/ Start \/ RunAsync
  \/ \E t \in Runner : CallbackCancels(t) \/ \E o \in Op : Notify(t, o)
  \/ \E t \in Runner, noDelay \in BOOLEAN : OnCompletion(t, noDelay)
  \/ \E t \in Thread : \/ MakeRelativeTimer(t) \/ Assign(t)
                       \/ OnCompletionFinished(t) \/ OnTimer(t)
                       \/ CallbackReturns(t) \/ ForgetOperation(t)
  \/ \E t \in Canceller : Cancel(t)
  \/ \E o \in Op : Complete(o)
  \/ UNCHANGED vars

LEMMA SilentStepStartsNothing ==
  Inv /\ SilentStep => fired' = fired /\ (StartDue' => StartDue)
<1> SUFFICES ASSUME Inv, SilentStep PROVE fired' = fired /\ (StartDue' => StartDue)
  OBVIOUS
<1> USE ThreadAssumption DEF Inv, TypeOK, StartDue, StartPC, Waiting, Thread, opVars
<1>1. CASE Start
  BY <1>1 DEF Start, Lock
<1>2. CASE RunAsync
  BY <1>2 DEF RunAsync, MakeOperation
<1>3. ASSUME NEW t \in Runner, NEW o \in Op, Notify(t, o)
      PROVE  fired' = fired /\ (StartDue' => StartDue)
  BY <1>3 DEF Notify
<1>4. ASSUME NEW t \in Runner, NEW noDelay \in BOOLEAN, OnCompletion(t, noDelay)
      PROVE  fired' = fired /\ (StartDue' => StartDue)
  BY <1>4 DEF OnCompletion, ResetCurrentOp, UnlockAndCancel
<1>5. ASSUME NEW t \in Thread, MakeRelativeTimer(t)
      PROVE  fired' = fired /\ (StartDue' => StartDue)
  BY <1>5 DEF MakeRelativeTimer, MakeOperation
<1>6. ASSUME NEW t \in Thread, OnTimer(t)
      PROVE  fired' = fired /\ (StartDue' => StartDue)
  BY <1>6 DEF OnTimer, ResetCurrentOp, UnlockAndCancel
<1>7. ASSUME NEW t \in Thread, \/ Assign(t) \/ OnCompletionFinished(t)
                               \/ ForgetOperation(t)
      PROVE  fired' = fired /\ (StartDue' => StartDue)
  BY <1>7 DEF Assign, Return, OnCompletionFinished, ForgetOperation, HeldInv,
       Notifying, RoleInv
<1>8. ASSUME NEW t \in Thread, CallbackReturns(t) \/ CallbackCancels(t)
      PROVE  fired' = fired /\ (StartDue' => StartDue)
  BY <1>8 DEF CallbackReturns, CallbackCancels, CancelBody, InCallback, AfterCallback
<1>9. ASSUME NEW t \in Canceller, Cancel(t)
      PROVE  fired' = fired /\ (StartDue' => StartDue)
  BY <1>9 DEF Cancel, CancelBody, CancelReturns
<1>10. ASSUME NEW o \in Op, Complete(o)
      PROVE  fired' = fired /\ (StartDue' => StartDue)
  BY <1>10 DEF Complete
<1>11. CASE UNCHANGED vars
  BY <1>11 DEF vars
<1> QED
  BY <1>1, <1>2, <1>3, <1>4, <1>5, <1>6, <1>7, <1>8, <1>9, <1>10, <1>11
     DEF SilentStep

(* Operation::Start() is called for an attempt that is due, and afterwards  *)
(* none is: the loop never has two attempts in flight.                      *)
LEMMA StartTakesTheDue ==
  ASSUME Inv, NEW t \in Thread, StartUnlocked(t)
  PROVE  StartDue /\ ~StartDue' /\ fired = 0 /\ fired' = 0
<1> USE ThreadAssumption DEF Inv, TypeOK, Waiting, Active, ActivePC, StartPC
<1>1. t \in Active /\ Waiting = {} /\ fired = 0
  BY DEF StartUnlocked, TokenInv
<1>2. PICK o \in Op : MakeOperation(o, "rpc")
  BY DEF StartUnlocked
<1>3. \A u \in Thread : pc'[u] \notin StartPC
  BY <1>1 DEF StartUnlocked, TokenInv
<1>4. \A p \in Waiting' : kind'[p] = "rpc"
  BY <1>1, <1>2 DEF MakeOperation
<1> QED
  BY <1>1, <1>3, <1>4 DEF StartUnlocked, StartDue

(* A thread in an adapter's OnCompletion() or Cancel() is the only one that *)
(* has the loop in hand, and has not called the user callback yet.          *)
LEMMA AdapterIsAlone ==
  ASSUME Inv, NEW t \in Thread, pc[t] \in {"Adapter", "OperationCancel"}
  PROVE  fired = 0 /\ ~StartDue
  BY DEF Inv, TypeOK, TokenInv, Active, ActivePC, Waiting, StartDue, StartPC

(* Once it calls the user callback no attempt is due.                       *)
LEMMA CallbackLeavesNothingDue ==
  ASSUME Inv, NEW t \in Thread,
         AttemptFinished(t) \/ OperationCancel(t)
  PROVE  fired' = 1 /\ ~StartDue'
<1>1. fired = 0 /\ ~StartDue
  BY AdapterIsAlone DEF AttemptFinished, OperationCancel
<1> QED
  BY <1>1 DEF Inv, TypeOK, AttemptFinished, OperationCancel, Waiting, StartDue,
       StartPC, opVars

(* Before the first attempt nothing is spent, delivered or reported.        *)
LEMMA AdapterInvInit == AdapterInit => AdapterInv
<1> SUFFICES ASSUME AdapterInit PROVE AdapterInv
  OBVIOUS
<1> USE AdapterAssumption DEF AdapterInit
<1>1. Inv /\ fired = 0
  BY InvInit DEF Init
<1>2. AdapterTypeOK
  BY DEF AdapterTypeOK, Status
<1>3. BudgetInv /\ ReportInv
  BY <1>1 DEF BudgetInv, ReportInv, SuccessExact
<1> QED
  BY <1>1, <1>2, <1>3 DEF AdapterInv

(* A completed attempt either asks for another one, for which the policy    *)
(* has been charged, or reports a status.                                   *)
LEMMA OnCompletionKeepsInv ==
  ASSUME AdapterInv, NEW t \in Runner, AdapterOnCompletion(t)
  PROVE  (AdapterTypeOK /\ BudgetInv /\ ReportInv)'
<1> USE AdapterAssumption DEF AdapterInv, AdapterTypeOK, Thread
<1>1. pc[t] = "Adapter" /\ t \in Thread
  BY DEF AdapterOnCompletion, RetriableOnCompletion, MultipageOnCompletion,
       PollableOnCompletion, Report, Continue, AttemptFinished, AttemptNotFinished
<1>2. fired = 0 /\ ~StartDue /\ ~delivered /\ result = "none"
  BY <1>1, AdapterIsAlone DEF ReportInv
<1>3. ASSUME NEW s \in Status, Report(t, s)
      PROVE  fired' = 1 /\ ~StartDue' /\ result' = s
  BY <1>1, <1>3, CallbackLeavesNothingDue DEF Report
<1>4. ASSUME NEW s \in Answer, Continue(t, s)
      PROVE  fired' = 0 /\ result' = "none"
  BY <1>2, <1>4 DEF Continue, AttemptNotFinished
<1> USE DEF fixedVars, policyVars, Answer, Status
<1>5. ASSUME NEW s \in Status, Report(t, s), UNCHANGED <<fixedVars, attempts>>,
             failure_count_' \in Nat, failure_count_ <= failure_count_'
      PROVE  BudgetInv'
  <2>1. /\ policy' = policy /\ adapter' = adapter /\ idempotent' = idempotent
        /\ attempts' = attempts /\ fired' = 1 /\ ~StartDue'
    BY <1>3, <1>5
  <2>2. policy = "count" => /\ attempts <= MaximumFailures + 1
                            /\ attempts <= failure_count_' + 1
    <3>1. PICK n \in Nat : failure_count_' = n /\ failure_count_ <= n
      BY <1>5
    <3> QED
      BY <3>1 DEF BudgetInv
  <2>3. adapter = "retry" /\ ~idempotent => attempts <= 1
    BY DEF BudgetInv
  <2> QED
    BY <2>1, <2>2, <2>3 DEF BudgetInv
<1>6. ASSUME NEW s \in Answer, Continue(t, s), UNCHANGED <<fixedVars, attempts>>,
             failure_count_' \in Nat, adapter = "retry" => idempotent,
             policy = "count" => /\ failure_count_ < failure_count_'
                                 /\ failure_count_' <= MaximumFailures
      PROVE  BudgetInv'
  <2>1. /\ policy' = policy /\ adapter' = adapter /\ idempotent' = idempotent
        /\ attempts' = attempts /\ fired' = 0
    BY <1>4, <1>6
  <2>2. PICK n \in Nat : failure_count_' = n
    BY <1>6
  <2>3. policy = "count" => attempts <= n /\ n <= MaximumFailures
    BY <1>6, <2>2 DEF BudgetInv
  <2>4. policy' = "count" => /\ attempts' <= MaximumFailures + 1
                             /\ attempts' <= failure_count_' + 1
                             /\ failure_count_' <= MaximumFailures
                             /\ attempts' <= failure_count_'
    BY <2>1, <2>2, <2>3
  <2>5. ~(adapter' = "retry" /\ ~idempotent')
    BY <1>6, <2>1
  <2> QED
    BY <2>1, <2>4, <2>5 DEF BudgetInv
<1>7. \A s \in Answer, n \in Nat :
        /\ OnFailureImpl(s, n) \in Nat /\ n <= OnFailureImpl(s, n)
        /\ policy = "count" /\ OnFailure(s, OnFailureImpl(s, n)) =>
             n < OnFailureImpl(s, n) /\ OnFailureImpl(s, n) <= MaximumFailures
  BY DEF OnFailureImpl, OnFailure, IsExhausted
<1>8. ASSUME NEW s \in Answer, RetriableOnCompletion(t, s)
      PROVE  (AdapterTypeOK /\ BudgetInv /\ ReportInv)'
  <2>1. CASE (s \in {"OK", "CANCELLED"} \/ ~idempotent) /\ Report(t, s)
    BY <1>2, <1>3, <1>5, <1>8, <2>1
       DEF RetriableOnCompletion, ReportInv, SuccessExact
  <2>2. CASE s \notin {"OK", "CANCELLED"} /\ Report(t, s)
    BY <1>2, <1>3, <1>5, <1>7, <1>8, <2>2
       DEF RetriableOnCompletion, ReportInv, SuccessExact
  <2>3. CASE Continue(t, s) /\ s \notin {"OK", "CANCELLED"} /\ idempotent
             /\ OnFailure(s, failure_count_')
    BY <1>2, <1>4, <1>6, <1>7, <1>8, <2>3
       DEF RetriableOnCompletion, ReportInv, SuccessExact
  <2> QED
    BY <1>8, <2>1, <2>2, <2>3 DEF RetriableOnCompletion
<1>9. ASSUME NEW s \in Answer, MultipageOnCompletion(t, s)
      PROVE  (AdapterTypeOK /\ BudgetInv /\ ReportInv)'
  <2>1. page < Pages /\ page' \in Nat /\ page' <= Pages
        /\ (page' = Pages => s = "OK") /\ (page' # Pages => page' < Pages)
    BY <1>2, <1>9 DEF MultipageOnCompletion, ReportInv
  <2>2. CASE (s = "CANCELLED" \/ page' = Pages) /\ Report(t, s)
    BY <1>2, <1>3, <1>5, <1>9, <2>1, <2>2
       DEF MultipageOnCompletion, ReportInv, SuccessExact
  <2>3. CASE page' # Pages /\ Report(t, s) /\ s # "CANCELLED"
             /\ ~OnFailure(s, failure_count_')
    <3>1. s = "OK" => IsExhausted(failure_count_')
      BY <2>3 DEF OnFailure, IsPermanentFailure
    <3> QED
      BY <1>2, <1>3, <1>5, <1>7, <1>9, <2>1, <2>3, <3>1
         DEF MultipageOnCompletion, ReportInv, SuccessExact, IsExhausted
  <2>4. CASE page' # Pages /\ Continue(t, s) /\ OnFailure(s, failure_count_')
    <3>1. adapter = "multipage" /\ failure_count_' = OnFailureImpl(s, failure_count_)
          /\ UNCHANGED <<fixedVars, attempts>> /\ delivered' = FALSE /\ UNCHANGED expired
      BY <1>1, <1>2, <1>9, <2>4 DEF MultipageOnCompletion, Continue, Report,
           AttemptFinished, AttemptNotFinished
    <3>2. BudgetInv'
      BY <1>6, <1>7, <2>4, <3>1
    <3>3. AdapterTypeOK'
      BY <1>2, <1>4, <1>7, <2>1, <2>4, <3>1
    <3>4. ReportInv'
      BY <1>4, <2>1, <2>4, <3>1 DEF ReportInv, SuccessExact
    <3> QED
      BY <3>2, <3>3, <3>4
  <2> QED
    BY <1>9, <2>2, <2>3, <2>4 DEF MultipageOnCompletion
<1>10. ASSUME NEW s \in Answer, NEW finished \in BOOLEAN,
             PollableOnCompletion(t, s, finished)
      PROVE  (AdapterTypeOK /\ BudgetInv /\ ReportInv)'
  <2> DEFINE once  == OnFailureImpl(s, failure_count_)
             twice == OnFailureImpl("OK", once)
  <2>1. /\ once \in Nat /\ failure_count_ <= once /\ twice \in Nat /\ once <= twice
        /\ policy = "count" /\ OnFailure("OK", twice)
             => once < twice /\ twice <= MaximumFailures
    <3>1. once \in Nat /\ failure_count_ <= once
      BY <1>7
    <3>2. /\ twice \in Nat /\ once <= twice
          /\ policy = "count" /\ OnFailure("OK", twice)
               => once < twice /\ twice <= MaximumFailures
      BY <1>7, <3>1
    <3> QED
      BY <3>1, <3>2
  <2>2. CASE (s = "CANCELLED" \/ finished) /\ Report(t, s)
    BY <1>2, <1>3, <1>5, <1>10, <2>2
       DEF PollableOnCompletion, ReportInv, SuccessExact
  <2>3. CASE s # "CANCELLED" /\ ~finished /\ Report(t, s) /\ failure_count_' = once
    BY <1>2, <1>3, <1>5, <1>10, <2>1, <2>3
       DEF PollableOnCompletion, ReportInv, SuccessExact
  <2>4. CASE s # "CANCELLED" /\ ~finished /\ Report(t, "EXHAUSTED")
             /\ failure_count_' = twice
    BY <1>2, <1>3, <1>5, <1>10, <2>1, <2>4
       DEF PollableOnCompletion, ReportInv, SuccessExact
  <2>5. CASE /\ s # "CANCELLED" /\ ~finished /\ Continue(t, s)
             /\ failure_count_' = twice /\ OnFailure("OK", twice)
    BY <1>2, <1>4, <1>6, <1>10, <2>1, <2>5
       DEF PollableOnCompletion, ReportInv, SuccessExact
  <2> QED
    BY <1>10, <2>2, <2>3, <2>4, <2>5 DEF PollableOnCompletion
<1> QED
  BY <1>8, <1>9, <1>10 DEF AdapterOnCompletion

(* Every step of the loop, of an adapter and of the clock preserves the     *)
(* inductive invariant.                                                     *)
LEMMA AdapterInvStep == AdapterInv /\ [AdapterNext]_allVars => AdapterInv'
<1> SUFFICES ASSUME AdapterInv, [AdapterNext]_allVars PROVE AdapterInv'
  OBVIOUS
<1> USE AdapterAssumption
<1>1. Inv'
  BY AdapterStepIsLoopStep, InvStep DEF AdapterInv
<1> SUFFICES (AdapterTypeOK /\ BudgetInv /\ ReportInv)'
  BY <1>1 DEF AdapterInv
<1>2. ASSUME NEW t \in Runner, AdapterOnCompletion(t)
      PROVE  (AdapterTypeOK /\ BudgetInv /\ ReportInv)'
  BY <1>2, OnCompletionKeepsInv
<1>3. ASSUME NEW t \in Thread, AdapterStart(t)
      PROVE  (AdapterTypeOK /\ BudgetInv /\ ReportInv)'
  <2>1. StartDue /\ ~StartDue' /\ fired = 0 /\ fired' = 0
    BY <1>3, StartTakesTheDue DEF AdapterInv, AdapterStart
  <2>2. UNCHANGED <<fixedVars, policyVars, status_, page, delivered, result>>
    BY <1>3 DEF AdapterStart
  <2>3. attempts' \in Nat /\ attempts' <= attempts + 1
    BY <1>3 DEF AdapterStart, AdapterInv, AdapterTypeOK
  <2>4. AdapterTypeOK'
    BY <2>2, <2>3 DEF AdapterInv, AdapterTypeOK, fixedVars, policyVars
  <2>5. policy' = "count" => /\ attempts' <= MaximumFailures + 1
                             /\ attempts' <= failure_count_' + 1
                             /\ failure_count_' <= MaximumFailures
    <3>1. PICK n \in Nat : attempts' = n /\ n <= attempts + 1
      BY <2>3
    <3> QED
      BY <2>1, <2>2, <3>1
         DEF AdapterInv, AdapterTypeOK, BudgetInv, fixedVars, policyVars
  <2>6. adapter' = "retry" /\ ~idempotent' => attempts' <= 1
    <3>1. adapter = "retry" /\ ~idempotent => attempts = 0
      BY <2>1 DEF AdapterInv, BudgetInv
    <3>2. adapter = "retry" /\ ~idempotent => attempts' <= 1
      BY <2>3, <3>1
    <3> QED
      BY <2>2, <3>2 DEF fixedVars
  <2>7. BudgetInv'
    BY <2>1, <2>5, <2>6 DEF BudgetInv
  <2>8. ReportInv'
    BY <2>1, <2>2 DEF AdapterInv, ReportInv, SuccessExact, IsExhausted,
         fixedVars, policyVars
  <2> QED
    BY <2>4, <2>7, <2>8
<1>4. ASSUME NEW t \in Runner, AdapterCancel(t)
      PROVE  (AdapterTypeOK /\ BudgetInv /\ ReportInv)'
  <2>1. t \in Thread /\ fired = 0 /\ fired' = 1 /\ ~StartDue'
    BY <1>4, AdapterIsAlone, CallbackLeavesNothingDue
       DEF AdapterInv, AdapterCancel, OperationCancel, Thread
  <2>2. /\ UNCHANGED <<fixedVars, policyVars, page, attempts, delivered>>
        /\ result' = "CANCELLED"
    BY <1>4 DEF AdapterCancel
  <2>3. AdapterTypeOK'
    BY <2>2 DEF AdapterInv, AdapterTypeOK, Status, fixedVars, policyVars
  <2>4. BudgetInv'
    BY <2>1, <2>2 DEF AdapterInv, BudgetInv, fixedVars, policyVars
  <2>5. ReportInv'
    BY <2>1, <2>2 DEF AdapterInv, ReportInv, SuccessExact, fixedVars
  <2> QED
    BY <2>3, <2>4, <2>5
<1>5. ASSUME SilentStep, UNCHANGED adapterVars
      PROVE  (AdapterTypeOK /\ BudgetInv /\ ReportInv)'
  <2>1. fired' = fired /\ (StartDue' => StartDue)
    BY <1>5, SilentStepStartsNothing DEF AdapterInv
  <2>2. AdapterTypeOK'
    BY <1>5 DEF AdapterInv, AdapterTypeOK, adapterVars, fixedVars, policyVars
  <2>3. BudgetInv'
    BY <1>5, <2>1 DEF AdapterInv, BudgetInv, adapterVars, fixedVars, policyVars
  <2>4. ReportInv'
    BY <1>5, <2>1 DEF AdapterInv, ReportInv, SuccessExact, IsExhausted,
         adapterVars, fixedVars, policyVars
  <2> QED
    BY <2>2, <2>3, <2>4
<1>6. CASE Expire
  <2>1. fired' = fired /\ (StartDue' => StartDue)
    BY <1>6 DEF Expire, vars, StartDue, Waiting
  <2>2. AdapterTypeOK'
    BY <1>6 DEF AdapterInv, AdapterTypeOK, Expire, fixedVars
  <2>3. BudgetInv'
    BY <1>6, <2>1 DEF AdapterInv, BudgetInv, Expire, fixedVars
  <2>4. ReportInv'
    BY <1>6, <2>1 DEF AdapterInv, ReportInv, SuccessExact, IsExhausted, Expire,
         fixedVars
  <2> QED
    BY <2>2, <2>3, <2>4
<1>7. ASSUME NEW t \in Runner, OtherStep(t)
      PROVE  SilentStep /\ UNCHANGED adapterVars
  BY <1>7 DEF OtherStep, WaitPeriodIsZero, SilentStep, Thread
<1>8. ASSUME (Start \/ RunAsync \/ Assign(Starter)) /\ UNCHANGED adapterVars
      PROVE  SilentStep /\ UNCHANGED adapterVars
  BY <1>8 DEF SilentStep, Thread
<1>9. ASSUME AdapterEnvironment
      PROVE  SilentStep /\ UNCHANGED adapterVars
  BY <1>9 DEF AdapterEnvironment, SilentStep, Terminated
<1>10. ASSUME NEW o \in Op, AdapterComplete(o)
      PROVE  SilentStep /\ UNCHANGED adapterVars
  BY <1>10 DEF AdapterComplete, SilentStep
<1>11. CASE UNCHANGED allVars
  BY <1>5, <1>11 DEF allVars, SilentStep
<1> QED
  BY <1>2, <1>3, <1>4, <1>5, <1>6, <1>7, <1>8, <1>9, <1>10, <1>11
     DEF AdapterNext, AdapterStarterStep, AdapterRunnerStep, Thread

(* The accounts of attempts and of reports hold in every behaviour of the   *)
(* adapters.                                                                *)
THEOREM AdapterInvHolds == AdapterSpec => []AdapterInv
<1> QED
  BY AdapterInvInit, AdapterInvStep, PTL DEF AdapterSpec

(* A call with LimitedErrorCountRetryPolicy makes at most                   *)
(* maximum_failures_ + 1 attempts, and one that is not idempotent at most   *)
(* one, for any limit, any number of threads and any answers.               *)
THEOREM Budget == AdapterSpec => []AttemptBudget
<1>1. AdapterInv => AttemptBudget
  BY DEF AdapterInv, BudgetInv, AttemptBudget
<1> QED
  BY AdapterInvHolds, <1>1, PTL

(* The answer that completes the operation is the one the user gets, and a  *)
(* paged call reports success with every page or with an exhausted policy.  *)
THEOREM SuccessIsExact == AdapterSpec => []SuccessExact
<1>1. AdapterInv => SuccessExact
  BY DEF AdapterInv, ReportInv
<1> QED
  BY AdapterInvHolds, <1>1, PTL
==============================================================================
