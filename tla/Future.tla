------------------------------- MODULE Future -------------------------------
(***************************************************************************)
(* promise<T>, future<T> and .then() (google/cloud/future_generic.h,       *)
(* internal/future_base.h, internal/future_impl.h and                      *)
(* internal/future_then_impl.h).                                           *)
(*                                                                         *)
(* Shared state 0 belongs to a promise; .then() on the future of state i   *)
(* makes state i + 1.  Several threads satisfy the promise, one thread     *)
(* (Consumer) holds the future and chains continuations to it, waits for   *)
(* it or gets it, and the futures that unwrapped functors return are       *)
(* satisfied by threads of their own.  Everything between locking and      *)
(* unlocking a state's mu_ is one step: nothing in there blocks, and no    *)
(* other lock is taken.                                                    *)
(***************************************************************************)
EXTENDS Integers, FiniteSets

CONSTANTS
  Depth,        \* how many continuations can be chained
  Setter,       \* threads that use the promise
  Inner,        \* threads that satisfy the futures returned by functors
  Consumer,     \* the thread that has the future
  Abandons,     \* whether promises may be destroyed without a value
  FutureErrors  \* whether a functor may throw std::future_error

ASSUME FutureAssumption ==
  /\ Depth \in Nat
  /\ Setter \intersect Inner = {} /\ Consumer \notin Setter \union Inner
  /\ Abandons \in BOOLEAN /\ FutureErrors \in BOOLEAN

Thread == Setter \union Inner \union {Consumer}
State == 0..Depth
Link == {i \in State : i < Depth}  \* the continuation from i to i + 1

(* How a state is satisfied; an exception is a std::future_error or another.*)
Outcome == {"has_value", "has_exception", "future_error"}
Thrown == IF FutureErrors THEN {"has_exception", "future_error"} ELSE {"has_exception"}

VARIABLES
  current_state_,  \* of every state
  continuation_,   \* the continuation a state holds: its kind, or "none"
  inner,           \* the state of the future that the functor of a link returned
  inner_waits,     \* whether that state holds the unwrapping continuation
  pc,              \* what a thread is doing, and with which state
  level,           \* the state of the future that Consumer has
  promise,         \* whether the promise exists
  executed         \* history: how often the functor of a link was called

sharedVars == <<current_state_, continuation_>>
innerVars == <<inner, inner_waits>>
vars == <<sharedVars, innerVars, pc, level, promise, executed>>

At(what, i, kind) == [at |-> what, of |-> i, kind |-> kind]
Idle == At("idle", 0, "none")
Done == At("done", 0, "none")
Threw == At("threw", 0, "none")   \* an exception reached the application

Init ==
  /\ current_state_ = [i \in State |-> "not_ready"]
  /\ continuation_ = [i \in State |-> "none"]
  /\ inner = [i \in Link |-> "none"]
  /\ inner_waits = [i \in Link |-> FALSE]
  /\ pc = [t \in Thread |-> Idle]
  /\ level = 0 /\ promise = TRUE
  /\ executed = [i \in Link |-> 0]

is_ready(i) == current_state_[i] # "not_ready"

(* A thread that has come to the end of a call: Consumer goes on.           *)
Return(t) == IF t = Consumer THEN Idle ELSE Done

------------------------------------------------------------------------------

(* Fault: the continuation is not looked at under the lock.                 *)
notify_now_NoContinuation(i) == At("notify", i, "none")

(* notify_now(), as far as it is under the lock: whoever satisfies a state  *)
(* runs its continuation or wakes up the waiting thread.                    *)
notify_now(i) ==
  IF continuation_[i] # "none" THEN At("execute", i, continuation_[i])
                               ELSE At("notify", i, "none")

(* Fault: a state is satisfied whether or not it is already.                *)
Satisfy_Again(t, i, outcome) ==
  /\ current_state_' = [current_state_ EXCEPT ![i] = outcome]
  /\ pc' = [pc EXCEPT ![t] = notify_now(i)]

(* set_value() or set_exception() on state i.                               *)
Satisfy(t, i, outcome) ==
  IF is_ready(i)
    THEN /\ pc' = [pc EXCEPT ![t] = Threw]
         /\ UNCHANGED current_state_
    ELSE /\ current_state_' = [current_state_ EXCEPT ![i] = outcome]
         /\ pc' = [pc EXCEPT ![t] = notify_now(i)]

(* promise<T>::set_value(), promise<T>::set_exception().                    *)
SetPromise(t, outcome) ==
  /\ t \in Setter /\ pc[t] = Idle /\ promise
  /\ Satisfy(t, 0, outcome)
  /\ UNCHANGED <<continuation_, innerVars, level, promise, executed>>

Asleep(i) == At("asleep", i, "none")

(* cv_.notify_all() on state i.                                             *)
WakeUp(i) == IF pc[Consumer] = Asleep(i) THEN [pc EXCEPT ![Consumer] = Idle] ELSE pc

NotifyAll(t) ==
  /\ pc[t].at = "notify"
  /\ pc' = [WakeUp(pc[t].of) EXCEPT ![t] = Return(t)]
  /\ UNCHANGED <<sharedVars, innerVars, level, promise, executed>>

(* The promise is destroyed: abandon() does not look at the continuation.   *)
Abandon ==
  /\ promise /\ \A t \in Setter : pc[t].at \in {"done", "threw"} \/ (Abandons /\ pc[t] = Idle)
  /\ promise' = FALSE
  /\ IF is_ready(0) THEN UNCHANGED <<current_state_, pc>>
     ELSE /\ current_state_' = [current_state_ EXCEPT ![0] = "future_error"]
          /\ pc' = WakeUp(0)
  /\ UNCHANGED <<continuation_, innerVars, level, executed>>

------------------------------------------------------------------------------
(* Consumer.                                                                *)

(* Fault: a state that is already satisfied is not noticed.                 *)
set_continuation_NotReady(i, kind) ==
  /\ continuation_' = [continuation_ EXCEPT ![i] = kind]
  /\ UNCHANGED pc

(* Fault: the functor is called at once, satisfied or not.                  *)
set_continuation_Early(i, kind) ==
  /\ pc' = [pc EXCEPT ![Consumer] = At("execute", i, kind)]
  /\ UNCHANGED continuation_

(* set_continuation().                                                      *)
set_continuation(i, kind) ==
  IF is_ready(i)
    THEN /\ pc' = [pc EXCEPT ![Consumer] = At("execute", i, kind)]
         /\ UNCHANGED continuation_
    ELSE /\ continuation_' = [continuation_ EXCEPT ![i] = kind]
         /\ UNCHANGED pc

(* future<T>::then(): the future is invalid afterwards, Consumer has the    *)
(* new one.                                                                 *)
Then(kind) ==
  /\ pc[Consumer] = Idle /\ level < Depth
  /\ set_continuation(level, kind)
  /\ level' = level + 1
  /\ UNCHANGED <<current_state_, innerVars, promise, executed>>

(* get() and wait(): returns, or blocks until it is notified.               *)
Get ==
  /\ pc[Consumer] = Idle
  /\ pc' = [pc EXCEPT ![Consumer] =
              IF is_ready(level) THEN At("got", level, "none") ELSE Asleep(level)]
  /\ UNCHANGED <<sharedVars, innerVars, level, promise, executed>>

(* A spurious wakeup, or the end of a wait_for() or wait_until().           *)
StopWaiting ==
  /\ pc[Consumer].at = "asleep"
  /\ pc' = [pc EXCEPT ![Consumer] = Idle]
  /\ UNCHANGED <<sharedVars, innerVars, level, promise, executed>>

------------------------------------------------------------------------------
(* continuation::execute(), on the thread that satisfied the state or that  *)
(* attached the continuation.                                               *)

(* continuation_execute_delegate(): a std::future_error is thrown on.       *)
Deliver(t, i, outcome, thrown) ==
  IF thrown /\ outcome = "future_error"
    THEN /\ pc' = [pc EXCEPT ![t] = At("threw", i, "none")]
         /\ UNCHANGED current_state_
    ELSE Satisfy(t, i, outcome)

Called(i) == executed' = [executed EXCEPT ![i] = @ + 1]

Execute(t) ==
  /\ pc[t].at = "execute" /\ pc[t].kind = "plain"
  /\ Called(pc[t].of)
  /\ \/ Deliver(t, pc[t].of + 1, "has_value", FALSE)
     \/ \E e \in Thrown : Deliver(t, pc[t].of + 1, e, TRUE)
  /\ UNCHANGED <<continuation_, innerVars, level, promise>>

(* unwrapping_continuation::execute(): the functor threw or returned an     *)
(* invalid future.                                                          *)
ExecuteFails(t) ==
  /\ pc[t].at = "execute" /\ pc[t].kind = "unwrap"
  /\ Called(pc[t].of)
  /\ \E e \in Thrown \union {"future_error"} : Deliver(t, pc[t].of + 1, e, FALSE)
  /\ UNCHANGED <<continuation_, innerVars, level, promise>>

(* The functor returned a future.                                           *)
ExecuteUnwraps(t) ==
  /\ pc[t].at = "execute" /\ pc[t].kind = "unwrap"
  /\ Called(pc[t].of)
  /\ inner' = [inner EXCEPT ![pc[t].of] = "not_ready"]
  /\ pc' = [pc EXCEPT ![t] = At("attach", pc[t].of, "none")]
  /\ UNCHANGED <<sharedVars, inner_waits, level, promise>>

(* intermediate->set_continuation().                                        *)
AttachInner(t) ==
  /\ pc[t].at = "attach"
  /\ LET i == pc[t].of
     IN  IF inner[i] # "not_ready"
           THEN /\ pc' = [pc EXCEPT ![t] = At("unwrap", i, "none")]
                /\ UNCHANGED inner_waits
           ELSE /\ inner_waits' = [inner_waits EXCEPT ![i] = TRUE]
                /\ pc' = [pc EXCEPT ![t] = Return(t)]
  /\ UNCHANGED <<sharedVars, inner, level, promise, executed>>

(* The thread that has the promise of the returned future satisfies it.     *)
SetInner(t, i, outcome) ==
  /\ t \in Inner /\ pc[t].at \in {"idle", "done", "threw"} /\ inner[i] = "not_ready"
  /\ inner' = [inner EXCEPT ![i] = outcome]
  /\ pc' = [pc EXCEPT ![t] = IF inner_waits[i] THEN At("unwrap", i, "none") ELSE Done]
  /\ UNCHANGED <<sharedVars, inner_waits, level, promise, executed>>

(* Or it is destroyed without a value.                                      *)
AbandonInner(i) ==
  /\ Abandons /\ inner[i] = "not_ready"
  /\ inner' = [inner EXCEPT ![i] = "future_error"]
  /\ UNCHANGED <<sharedVars, inner_waits, pc, level, promise, executed>>

(* The unwrapper: r->get() returns the value or throws what is in there.    *)
Unwrap(t) ==
  /\ pc[t].at = "unwrap"
  /\ Deliver(t, pc[t].of + 1, inner[pc[t].of], TRUE)
  /\ UNCHANGED <<continuation_, innerVars, level, promise, executed>>

------------------------------------------------------------------------------

Kind == {"plain", "unwrap"}

Terminated == ~promise /\ (\A t \in Thread : pc[t].at \notin {"notify", "execute", "attach", "unwrap"})
                /\ UNCHANGED vars

Run(t) ==
  NotifyAll(t) \/ Execute(t) \/ ExecuteFails(t) \/ ExecuteUnwraps(t)
    \/ AttachInner(t) \/ Unwrap(t)

Next ==
  \/ \E t \in Setter, outcome \in {"has_value"} \union Thrown : SetPromise(t, outcome)
  \/ \E t \in Thread : Run(t)
  \/ \E t \in Inner, i \in Link, outcome \in {"has_value"} \union Thrown : SetInner(t, i, outcome)
  \/ \E i \in Link : AbandonInner(i)
  \/ \E kind \in Kind : Then(kind)
  \/ Get \/ StopWaiting \/ Abandon \/ Terminated

Spec == Init /\ [][Next]_vars

(* Threads run, some thread uses the promise or it is destroyed, futures    *)
(* that functors return are satisfied, and Consumer asks for its result; it *)
(* is not woken up for nothing.                                             *)
FairSpec ==
  /\ Spec
  /\ \A t \in Thread : WF_vars(Run(t))
  /\ WF_vars(\E t \in Setter : SetPromise(t, "has_value")) /\ WF_vars(Abandon)
  /\ \A i \in Link : WF_vars(\E t \in Inner : SetInner(t, i, "has_value"))
  /\ WF_vars(Get)

------------------------------------------------------------------------------
(* Properties.                                                              *)

(* Types: what the states, the links and the threads can be.                *)
TypeOK ==
  /\ current_state_ \in [State -> Outcome \union {"not_ready"}]
  /\ continuation_ \in [State -> Kind \union {"none"}]
  /\ inner \in [Link -> Outcome \union {"not_ready", "none"}]
  /\ inner_waits \in [Link -> BOOLEAN]
  /\ pc \in [Thread -> [at : {"idle", "done", "threw", "notify", "asleep", "got",
                              "execute", "attach", "unwrap"},
                        of : State, kind : Kind \union {"none"}]]
  /\ \A t \in Thread : pc[t].at \in {"execute", "attach", "unwrap"} => pc[t].of \in Link
  /\ level \in State
  /\ promise \in BOOLEAN
  /\ executed \in [Link -> 0..1]

Running(t, i) == pc[t].at = "execute" /\ pc[t].of = i

(* However set_value() and then() interleave, the functor is called once at *)
(* most, and only after its input is satisfied (internal/future_impl.h:     *)
(* set_continuation and notify_now decide under the lock).                  *)
CalledOnce ==
  \A i \in Link :
    /\ executed[i] <= 1
    /\ executed[i] = 1 => is_ready(i)
    /\ \A t, u \in Thread : Running(t, i) /\ Running(u, i) => t = u
    /\ \A t \in Thread : Running(t, i) => executed[i] = 0

(* A continuation is not forgotten: once the input of an attached functor   *)
(* is satisfied, it was called or some thread is about to call it, unless   *)
(* the promise was abandoned (internal/future_impl.h: notify_now).          *)
NotForgotten ==
  \A i \in Link :
    i < level /\ is_ready(i) /\ executed[i] = 0 =>
      (\E t \in Thread : Running(t, i)) \/ (i = 0 /\ ~promise)

(* What CalledOnce and NotForgotten rest on: the functors that Consumer has *)
(* attached are exactly those of the states before its future, and a state  *)
(* that is not satisfied still has its continuation.                        *)
AttachedInv ==
  /\ \A i \in State : continuation_[i] # "none" => i < level
  /\ \A i \in Link :
       /\ i < level /\ ~is_ready(i) => continuation_[i] # "none"
       /\ executed[i] = 1 => i < level
       /\ \A t \in Thread : Running(t, i) => i < level /\ is_ready(i)

(* A functor that was called returned its future, and a thread that unwraps *)
(* it finds it satisfied: its get() does not block.                         *)
InnerInv ==
  /\ \A i \in Link : executed[i] = 0 => inner[i] = "none"
  /\ \A t \in Thread :
       /\ pc[t].at = "attach" => inner[pc[t].of] # "none"
       /\ pc[t].at = "unwrap" => inner[pc[t].of] \in Outcome

(* The inductive invariant.                                                 *)
Inv == TypeOK /\ AttachedInv /\ CalledOnce /\ NotForgotten

(* A state is satisfied once: concurrent calls to set_value() do not change *)
(* the value that another thread may already have read (future_impl.h: "We  *)
(* can only reach this point once, all other states are terminal").         *)
SatisfiedOnce ==
  [][\A i \in State : is_ready(i) => current_state_'[i] = current_state_[i]]_vars

(* What cuts a chain of continuations: the promise of its first future or   *)
(* of an unwrapped one was destroyed while a continuation waited for it, or *)
(* a functor threw std::future_error.                                       *)
Cut ==
  \/ level > 0 /\ current_state_[0] = "future_error" /\ ~promise /\ executed[0] = 0
  \/ \E i \in Link : \/ inner_waits[i] /\ inner[i] = "future_error"
                     \/ \E t \in Thread : pc[t] = At("threw", i + 1, "none")

(* If the application asks for the result it gets it, also through          *)
(* continuations and unwrapped futures, unless the chain is cut: no wakeup  *)
(* and no continuation is lost (internal/future_impl.h: notify_now).        *)
ResultArrives == <>(pc[Consumer].at \in {"got", "threw"}) \/ <>[]Cut
=============================================================================
