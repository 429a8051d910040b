---------------------------- MODULE FutureProofs ----------------------------
(***************************************************************************)
(* Proofs about Future, for any number of threads and of continuations.    *)
(***************************************************************************)
EXTENDS Future, TLAPS

(* A promise without continuation and without value.                        *)
LEMMA InitInv == Init => Inv
  BY FutureAssumption DEF Init, Inv, TypeOK, AttachedInv, CalledOnce, NotForgotten, Idle, At,
     Running, is_ready, State, Link, Outcome, Kind

(* A step that changes no shared state of a promise, attaches nothing and   *)
(* neither starts nor ends a call of a functor.                             *)
LEMMA QuietInv ==
  ASSUME Inv, TypeOK',
         UNCHANGED <<sharedVars, level, promise, executed>>,
         \A u \in Thread : pc'[u] = pc[u] \/ (pc[u].at # "execute" /\ pc'[u].at # "execute")
  PROVE  Inv'
<1>1. \A u \in Thread, i \in Link : /\ Running(u, i)' <=> Running(u, i)
                                    /\ Running(u, i) => pc'[u] = pc[u]
  BY DEF Running
<1> QED
  BY <1>1 DEF Inv, AttachedInv, CalledOnce, NotForgotten, is_ready, sharedVars

(* A thread calls a functor and leaves the shared states as they are.       *)
LEMMA CallInv ==
  ASSUME Inv, TypeOK', NEW t \in Thread, NEW p, pc[t].at = "execute", Called(pc[t].of),
         UNCHANGED <<sharedVars, level, promise>>, pc' = [pc EXCEPT ![t] = p], p.at # "execute"
  PROVE  Inv'
<1>1. \A u \in Thread, i \in Link :
        /\ Running(u, i)' <=> Running(u, i) /\ u # t
        /\ Running(u, i)' => pc'[u] = pc[u]
  BY DEF Running, Inv, TypeOK
<1>2. pc[t].of \in Link /\ Running(t, pc[t].of) /\ executed[pc[t].of] = 0
  BY DEF Inv, TypeOK, Running, CalledOnce
<1>3. \A i \in Link : executed'[i] = IF i = pc[t].of THEN 1 ELSE executed[i]
  BY <1>2 DEF Called, Inv, TypeOK
<1>4. \A i \in Link : Running(t, i) => i = pc[t].of
  BY DEF Running
<1>5. AttachedInv'
  BY <1>1, <1>2, <1>3 DEF Inv, AttachedInv, is_ready, sharedVars
<1>6. CalledOnce'
  BY <1>1, <1>2, <1>3, <1>4 DEF Inv, AttachedInv, CalledOnce, is_ready, sharedVars
<1>7. NotForgotten'
  BY <1>1, <1>2, <1>3, <1>4 DEF Inv, NotForgotten, is_ready, sharedVars
<1> QED
  BY <1>5, <1>6, <1>7 DEF Inv

(* The step that satisfies a state keeps the types.                         *)
LEMMA SatisfyType ==
  ASSUME TypeOK, NEW t \in Thread, NEW i \in State, NEW outcome \in Outcome,
         Satisfy(t, i, outcome), UNCHANGED <<continuation_, innerVars, level, promise>>,
         continuation_[i] # "none" => i \in Link, executed' \in [Link -> 0..1]
  PROVE  TypeOK'
<1>1. current_state_' \in [State -> Outcome \union {"not_ready"}]
  BY DEF TypeOK, Satisfy
<1> DEFINE P == [at : {"idle", "done", "threw", "notify", "asleep", "got",
                       "execute", "attach", "unwrap"},
                 of : State, kind : Kind \union {"none"}]
<1>2. notify_now(i) \in P /\ Threw \in P
  BY FutureAssumption DEF TypeOK, notify_now, At, Threw, State
<1>3. pc \in [Thread -> P]
  BY DEF TypeOK
<1>4. PICK p \in {Threw, notify_now(i)} : pc' = [pc EXCEPT ![t] = p]
  BY DEF Satisfy
<1>5. pc' \in [Thread -> P]
  <2> HIDE DEF P
  <2> QED
    BY <1>2, <1>3, <1>4
<1>6. p.at \in {"execute", "attach", "unwrap"} => p.of \in Link
  BY <1>4 DEF notify_now, At, Threw
<1>7. \A u \in Thread : pc'[u].at \in {"execute", "attach", "unwrap"} => pc'[u].of \in Link
  BY <1>3, <1>4, <1>6 DEF TypeOK
<1> QED
  BY <1>1, <1>5, <1>7 DEF TypeOK, innerVars

(* A thread that satisfies a state, after it has called the functor of the  *)
(* state before if it was to do so, calls the functor of this state next.   *)
LEMMA SatisfyInv ==
  ASSUME Inv, NEW t \in Thread, NEW i \in State, NEW outcome \in Outcome,
         Satisfy(t, i, outcome), UNCHANGED <<continuation_, innerVars, level, promise>>,
         \/ pc[t].at # "execute" /\ UNCHANGED executed
         \/ pc[t].at = "execute" /\ i = pc[t].of + 1 /\ Called(pc[t].of)
  PROVE  Inv'
<1> USE FutureAssumption
<1>1. continuation_[i] # "none" => i \in Link
  BY DEF Inv, TypeOK, AttachedInv, State, Link
<1>2. executed' \in [Link -> 0..1]
  <2>1. CASE pc[t].at # "execute"
    BY <2>1 DEF Inv, TypeOK
  <2>2. CASE pc[t].at = "execute"
    <3>1. pc[t].of \in Link /\ executed[pc[t].of] = 0
      BY <2>2 DEF Inv, TypeOK, CalledOnce, Running
    <3> QED
      BY <2>2, <3>1 DEF Called, Inv, TypeOK
  <2> QED
    BY <2>1, <2>2
<1>3. TypeOK'
  BY <1>1, <1>2, SatisfyType DEF Inv
<1>4. \A u \in Thread \ {t} : pc'[u] = pc[u]
  BY DEF Satisfy, Inv, TypeOK
<1>5. \A j \in State : is_ready(j) => is_ready(j)'
  BY DEF is_ready, Satisfy, Inv, TypeOK, Outcome
<1>6. \A j \in Link : Running(t, j)' => j = i /\ ~is_ready(i) /\ is_ready(i)' /\ continuation_[i] # "none"
  BY DEF Running, Satisfy, Inv, TypeOK, notify_now, At, Threw, is_ready, Outcome
<1>7. \A j \in Link : is_ready(j)' /\ ~is_ready(j) => j = i /\ (continuation_[i] # "none" => Running(t, i)')
  <2> SUFFICES ASSUME NEW j \in Link, is_ready(j)', ~is_ready(j)
               PROVE  j = i /\ (continuation_[i] # "none" => Running(t, i)')
    OBVIOUS
  <2>1. j = i
    BY DEF Satisfy, Inv, TypeOK, is_ready, Link
  <2>2. pc'[t] = notify_now(i)
    BY <2>1 DEF Satisfy, Inv, TypeOK
  <2> QED
    BY <2>1, <2>2 DEF notify_now, At, Running
<1>8. \A j \in Link : executed'[j] # executed[j] => Running(t, j) /\ executed[j] = 0 /\ executed'[j] = 1
  BY DEF Inv, TypeOK, CalledOnce, Running, Called
<1>9. \A j \in Link : Running(t, j) => executed'[j] = 1
  BY DEF Inv, TypeOK, CalledOnce, Running, Called
<1>10. \A u \in Thread \ {t}, j \in Link : Running(u, j)' <=> Running(u, j)
  BY <1>4 DEF Running
<1>11. continuation_' = continuation_ /\ level' = level /\ promise' = promise
  OBVIOUS
<1>12. Link \subseteq State
  BY DEF Link
<1>13. AttachedInv'
  <2>1. \A j \in Link : j < level' /\ ~is_ready(j)' => continuation_'[j] # "none"
    BY <1>5, <1>11, <1>12 DEF Inv, AttachedInv
  <2>2. \A j \in Link : executed'[j] = 1 => j < level'
    BY <1>8, <1>11 DEF Inv, AttachedInv
  <2>3. \A u \in Thread, j \in Link : Running(u, j)' => j < level' /\ is_ready(j)'
    BY <1>5, <1>6, <1>10, <1>11, <1>12 DEF Inv, AttachedInv
  <2> QED
    BY <1>11, <2>1, <2>2, <2>3 DEF Inv, AttachedInv
<1>14. CalledOnce'
  <2> SUFFICES ASSUME NEW j \in Link
               PROVE  /\ executed'[j] <= 1
                      /\ executed'[j] = 1 => is_ready(j)'
                      /\ \A u, v \in Thread : Running(u, j)' /\ Running(v, j)' => u = v
                      /\ \A u \in Thread : Running(u, j)' => executed'[j] = 0
    BY DEF CalledOnce
  <2>1. executed'[j] \in 0..1 /\ executed[j] \in 0..1
    BY <1>2 DEF Inv, TypeOK
  <2>2. executed'[j] = 1 => is_ready(j)'
    BY <1>5, <1>8, <1>12 DEF Inv, AttachedInv, CalledOnce
  <2>3. ASSUME NEW u \in Thread, NEW v \in Thread, Running(u, j)', Running(v, j)' PROVE u = v
    BY <2>3, <1>6, <1>10 DEF Inv, AttachedInv, CalledOnce
  <2>4. ASSUME NEW u \in Thread, Running(u, j)' PROVE executed'[j] = 0
    <3>1. CASE u = t
      BY <2>1, <2>4, <3>1, <1>6, <1>8 DEF Inv, AttachedInv, CalledOnce
    <3>2. CASE u # t
      BY <2>4, <3>2, <1>8, <1>10 DEF Inv, CalledOnce
    <3> QED
      BY <3>1, <3>2
  <2> QED
    BY <2>1, <2>2, <2>3, <2>4
<1>15. NotForgotten'
  <2> SUFFICES ASSUME NEW j \in Link, j < level', is_ready(j)', executed'[j] = 0
               PROVE  (\E u \in Thread : Running(u, j)') \/ (j = 0 /\ ~promise')
    BY DEF NotForgotten
  <2>1. CASE is_ready(j)
    BY <2>1, <1>8, <1>9, <1>10, <1>11 DEF Inv, NotForgotten
  <2>2. CASE ~is_ready(j)
    BY <2>2, <1>7, <1>11 DEF Inv, AttachedInv
  <2> QED
    BY <2>1, <2>2
<1> QED
  BY <1>3, <1>13, <1>14, <1>15 DEF Inv

(* Every step, action by action.                                            *)
LEMMA NextInv == Inv /\ InnerInv /\ [Next]_vars => Inv'
<1> SUFFICES ASSUME Inv, InnerInv, [Next]_vars PROVE Inv'
  OBVIOUS
<1> USE FutureAssumption
<1>1. ASSUME NEW t \in Setter, NEW outcome \in {"has_value"} \union Thrown, SetPromise(t, outcome)
      PROVE Inv'
  BY <1>1, SatisfyInv DEF SetPromise, Thread, Idle, At, State, Outcome, Thrown
<1>2. ASSUME NEW t \in Thread, NotifyAll(t) PROVE Inv'
  <2>1. \A u \in Thread : \/ pc'[u] = pc[u]
                          \/ pc[u].at # "execute" /\ pc'[u] \in {Idle, Done}
    BY <1>2 DEF NotifyAll, WakeUp, Asleep, At, Return, Inv, TypeOK, Thread
  <2>2. TypeOK'
    BY <1>2, <2>1 DEF NotifyAll, WakeUp, Asleep, At, Return, Inv, TypeOK, Thread, Idle, Done, State,
       sharedVars, innerVars
  <2> QED
    BY <1>2, <2>1, <2>2, QuietInv DEF NotifyAll, Idle, Done, At
<1>3. ASSUME NEW t \in Thread, NEW outcome \in Outcome, NEW thrown \in BOOLEAN,
             Deliver(t, pc[t].of + 1, outcome, thrown),
             UNCHANGED <<continuation_, innerVars, level, promise>>,
             \/ pc[t].at = "execute" /\ Called(pc[t].of)
             \/ pc[t].at = "unwrap" /\ UNCHANGED executed
      PROVE  Inv'
  <2>1. pc[t].of \in Link /\ pc[t].of + 1 \in State
    BY <1>3 DEF Inv, TypeOK, Link, State
  <2>2. CASE thrown /\ outcome = "future_error"
    <3> DEFINE threw == At("threw", pc[t].of + 1, "none")
    <3>1. pc' = [pc EXCEPT ![t] = threw] /\ UNCHANGED current_state_
      BY <1>3, <2>2 DEF Deliver
    <3>2. TypeOK'
      <4>1. executed' \in [Link -> 0..1]
        BY <1>3, <2>1 DEF Called, Inv, TypeOK, CalledOnce, Running
      <4> QED
        BY <1>3, <2>1, <3>1, <4>1 DEF Inv, TypeOK, At, State, innerVars
    <3>3. CASE pc[t].at = "execute"
      <4>1. threw.at # "execute"
        BY DEF At
      <4>2. UNCHANGED <<sharedVars, level, promise>> /\ Called(pc[t].of)
        BY <1>3, <3>1, <3>3 DEF sharedVars
      <4> QED
        BY <3>1, <3>2, <3>3, <4>1, <4>2, CallInv
    <3>4. CASE pc[t].at = "unwrap"
      BY <1>3, <3>1, <3>2, <3>4, QuietInv DEF At, sharedVars, Inv, TypeOK
    <3> QED
      BY <1>3, <3>3, <3>4
  <2>3. CASE ~(thrown /\ outcome = "future_error")
    <3>1. Satisfy(t, pc[t].of + 1, outcome)
      BY <1>3, <2>3 DEF Deliver
    <3> QED
      BY <1>3, <2>1, <3>1, SatisfyInv
  <2> QED
    BY <2>2, <2>3
<1>4. ASSUME NEW t \in Thread, Execute(t) \/ ExecuteFails(t) \/ Unwrap(t) PROVE Inv'
  <2>1. CASE Execute(t)
    <3>1. PICK outcome \in Outcome, thrown \in BOOLEAN : Deliver(t, pc[t].of + 1, outcome, thrown)
      BY <2>1 DEF Execute, Outcome, Thrown
    <3> QED
      BY <1>3, <2>1, <3>1 DEF Execute
  <2>2. CASE ExecuteFails(t)
    <3>1. PICK outcome \in Outcome : Deliver(t, pc[t].of + 1, outcome, FALSE)
      BY <2>2 DEF ExecuteFails, Outcome, Thrown
    <3> QED
      BY <1>3, <2>2, <3>1 DEF ExecuteFails
  <2>3. CASE Unwrap(t)
    BY <1>3, <2>3 DEF Unwrap, InnerInv
  <2> QED
    BY <1>4, <2>1, <2>2, <2>3
<1>5. ASSUME NEW t \in Thread, ExecuteUnwraps(t) PROVE Inv'
  <2>1. executed' \in [Link -> 0..1] /\ pc[t].of \in Link
    BY <1>5 DEF ExecuteUnwraps, Called, Inv, TypeOK, CalledOnce, Running
  <2>2. TypeOK'
    BY <1>5, <2>1 DEF ExecuteUnwraps, Inv, TypeOK, At, State, Link, sharedVars
  <2> QED
    <3> DEFINE p == At("attach", pc[t].of, "none")
    <3>1. p.at # "execute"
      BY DEF At
    <3>2. /\ pc[t].at = "execute" /\ Called(pc[t].of) /\ pc' = [pc EXCEPT ![t] = p]
          /\ UNCHANGED <<sharedVars, level, promise>>
      BY <1>5 DEF ExecuteUnwraps
    <3> HIDE DEF p
    <3> QED
      BY <2>2, <3>1, <3>2, CallInv
<1>6. ASSUME NEW t \in Thread, AttachInner(t) PROVE Inv'
  <2>1. \A u \in Thread : \/ pc'[u] = pc[u]
                          \/ u = t /\ pc[u].at = "attach" /\ pc'[u] \in {Idle, Done, At("unwrap", pc[t].of, "none")}
    BY <1>6 DEF AttachInner, Return, Inv, TypeOK
  <2>2. TypeOK'
    <3>1. PICK p \in {Idle, Done, At("unwrap", pc[t].of, "none")} : pc' = [pc EXCEPT ![t] = p]
      BY <1>6 DEF AttachInner, Return
    <3>2. inner_waits' \in [Link -> BOOLEAN]
      BY <1>6 DEF AttachInner, Inv, TypeOK
    <3> QED
      BY <1>6, <3>1, <3>2 DEF AttachInner, At, Inv, TypeOK, Idle, Done, State, Link, sharedVars
  <2> QED
    BY <1>6, <2>1, <2>2, QuietInv DEF AttachInner, Idle, Done, At
<1>8. ASSUME NEW t \in Inner, NEW i \in Link, NEW outcome \in {"has_value"} \union Thrown,
             SetInner(t, i, outcome)
      PROVE Inv'
  BY <1>8 DEF Inv, TypeOK, AttachedInv, CalledOnce, NotForgotten, SetInner, At, Return, Thrown, Threw,
     Running, is_ready, Idle, Done, sharedVars, innerVars, State, Link, Thread, Outcome, Kind
<1>9. ASSUME NEW i \in Link, AbandonInner(i) PROVE Inv'
  BY <1>9 DEF Inv, TypeOK, AttachedInv, CalledOnce, NotForgotten, AbandonInner,
     Running, is_ready, sharedVars, innerVars, Outcome
<1>10. ASSUME NEW kind \in Kind, Then(kind) PROVE Inv'
  <2>1. level \in Link /\ level' = level + 1 /\ pc[Consumer].at = "idle" /\ Consumer \in Thread
    BY <1>10 DEF Then, Inv, TypeOK, State, Link, Idle, At, Thread
  <2>2. CASE is_ready(level)
    <3>1. pc' = [pc EXCEPT ![Consumer] = At("execute", level, kind)] /\ UNCHANGED continuation_
      BY <1>10, <2>2 DEF Then, set_continuation
    <3>2. TypeOK'
      BY <1>10, <2>1, <3>1 DEF Then, Inv, TypeOK, At, State, Link, innerVars
    <3>3. \A u \in Thread, j \in Link :
            Running(u, j)' <=> Running(u, j) \/ (u = Consumer /\ j = level)
      BY <2>1, <3>1 DEF Running, At, Inv, TypeOK
    <3>4. UNCHANGED <<continuation_, current_state_, promise, executed>>
      BY <1>10, <3>1 DEF Then
    <3>5. executed[level] = 0 /\ \A u \in Thread : ~Running(u, level)
      <4>1. executed[level] \in 0..1
        BY <2>1 DEF Inv, TypeOK
      <4>2. ~(level < level)
        BY DEF Inv, TypeOK, State
      <4> QED
        BY <2>1, <4>1, <4>2 DEF Inv, AttachedInv
    <3>6. \A j \in Link : j < level' <=> j < level \/ j = level
      BY <2>1 DEF Link, State
    <3>7. AttachedInv'
      <4>1. \A j \in State : j < level => j < level'
        BY <2>1 DEF State, Link
      <4>2. \A j \in Link : is_ready(j)' <=> is_ready(j)
        BY <3>4 DEF is_ready
      <4>3. \A j \in Link : j < level' /\ ~is_ready(j)' => continuation_'[j] # "none"
        BY <2>2, <3>4, <3>6, <4>2 DEF Inv, AttachedInv
      <4>4. \A u \in Thread, j \in Link : Running(u, j)' => j < level' /\ is_ready(j)'
        BY <2>2, <3>3, <3>6, <4>2 DEF Inv, AttachedInv
      <4> QED
        BY <3>4, <3>6, <4>1, <4>3, <4>4 DEF Inv, AttachedInv
    <3>8. CalledOnce'
      BY <2>1, <3>3, <3>4, <3>5 DEF Inv, CalledOnce, is_ready
    <3>9. NotForgotten'
      BY <2>1, <3>3, <3>4, <3>6 DEF Inv, NotForgotten, is_ready
    <3> QED
      BY <3>2, <3>7, <3>8, <3>9 DEF Inv
  <2>3. CASE ~is_ready(level)
    <3>1. continuation_' = [continuation_ EXCEPT ![level] = kind] /\ UNCHANGED pc
      BY <1>10, <2>3 DEF Then, set_continuation
    <3>2. TypeOK'
      BY <1>10, <2>1, <3>1 DEF Then, Inv, TypeOK, State, Link, innerVars
    <3> QED
      BY <1>10, <2>1, <2>3, <3>1, <3>2
         DEF Then, Inv, TypeOK, AttachedInv, CalledOnce, NotForgotten, Running, is_ready, Link, State, Kind
  <2> QED
    BY <2>2, <2>3
<1>11. CASE Get
  BY <1>11 DEF Inv, TypeOK, AttachedInv, CalledOnce, NotForgotten, Get, At, Asleep,
     Running, is_ready, Idle, sharedVars, innerVars, State, Link, Thread, Outcome, Kind
<1>12. CASE StopWaiting
  BY <1>12 DEF Inv, TypeOK, AttachedInv, CalledOnce, NotForgotten, StopWaiting, At,
     Running, is_ready, Idle, sharedVars, innerVars, State, Link, Thread, Outcome, Kind
<1>13. CASE Abandon
  <2>1. \A u \in Thread : \/ pc'[u] = pc[u]
                          \/ pc[u].at # "execute" /\ pc'[u] = Idle
    BY <1>13 DEF Abandon, WakeUp, Asleep, At, Inv, TypeOK, Thread
  <2>2. \A u \in Thread, j \in Link : Running(u, j)' <=> Running(u, j)
    BY <2>1 DEF Running, Idle, At
  <2>3. \A j \in Link : is_ready(j) => is_ready(j)'
    BY <1>13 DEF Abandon, is_ready, Inv, TypeOK, State, Link
  <2>4. \A j \in Link : j # 0 => (is_ready(j)' <=> is_ready(j))
    BY <1>13 DEF Abandon, is_ready, Inv, TypeOK, State, Link
  <2>5. TypeOK'
    <3>1. pc' = pc \/ pc' = [pc EXCEPT ![Consumer] = Idle]
      BY <1>13 DEF Abandon, WakeUp
    <3>2. current_state_' \in [State -> Outcome \union {"not_ready"}]
      BY <1>13 DEF Abandon, Inv, TypeOK, Outcome
    <3>3. promise' \in BOOLEAN /\ UNCHANGED <<continuation_, innerVars, level, executed>>
      BY <1>13 DEF Abandon
    <3> QED
      <4>1. CASE pc' = pc
        BY <3>2, <3>3, <4>1 DEF Inv, TypeOK, innerVars
      <4>2. CASE pc' = [pc EXCEPT ![Consumer] = Idle]
        <5>1. Idle.at = "idle" /\ Idle.of = 0 /\ Idle.kind = "none" /\ 0 \in State
          BY DEF Idle, At, State
        <5>2. \A u \in Thread : pc'[u] = pc[u] \/ pc'[u] = Idle
          BY <4>2 DEF Inv, TypeOK
        <5>3. pc' \in [Thread -> [at : {"idle", "done", "threw", "notify", "asleep", "got",
                                       "execute", "attach", "unwrap"},
                                 of : State, kind : Kind \union {"none"}]]
          BY <4>2, <5>1 DEF Inv, TypeOK, Idle, At
        <5> QED
          BY <3>2, <3>3, <5>1, <5>2, <5>3 DEF Inv, TypeOK, innerVars
      <4> QED
        BY <3>1, <4>1, <4>2
  <2> QED
    BY <1>13, <2>2, <2>3, <2>4, <2>5 DEF Abandon, Inv, AttachedInv, CalledOnce, NotForgotten
<1>14. CASE UNCHANGED vars
  BY <1>14 DEF Inv, TypeOK, AttachedInv, CalledOnce, NotForgotten, Running, is_ready,
     vars, sharedVars, innerVars
<1> QED
  BY <1>1, <1>2, <1>4, <1>5, <1>6, <1>8, <1>9, <1>10, <1>11, <1>12, <1>13, <1>14
     DEF Next, Run, Terminated

(* The futures that functors return.                                        *)
LEMMA NextInner == Inv /\ InnerInv /\ [Next]_vars => InnerInv'
<1> SUFFICES ASSUME Inv, InnerInv, [Next]_vars PROVE InnerInv'
  OBVIOUS
<1> USE FutureAssumption
<1>1. ASSUME inner' = inner,
             \A i \in Link : executed'[i] = 0 => executed[i] = 0,
             \A u \in Thread : pc'[u] = pc[u] \/ pc'[u].at \notin {"attach", "unwrap"}
      PROVE  InnerInv'
  BY <1>1 DEF InnerInv
<1>2. ASSUME NEW t \in Thread, NEW i \in State, NEW outcome, Satisfy(t, i, outcome)
      PROVE  \A u \in Thread : pc'[u] = pc[u] \/ pc'[u].at \notin {"attach", "unwrap"}
  BY <1>2 DEF Satisfy, notify_now, At, Threw, Inv, TypeOK
<1>3. ASSUME NEW t \in Setter, NEW outcome, SetPromise(t, outcome) PROVE InnerInv'
  BY <1>1, <1>2, <1>3 DEF SetPromise, Thread, State, innerVars
<1>4. ASSUME NEW t \in Thread, NotifyAll(t) PROVE InnerInv'
  <2>1. \A u \in Thread : pc'[u] = pc[u] \/ pc'[u] \in {Idle, Done}
    BY <1>4 DEF NotifyAll, WakeUp, Return, Inv, TypeOK, Thread
  <2> QED
    BY <1>1, <1>4, <2>1 DEF NotifyAll, Idle, Done, At, innerVars
<1>5. ASSUME NEW t \in Thread, NEW outcome, NEW thrown \in BOOLEAN,
             Deliver(t, pc[t].of + 1, outcome, thrown), pc[t].of \in Link
      PROVE  \A u \in Thread : pc'[u] = pc[u] \/ pc'[u].at \notin {"attach", "unwrap"}
  <2>1. CASE Satisfy(t, pc[t].of + 1, outcome)
    BY <1>2, <1>5, <2>1 DEF State, Link
  <2>2. CASE pc' = [pc EXCEPT ![t] = At("threw", pc[t].of + 1, "none")]
    BY <2>2 DEF At, Inv, TypeOK
  <2> QED
    BY <1>5, <2>1, <2>2 DEF Deliver
<1>6. ASSUME NEW t \in Thread, pc[t].at = "execute", Called(pc[t].of)
      PROVE  \A i \in Link : executed'[i] = 0 => executed[i] = 0 /\ i # pc[t].of
  BY <1>6 DEF Called, Inv, TypeOK
<1>7. ASSUME NEW t \in Thread, Execute(t) PROVE InnerInv'
  <2>1. PICK outcome \in Outcome, thrown \in BOOLEAN : Deliver(t, pc[t].of + 1, outcome, thrown)
    BY <1>7 DEF Execute, Outcome, Thrown
  <2> QED
    BY <1>1, <1>5, <1>6, <1>7, <2>1 DEF Execute, Inv, TypeOK, innerVars
<1>8. ASSUME NEW t \in Thread, ExecuteFails(t) PROVE InnerInv'
  <2>1. PICK outcome \in Outcome : Deliver(t, pc[t].of + 1, outcome, FALSE)
    BY <1>8 DEF ExecuteFails, Outcome, Thrown
  <2> QED
    BY <1>1, <1>5, <1>6, <1>8, <2>1 DEF ExecuteFails, Inv, TypeOK, innerVars
<1>9. ASSUME NEW t \in Thread, Unwrap(t) PROVE InnerInv'
  BY <1>1, <1>5, <1>9 DEF Unwrap, Inv, TypeOK, innerVars
<1>10. ASSUME NEW t \in Thread, ExecuteUnwraps(t) PROVE InnerInv'
  BY <1>6, <1>10 DEF ExecuteUnwraps, At, Inv, TypeOK, CalledOnce, Running, InnerInv, Outcome
<1>11. ASSUME NEW t \in Thread, AttachInner(t) PROVE InnerInv'
  <2>1. PICK p \in {Idle, Done, At("unwrap", pc[t].of, "none")} :
           /\ pc' = [pc EXCEPT ![t] = p]
           /\ p.at = "unwrap" => p.of = pc[t].of /\ inner[pc[t].of] # "not_ready"
    BY <1>11 DEF AttachInner, Return, Idle, Done, At
  <2> QED
    BY <1>11, <2>1 DEF AttachInner, Idle, Done, At, Inv, TypeOK, InnerInv, Outcome
<1>12. ASSUME NEW t \in Inner, NEW i \in Link, NEW outcome \in {"has_value"} \union Thrown,
              SetInner(t, i, outcome)
       PROVE  InnerInv'
  BY <1>12 DEF SetInner, At, Done, Inv, TypeOK, InnerInv, Outcome, Thrown, Thread
<1>13. ASSUME NEW i \in Link, AbandonInner(i) PROVE InnerInv'
  BY <1>13 DEF AbandonInner, Inv, TypeOK, InnerInv, Outcome
<1>14. ASSUME NEW kind \in Kind, Then(kind) PROVE InnerInv'
  BY <1>1, <1>14 DEF Then, set_continuation, At, Inv, TypeOK, innerVars
<1>15. CASE Get
  BY <1>1, <1>15 DEF Get, Asleep, At, Inv, TypeOK, innerVars
<1>16. CASE StopWaiting
  BY <1>1, <1>16 DEF StopWaiting, Idle, At, Inv, TypeOK, innerVars
<1>17. CASE Abandon
  BY <1>1, <1>17 DEF Abandon, WakeUp, Idle, At, Inv, TypeOK, innerVars
<1>18. CASE UNCHANGED vars
  BY <1>1, <1>18 DEF vars, innerVars
<1> QED
  BY <1>3, <1>4, <1>7, <1>8, <1>9, <1>10, <1>11, <1>12, <1>13, <1>14, <1>15, <1>16, <1>17, <1>18
     DEF Next, Run, Terminated

(* The invariant holds in every reachable state.                            *)
THEOREM InvHolds == Spec => [](Inv /\ InnerInv)
<1>1. Init => InnerInv
  BY DEF Init, InnerInv, Idle, At
<1> QED
  BY <1>1, InitInv, NextInv, NextInner, PTL DEF Spec

(* However many threads use the promise and however many continuations are  *)
(* chained, a functor is called at most once, and after its input is        *)
(* satisfied (set_continuation and notify_now of future_impl.h).            *)
THEOREM FunctorCalledOnce == Spec => []CalledOnce
  BY InvHolds, PTL DEF Inv

(* The functor of a satisfied state is called unless the promise was        *)
(* abandoned: set_value() and then() cannot both leave it to the other.     *)
THEOREM FunctorNotForgotten == Spec => []NotForgotten
  BY InvHolds, PTL DEF Inv

(* A satisfied state never changes (set_value, set_exception and abandon    *)
(* check it under the lock).                                                *)
THEOREM StateIsFinal == Spec => SatisfiedOnce
<1> DEFINE Final == \A i \in State : is_ready(i) => current_state_'[i] = current_state_[i]
<1>1. ASSUME NEW t, NEW i, NEW outcome, Satisfy(t, i, outcome), TypeOK PROVE Final
  BY <1>1 DEF Satisfy, TypeOK, is_ready
<1>2. ASSUME NEW t, NEW i, NEW outcome, NEW thrown, Deliver(t, i, outcome, thrown), TypeOK PROVE Final
  BY <1>1, <1>2 DEF Deliver
<1>3. ASSUME NEW t, Run(t), TypeOK PROVE Final
  BY <1>2, <1>3 DEF Run, NotifyAll, Execute, ExecuteFails, ExecuteUnwraps, AttachInner, Unwrap, sharedVars
<1>4. ASSUME Abandon, TypeOK PROVE Final
  BY <1>4 DEF Abandon, TypeOK, is_ready
<1>5. Inv /\ [Next]_vars => [Final]_vars
  BY <1>1, <1>3, <1>4 DEF Inv, Next, SetPromise, SetInner, AbandonInner, Then, Get, StopWaiting, Terminated,
     sharedVars, vars
<1> QED
  BY <1>5, InvHolds, PTL DEF Spec, SatisfiedOnce
=============================================================================
