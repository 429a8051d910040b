-------------------------- MODULE AdminCallsProofs --------------------------
(***************************************************************************)
(* Proofs about AdminCalls.tla: for every set of callers and calls, every  *)
(* limit of the policies, every number of pages and polls,                 *)
(*                                                                         *)
(*   RefusalsAreTrue          a call that is not repeated is not refused   *)
(*                            because of what it did itself                *)
(*   SuccessIsComplete        OK means that what was asked for is done     *)
(*   CancelledCallsDoNotPoll  a cancelled call does not start its second   *)
(*                            phase                                        *)
(*                                                                         *)
(* The invariant is Good, a predicate on one call, its operation, the      *)
(* window of its mutex and the service.  A step of one call leaves the     *)
(* others alone but for the service, so that the proof is one lemma for    *)
(* each step of a call and one for what others do to the service.          *)
(***************************************************************************)
EXTENDS AdminCalls, TLAPS

-----------------------------------------------------------------------------
(* The tables of the operations.                                           *)

SyncTables ==
  {InstanceSync, ClusterSync, AppProfileSync, IamSync, InstanceChangeSync,
   UpdateClusterSync, CreateClusterSync, TableSync, TableChangeSync,
   ConsistencySync, SnapshotSync, SnapshotTableSync, CreateTableFromSnapshotSync}

AsyncTables ==
  {InstanceAsync, InstanceChangeAsync, DeleteInstanceAsync, ClusterAsync,
   ClusterChangeAsync, AppProfileAsync, AppProfileReadAsync,
   DeleteAppProfileAsync, TableAsync, DeleteTableAsync, AwaitConsistencyAsync,
   TableChangeAsync, DropAllRowsAsync, SnapshotAsync}

(* A merged table has the entries of its parts.                            *)
LEMMA MergedDomain ==
  ASSUME NEW tables, NEW op
  PROVE  op \in DOMAIN Merged(tables) <=> \E t \in tables : op \in DOMAIN t
  BY DEF Merged

(* Where the parts agree on an operation, the merged table agrees as well. *)
LEMMA MergedValue ==
  ASSUME NEW tables, NEW t \in tables, NEW op \in DOMAIN t,
         \A u \in tables : op \in DOMAIN u => u[op] = t[op]
  PROVE  Merged(tables)[op] = t[op]
<1> DEFINE u == CHOOSE u \in tables : op \in DOMAIN u
<1>1. u \in tables /\ op \in DOMAIN u
  OBVIOUS
<1>2. Merged(tables)[op] = u[op]
  BY DEF Merged
<1> QED
  BY <1>1, <1>2

(* The calls that must not be repeated are made with                       *)
(* MakeNonIdemponentCall() when they are synchronous.                      *)
LEMMA MadeOnce ==
  ASSUME NEW op \in {"CreateTable", "DeleteTable", "DeleteSnapshot",
                     "DeleteInstance", "DeleteCluster", "CreateAppProfile"}
  PROVE  Sync[op] = "once"
<1>1. ASSUME NEW t \in SyncTables, op \in DOMAIN t
      PROVE  t[op] = "once"
  BY <1>1 DEF SyncTables, InstanceSync, ClusterSync, AppProfileSync, IamSync,
       InstanceChangeSync, UpdateClusterSync, CreateClusterSync, TableSync,
       TableChangeSync, ConsistencySync, SnapshotSync, SnapshotTableSync,
       CreateTableFromSnapshotSync
<1>2. \E t \in SyncTables : op \in DOMAIN t
  BY DEF SyncTables, InstanceSync, ClusterSync, AppProfileSync, TableSync,
       SnapshotSync
<1>3. PICK t \in SyncTables : op \in DOMAIN t
  BY <1>2
<1>4. Merged(SyncTables)[op] = t[op]
  BY <1>1, <1>3, MergedValue
<1> QED
  BY <1>1, <1>3, <1>4 DEF Sync, SyncTables

(* ... and with a policy that calls them not idempotent when they are      *)
(* asynchronous.                                                           *)
LEMMA NotRepeated ==
  ASSUME NEW op \in {"CreateTable", "DeleteTable", "DeleteSnapshot"}
  PROVE  Async[op] = FALSE
<1>1. ASSUME NEW t \in AsyncTables, op \in DOMAIN t
      PROVE  t[op] = FALSE
  BY <1>1 DEF AsyncTables, InstanceAsync, InstanceChangeAsync,
       DeleteInstanceAsync, ClusterAsync, ClusterChangeAsync, AppProfileAsync,
       AppProfileReadAsync, DeleteAppProfileAsync, TableAsync,
       DeleteTableAsync, AwaitConsistencyAsync, TableChangeAsync,
       DropAllRowsAsync, SnapshotAsync
<1>2. \E t \in AsyncTables : op \in DOMAIN t
  BY DEF AsyncTables, TableAsync, DeleteTableAsync, SnapshotAsync
<1>3. PICK t \in AsyncTables : op \in DOMAIN t
  BY <1>2
<1>4. Merged(AsyncTables)[op] = t[op]
  BY <1>1, <1>3, MergedValue
<1> QED
  BY <1>1, <1>3, <1>4 DEF Async, AsyncTables

(* Waiting for replication is either AsyncAwaitConsistency() or the        *)
(* synchronous WaitForConsistencyCheck().                                  *)
LEMMA WaitingStyles ==
  "AwaitConsistency" \notin DOMAIN Sync /\ "WaitForConsistencyCheck" \notin DOMAIN Async
<1>1. \A t \in SyncTables : "AwaitConsistency" \notin DOMAIN t
  BY DEF SyncTables, InstanceSync, ClusterSync, AppProfileSync, IamSync,
       InstanceChangeSync, UpdateClusterSync, CreateClusterSync, TableSync,
       TableChangeSync, ConsistencySync, SnapshotSync, SnapshotTableSync,
       CreateTableFromSnapshotSync
<1>2. \A t \in AsyncTables : "WaitForConsistencyCheck" \notin DOMAIN t
  BY DEF AsyncTables, InstanceAsync, InstanceChangeAsync,
       DeleteInstanceAsync, ClusterAsync, ClusterChangeAsync, AppProfileAsync,
       AppProfileReadAsync, DeleteAppProfileAsync, TableAsync,
       DeleteTableAsync, AwaitConsistencyAsync, TableChangeAsync,
       DropAllRowsAsync, SnapshotAsync
<1>3. "AwaitConsistency" \notin DOMAIN Merged(SyncTables)
  BY <1>1, MergedDomain
<1>4. "WaitForConsistencyCheck" \notin DOMAIN Merged(AsyncTables)
  BY <1>2, MergedDomain
<1> QED
  BY <1>3, <1>4 DEF Sync, Async, SyncTables, AsyncTables

-----------------------------------------------------------------------------
(* The service.                                                            *)

InstanceService ==
  {"CreateInstance", "GetInstance", "ListInstances", "PartialUpdateInstance",
   "DeleteInstance", "CreateCluster", "GetCluster", "ListClusters",
   "UpdateCluster", "DeleteCluster", "CreateAppProfile", "GetAppProfile",
   "ListAppProfiles", "UpdateAppProfile", "DeleteAppProfile", "GetIamPolicy",
   "SetIamPolicy", "TestIamPermissions"}

TableService ==
  {"CreateTable", "DeleteTable", "ModifyColumnFamilies", "DropRowRange",
   "SnapshotTable", "CreateTableFromSnapshot", "DeleteSnapshot", "GetSnapshot",
   "ListTables", "ListSnapshots", "GetTable", "GenerateConsistencyToken",
   "CheckConsistency"}

Codes == {"OK", "ALREADY_EXISTS", "NOT_FOUND"}

(* What is answered: a refusal changes nothing.                            *)
Answer(a, h) == h.code \in Codes /\ (h.code # "OK" => h.at = a)

LEMMA InstanceAnswers ==
  ASSUME NEW a, NEW w, NEW rpc \in InstanceService
  PROVE  Answer(a, HandleInstance(a, rpc, w))
  BY DEF Answer, Codes, InstanceService, HandleInstance, Done, Emplace, Find, Store, Erase,
       CreateInstance, GetInstance, ListInstances, PartialUpdateInstance,
       DeleteInstance, CreateCluster, GetCluster, ListClusters, UpdateCluster,
       DeleteCluster, CreateAppProfile, GetAppProfile, ListAppProfiles,
       UpdateAppProfile, DeleteAppProfile, GetIamPolicy, SetIamPolicy,
       TestIamPermissions

LEMMA TableAnswers ==
  ASSUME NEW a, NEW w, NEW rpc \in TableService
  PROVE  Answer(a, HandleTable(a, rpc, w))
  BY DEF Answer, Codes, TableService, HandleTable, Done, Emplace, Find, Erase,
       CreateTable, DeleteTable, ModifyColumnFamilies, DropRowRange,
       SnapshotTable, CreateTableFromSnapshot

(* Every operation of either style is an RPC that the service knows.       *)
LEMMA KnownRpc ==
  ASSUME NEW op, NEW style \in {"sync", "async"},
         style = "sync" => op \in DOMAIN Sync,
         style = "async" => op \in DOMAIN Async
  PROVE  Rpc(op, style) \in InstanceService \cup TableService
<1>1. CASE style = "sync"
  <2>1. PICK t \in SyncTables : op \in DOMAIN t
    BY <1>1, MergedDomain DEF Sync, SyncTables
  <2>2. op \in DOMAIN InstanceRpcs \cup DOMAIN TableRpcs
    BY <2>1 DEF SyncTables, InstanceSync, ClusterSync, AppProfileSync, IamSync,
         InstanceChangeSync, UpdateClusterSync, CreateClusterSync, TableSync,
         TableChangeSync, ConsistencySync, SnapshotSync, SnapshotTableSync,
         CreateTableFromSnapshotSync, InstanceRpcs, TableRpcs
  <2> QED
    BY <1>1, <2>2 DEF Rpc, InstanceRpcs, TableRpcs, InstanceService, TableService
<1>2. CASE style = "async"
  <2>1. PICK t \in AsyncTables : op \in DOMAIN t
    BY <1>2, MergedDomain DEF Async, AsyncTables
  <2>2. op \in DOMAIN AsyncInstanceRpcs \cup DOMAIN AsyncTableRpcs
    BY <2>1 DEF AsyncTables, InstanceAsync, InstanceChangeAsync,
         DeleteInstanceAsync, ClusterAsync, ClusterChangeAsync, AppProfileAsync,
         AppProfileReadAsync, DeleteAppProfileAsync, TableAsync,
         DeleteTableAsync, AwaitConsistencyAsync, TableChangeAsync,
         DropAllRowsAsync, SnapshotAsync, AsyncInstanceRpcs, AsyncTableRpcs
  <2> QED
    BY <1>2, <2>2 DEF Rpc, AsyncInstanceRpcs, AsyncTableRpcs, InstanceService,
         TableService
<1> QED
  BY <1>1, <1>2

(* The answer to an attempt: one of three codes, and nothing has changed   *)
(* if it is a refusal.                                                     *)
LEMMA Answers ==
  ASSUME NEW a, NEW w, NEW rpc \in InstanceService \cup TableService
  PROVE  Answer(a, Handle(a, rpc, w))
<1>1. {InstanceRpcs[op] : op \in DOMAIN InstanceRpcs} = InstanceService
  BY DEF InstanceRpcs, InstanceService
<1>2. InstanceService \cap TableService = {}
  BY DEF InstanceService, TableService
<1> QED
  BY <1>1, <1>2, InstanceAnswers, TableAnswers DEF Handle

-----------------------------------------------------------------------------
(* The inductive invariant.  It is a property Good(k, o, w, r) of a call   *)
(* k, of its long-running operation o, and of the mutations written (w)    *)
(* and replicated (r): a step of one call leaves those of the others       *)
(* alone, and w and r only grow.                                           *)

Statuses == Codes \cup {"UNAVAILABLE", "PERMISSION_DENIED", "CANCELLED",
                        "FAILED", "UNKNOWN"}

Lros == {"none", "running"} \cup Outcomes

Calls ==
  [pc : {"idle", "ready", "inflight", "answered", "polling", "checked",
         "waiting", "callback", "returned"},
   op : {"none"} \cup DOMAIN Sync \cup DOMAIN Async, style : {"sync", "async"},
   failures : Nat, page : Nat, status : Statuses, lro : Lros, polls : Nat,
   token : Nat, before : Nat, consistent : BOOLEAN, changed : BOOLEAN,
   phase : {"retry", "poll"}, current_op_ : {"none", "retry", "poll"},
   assigning : {"none", "retry", "poll"}, cancelled_ : BOOLEAN,
   loopCancelled : BOOLEAN,
   outcome : {"none", "value", "false", "exception", "std::future", "future",
              "callback"}]

(* Where a call of either style can be.                                    *)
StyleInv(k) ==
  /\ k.pc = "idle" => k.op = "none"
  /\ k.pc # "idle" /\ k.style = "sync" => k.op \in DOMAIN Sync
  /\ k.style = "async" => k.op \in DOMAIN Async \ Paged
  /\ k.style = "sync" => k.phase = "retry" /\ k.pc \notin {"inflight", "waiting", "callback"}
  /\ k.style = "async" => k.pc \notin {"idle", "ready", "polling", "checked"}
  /\ k.phase = "poll" => k.op \in TwoPhase /\ k.pc # "answered"
  /\ k.pc = "polling" => k.op \in LongRunning
  /\ k.pc = "checked" => k.op = "WaitForConsistencyCheck"
  /\ k.outcome # "none" => k.pc = "returned"

(* A call that must not be repeated makes one attempt: what it changes, it *)
(* changes there, and then it is not refused.                              *)
RefusalInv(k) ==
  NotIdempotent(k) =>
    /\ k.pc \in {"ready", "inflight"} => ~k.changed
    /\ k.pc # "waiting"
    /\ k.changed => k.status \notin {"ALREADY_EXISTS", "NOT_FOUND"}

(* Another page is asked for only if there is one.                         *)
PageInv(k) ==
  k.op \in Paged =>
    /\ k.page <= Pages
    /\ k.pc = "ready" \/ (k.pc = "answered" /\ k.status # "OK") => k.page < Pages
    /\ k.outcome = "value" => k.page = Pages

(* What a call knows of its long-running operation is the truth, if not    *)
(* the latest news; it is polled only after it has been started.           *)
LroInv(k, o) ==
  /\ k.op \notin LongRunning => k.lro = "none" /\ o = "none"
  /\ k.op \in LongRunning =>
       /\ k.lro \in Outcomes => o = k.lro
       /\ k.lro = "running" => o # "none"
       /\ \/ k.pc \in {"answered", "callback"} /\ k.phase = "retry" /\ k.status = "OK"
          \/ k.phase = "poll" /\ k.pc # "returned"
          \/ k.pc = "polling"
          => k.lro # "none"
       /\ k.pc = "callback" /\ k.phase = "poll" /\ k.status = "OK" =>
            o \in {"response", "garbled"}
       /\ k.outcome = "value" => o = "response" \/ (k.style = "async" /\ o = "garbled")

(* The consistency token stands for all mutations written before the call. *)
TokenInv(k, w, r) ==
  /\ Consistency(k.op) => k.before <= w
  /\ k.op = "WaitForConsistencyCheck" /\ k.pc # "returned" =>
       k.token = k.before /\ (k.consistent => r >= k.token)
  /\ k.op = "AwaitConsistency" =>
       /\ \/ k.pc \in {"answered", "callback"} /\ k.status = "OK"
          \/ k.phase = "poll" /\ k.pc # "returned"
          => k.token >= k.before
       /\ k.pc = "callback" /\ k.phase = "poll" /\ k.status = "OK" => r >= k.token
  /\ k.outcome = "value" /\ Consistency(k.op) => r >= k.before

Good(k, o, w, r) ==
  /\ k \in Calls /\ o \in Lros
  /\ StyleInv(k) /\ RefusalInv(k) /\ PageInv(k) /\ LroInv(k, o) /\ TokenInv(k, w, r)

Inv ==
  /\ call \in [Callers -> Calls] /\ lro \in [Callers -> Lros]
  /\ written \in Nat /\ replicated \in Nat
  /\ \A c \in Callers : Good(call[c], lro[c], written, replicated)

-----------------------------------------------------------------------------
(* A new value of one call is all there is to prove of its steps.          *)
LEMMA OneCall ==
  ASSUME Inv, NEW c \in Callers, NEW k, NEW o,
         Good(k, o, written, replicated),
         call' = [call EXCEPT ![c] = k], lro' = [lro EXCEPT ![c] = o],
         written' = written, replicated' = replicated
  PROVE  Inv'
<1>1. k \in Calls /\ o \in Lros
  BY DEF Good
<1>2. call' \in [Callers -> Calls] /\ lro' \in [Callers -> Lros]
  BY <1>1 DEF Inv
<1>3. ASSUME NEW d \in Callers
      PROVE  Good(call'[d], lro'[d], written, replicated)
  <2>1. CASE d = c
    BY <2>1 DEF Inv
  <2>2. CASE d # c
    BY <2>2 DEF Inv
  <2> QED
    BY <2>1, <2>2
<1> QED
  BY <1>2, <1>3 DEF Inv

(* Most steps leave the long-running operation alone.                      *)
LEMMA OneCallOnly ==
  ASSUME Inv, NEW c \in Callers, NEW k,
         Good(k, lro[c], written, replicated),
         Set(c, k), UNCHANGED <<lro, written, replicated>>
  PROVE  Inv'
<1>1. lro' = [lro EXCEPT ![c] = lro[c]]
  BY DEF Inv
<1> QED
  BY <1>1, OneCall DEF Set

(* Mutations and their replication do not make a call worse.               *)
LEMMA Monotone ==
  ASSUME NEW k, NEW o, NEW w \in Nat, NEW r \in Nat, NEW w2 \in Nat,
         NEW r2 \in Nat, w2 >= w, r2 >= r, Good(k, o, w, r)
  PROVE  Good(k, o, w2, r2)
<1>1. k.token \in Nat /\ k.before \in Nat
  BY DEF Good, Calls
<1>2. TokenInv(k, w2, r2)
  BY <1>1 DEF Good, TokenInv
<1> QED
  BY <1>2 DEF Good

(* Finished() drops the policies and loops of a call and keeps the rest.   *)
LEMMA FinishedFields ==
  ASSUME NEW k \in Calls, NEW s \in Statuses
  PROVE  LET f == Finished(k, s)
         IN  /\ f \in Calls
             /\ f.pc = "returned" /\ f.op = k.op /\ f.style = k.style
             /\ f.page = k.page /\ f.status = s /\ f.before = k.before
             /\ f.changed = k.changed /\ f.phase = k.phase
             /\ f.cancelled_ = k.cancelled_ /\ f.lro = "none"
             /\ f.outcome = "value" <=> s = "OK"
<1>1. Reported(k.op, k.style) \in {"exception", "std::future", "future", "callback"}
  BY DEF Reported
<1> DEFINE result == IF s = "OK" THEN "value" ELSE Reported(k.op, k.style)
<1>2. result \in {"value", "exception", "std::future", "future", "callback"}
         /\ (result = "value" <=> s = "OK")
  BY <1>1
<1>3. Idle \in Calls
  BY DEF Idle, Calls, Statuses, Codes, Lros
<1>4. Finished(k, s) =
        [Idle EXCEPT !.pc = "returned", !.op = k.op, !.style = k.style,
           !.page = k.page, !.status = s, !.before = k.before,
           !.changed = k.changed, !.phase = k.phase,
           !.cancelled_ = k.cancelled_, !.outcome = result]
  BY DEF Finished
<1> HIDE DEF result
<1> DEFINE f1 == [Idle EXCEPT !.pc = "returned", !.op = k.op, !.style = k.style,
                    !.page = k.page, !.status = s]
           f2 == [f1 EXCEPT !.before = k.before, !.changed = k.changed]
           f3 == [f2 EXCEPT !.phase = k.phase, !.cancelled_ = k.cancelled_]
           f4 == [f3 EXCEPT !.outcome = result]
<1>5. Finished(k, s) = f4
  BY <1>3, <1>4 DEF Calls
<1>6. f1 \in Calls /\ f1.lro = Idle.lro /\ f1.pc = "returned" /\ f1.op = k.op
        /\ f1.style = k.style /\ f1.page = k.page /\ f1.status = s
  BY <1>3, ZenonT(60) DEF Calls
<1> HIDE DEF f1
<1>7. f2 \in Calls /\ f2.lro = f1.lro /\ f2.pc = f1.pc /\ f2.op = f1.op
        /\ f2.style = f1.style /\ f2.page = f1.page /\ f2.status = f1.status
        /\ f2.before = k.before /\ f2.changed = k.changed
  BY <1>6 DEF Calls
<1> HIDE DEF f2
<1>8. f3 \in Calls /\ f3.lro = f2.lro /\ f3.pc = f2.pc /\ f3.op = f2.op
        /\ f3.style = f2.style /\ f3.page = f2.page /\ f3.status = f2.status
        /\ f3.before = f2.before /\ f3.changed = f2.changed
        /\ f3.phase = k.phase /\ f3.cancelled_ = k.cancelled_
  BY <1>7, ZenonT(60) DEF Calls
<1> HIDE DEF f3
<1>9. f4 \in Calls /\ f4.lro = f3.lro /\ f4.pc = f3.pc /\ f4.op = f3.op
        /\ f4.style = f3.style /\ f4.page = f3.page /\ f4.status = f3.status
        /\ f4.before = f3.before /\ f4.changed = f3.changed
        /\ f4.phase = f3.phase /\ f4.cancelled_ = f3.cancelled_
        /\ f4.outcome = result
  BY <1>2, <1>8 DEF Calls
<1> HIDE DEF f4
<1>10. Idle.lro = "none"
  BY DEF Idle
<1> QED
  BY <1>2, <1>5, <1>6, <1>7, <1>8, <1>9, <1>10

(* What must be so when a call ends with OK.                               *)
Complete(k, o, r) ==
  /\ k.op \in Paged => k.page = Pages
  /\ k.op \in LongRunning => o = "response" \/ (k.style = "async" /\ o = "garbled")
  /\ Consistency(k.op) => r >= k.before

LEMMA FinishedGood ==
  ASSUME NEW k, NEW o, NEW w \in Nat, NEW r \in Nat, NEW s \in Statuses,
         Good(k, o, w, r), k.pc # "idle",
         NotIdempotent(k) /\ k.changed => s \notin {"ALREADY_EXISTS", "NOT_FOUND"},
         s = "OK" => Complete(k, o, r)
  PROVE  Good(Finished(k, s), o, w, r)
<1> DEFINE f == Finished(k, s)
<1>1. /\ k \in Calls /\ o \in Lros
      /\ f \in Calls /\ f.pc = "returned" /\ f.op = k.op /\ f.style = k.style
      /\ f.page = k.page /\ f.status = s /\ f.before = k.before
      /\ f.changed = k.changed /\ f.phase = k.phase /\ f.lro = "none"
      /\ f.outcome = "value" <=> s = "OK"
  BY FinishedFields DEF Good
<1> HIDE DEF f
<1>2. StyleInv(f)
  BY <1>1 DEF Good, StyleInv
<1>3. RefusalInv(f)
  BY <1>1 DEF RefusalInv, NotIdempotent
<1>4. PageInv(f)
  BY <1>1 DEF Good, PageInv, Complete
<1>5. LroInv(f, o)
  BY <1>1 DEF Good, LroInv, Complete, Outcomes
<1>6. TokenInv(f, w, r)
  BY <1>1 DEF Good, TokenInv, Complete
<1> QED
  BY <1>1, <1>2, <1>3, <1>4, <1>5, <1>6 DEF Good, f

(* Steps of a call, one kind after the other.  In each of them m is the    *)
(* call after the step.                                                    *)

(* An attempt that fails, or whose answer is lost.                          *)
LEMMA LostGood ==
  ASSUME NEW k, NEW o, NEW w \in Nat, NEW r \in Nat, Good(k, o, w, r),
         NEW s \in {"UNAVAILABLE", "PERMISSION_DENIED", "CANCELLED"},
         NEW ch \in BOOLEAN,
         k.pc = "ready" \/ (k.pc = "inflight" /\ k.phase = "retry")
  PROVE  Good([k EXCEPT !.pc = "answered", !.status = s, !.changed = ch], o, w, r)
<1> DEFINE m == [k EXCEPT !.pc = "answered", !.status = s, !.changed = ch]
<1>1. m \in Calls
  BY DEF Good, Calls, Statuses
<1>2. /\ m.pc = "answered" /\ m.op = k.op /\ m.style = k.style
      /\ m.page = k.page /\ m.status = s /\ m.lro = k.lro
      /\ m.token = k.token /\ m.before = k.before
      /\ m.consistent = k.consistent /\ m.changed = ch /\ m.phase = k.phase
      /\ m.outcome = k.outcome
  BY DEF Good, Calls
<1> HIDE DEF m
<1>3. StyleInv(m)
  BY <1>2 DEF Good, StyleInv, Calls
<1>4. RefusalInv(m)
  BY <1>2 DEF Good, RefusalInv, NotIdempotent
<1>5. PageInv(m)
  BY <1>2 DEF Good, PageInv, StyleInv, Calls
<1>6. LroInv(m, o)
  BY <1>2 DEF Good, LroInv
<1>7. TokenInv(m, w, r)
  BY <1>2 DEF Good, TokenInv
<1> QED
  BY <1>1, <1>3, <1>4, <1>5, <1>6, <1>7 DEF Good, m

(* The policies allow another attempt of a synchronous call.               *)
LEMMA RepeatedGood ==
  ASSUME NEW k, NEW o, NEW w \in Nat, NEW r \in Nat, Good(k, o, w, r),
         k.pc = "answered", k.style = "sync", k.status # "OK",
         ~NotIdempotent(k), NEW n \in Nat
  PROVE  Good([k EXCEPT !.pc = "ready", !.failures = n], o, w, r)
<1> DEFINE m == [k EXCEPT !.pc = "ready", !.failures = n]
<1>1. m \in Calls
  BY DEF Good, Calls
<1>2. /\ m.pc = "ready" /\ m.op = k.op /\ m.style = k.style
      /\ m.page = k.page /\ m.status = k.status /\ m.lro = k.lro
      /\ m.token = k.token /\ m.before = k.before
      /\ m.consistent = k.consistent /\ m.changed = k.changed
      /\ m.phase = k.phase /\ m.outcome = k.outcome
  BY DEF Good, Calls
<1> HIDE DEF m
<1>3. StyleInv(m)
  BY <1>2 DEF Good, StyleInv
<1>4. RefusalInv(m)
  BY <1>2 DEF Good, RefusalInv, NotIdempotent
<1>5. PageInv(m)
  BY <1>2 DEF Good, PageInv
<1>6. LroInv(m, o)
  BY <1>2 DEF Good, LroInv
<1>7. TokenInv(m, w, r)
  BY <1>2 DEF Good, TokenInv
<1> QED
  BY <1>1, <1>3, <1>4, <1>5, <1>6, <1>7 DEF Good, m

(* The timer of an asynchronous call is set.                               *)
LEMMA WaitingGood ==
  ASSUME NEW k, NEW o, NEW w \in Nat, NEW r \in Nat, Good(k, o, w, r),
         NEW n \in Nat, k.pc \in {"answered", "inflight"}, k.style = "async",
         ~NotIdempotent(k)
  PROVE  Good([k EXCEPT !.pc = "waiting", !.failures = n], o, w, r)
<1> DEFINE m == [k EXCEPT !.pc = "waiting", !.failures = n]
<1>1. m \in Calls
  BY DEF Good, Calls
<1>2. /\ m.pc = "waiting" /\ m.op = k.op /\ m.style = k.style
      /\ m.page = k.page /\ m.status = k.status /\ m.lro = k.lro
      /\ m.token = k.token /\ m.before = k.before
      /\ m.consistent = k.consistent /\ m.changed = k.changed
      /\ m.phase = k.phase /\ m.outcome = k.outcome
  BY DEF Good, Calls
<1> HIDE DEF m
<1>3. StyleInv(m)
  BY <1>2 DEF Good, StyleInv
<1>4. RefusalInv(m)
  BY <1>2 DEF Good, RefusalInv, NotIdempotent
<1>5. PageInv(m)
  BY <1>2 DEF Good, PageInv
<1>6. LroInv(m, o)
  BY <1>2 DEF Good, LroInv
<1>7. TokenInv(m, w, r)
  BY <1>2 DEF Good, TokenInv
<1> QED
  BY <1>1, <1>3, <1>4, <1>5, <1>6, <1>7 DEF Good, m

(* ... between two polls.                                                   *)
LEMMA PollWaitingGood ==
  ASSUME NEW k, NEW o, NEW w \in Nat, NEW r \in Nat, Good(k, o, w, r),
         NEW n \in Nat, k.pc = "inflight", k.phase = "poll" 
  PROVE  Good([k EXCEPT !.pc = "waiting", !.polls = n], o, w, r)
<1> DEFINE m == [k EXCEPT !.pc = "waiting", !.polls = n]
<1>1. m \in Calls
  BY DEF Good, Calls
<1>2. /\ m.pc = "waiting" /\ m.op = k.op /\ m.style = k.style
      /\ m.page = k.page /\ m.status = k.status /\ m.lro = k.lro
      /\ m.token = k.token /\ m.before = k.before
      /\ m.consistent = k.consistent /\ m.changed = k.changed
      /\ m.phase = k.phase /\ m.outcome = k.outcome
  BY DEF Good, Calls
<1> HIDE DEF m
<1>3. StyleInv(m)
  BY <1>2 DEF Good, StyleInv
<1>4. RefusalInv(m)
  BY <1>2 DEF Good, RefusalInv, StyleInv, TwoPhase, LongRunning, NotIdempotent
<1>5. PageInv(m)
  BY <1>2 DEF Good, PageInv
<1>6. LroInv(m, o)
  BY <1>2 DEF Good, LroInv
<1>7. TokenInv(m, w, r)
  BY <1>2 DEF Good, TokenInv
<1> QED
  BY <1>1, <1>3, <1>4, <1>5, <1>6, <1>7 DEF Good, m

(* The timer has expired.                                                  *)
LEMMA ResumedGood ==
  ASSUME NEW k, NEW o, NEW w \in Nat, NEW r \in Nat, Good(k, o, w, r),
         k.pc = "waiting"
  PROVE  Good([k EXCEPT !.pc = "inflight"], o, w, r)
<1> DEFINE m == [k EXCEPT !.pc = "inflight"]
<1>1. m \in Calls
  BY DEF Good, Calls
<1>2. /\ m.pc = "inflight" /\ m.op = k.op /\ m.style = k.style
      /\ m.page = k.page /\ m.status = k.status /\ m.lro = k.lro
      /\ m.token = k.token /\ m.before = k.before
      /\ m.consistent = k.consistent /\ m.changed = k.changed
      /\ m.phase = k.phase /\ m.outcome = k.outcome
  BY DEF Good, Calls
<1> HIDE DEF m
<1>3. StyleInv(m)
  BY <1>2 DEF Good, StyleInv
<1>4. RefusalInv(m)
  BY <1>2 DEF Good, RefusalInv, NotIdempotent
<1>5. PageInv(m)
  BY <1>2 DEF Good, PageInv
<1>6. LroInv(m, o)
  BY <1>2 DEF Good, LroInv
<1>7. TokenInv(m, w, r)
  BY <1>2 DEF Good, TokenInv
<1> QED
  BY <1>1, <1>3, <1>4, <1>5, <1>6, <1>7 DEF Good, m

(* The callback of a loop is called.                                       *)
LEMMA CallbackGood ==
  ASSUME NEW k, NEW o, NEW w \in Nat, NEW r \in Nat, Good(k, o, w, r),
         NEW s \in Statuses, k.style = "async", k.pc \in {"answered", "inflight", "waiting"},
         k.phase = "retry" => \/ k.pc = "answered" /\ s = k.status
                             \/ s = "CANCELLED",
         k.phase = "poll" /\ s = "OK" =>
           /\ k.op \in LongRunning => o \in {"response", "garbled"}
           /\ k.op = "AwaitConsistency" => r >= k.token
  PROVE  Good([k EXCEPT !.pc = "callback", !.status = s], o, w, r)
<1> DEFINE m == [k EXCEPT !.pc = "callback", !.status = s]
<1>1. m \in Calls
  BY DEF Good, Calls
<1>2. /\ m.pc = "callback" /\ m.op = k.op /\ m.style = k.style
      /\ m.page = k.page /\ m.status = s /\ m.lro = k.lro
      /\ m.token = k.token /\ m.before = k.before
      /\ m.consistent = k.consistent /\ m.changed = k.changed
      /\ m.phase = k.phase /\ m.outcome = k.outcome
  BY DEF Good, Calls
<1> HIDE DEF m
<1>3. StyleInv(m)
  BY <1>2 DEF Good, StyleInv
<1>4. RefusalInv(m)
  BY <1>2 DEF Good, RefusalInv, StyleInv, TwoPhase, LongRunning, Calls, NotIdempotent
<1>5. PageInv(m)
  BY <1>2 DEF Good, PageInv
<1>6. LroInv(m, o)
  BY <1>2 DEF Good, LroInv
<1>7. TokenInv(m, w, r)
  BY <1>2 DEF Good, TokenInv, Calls
<1> QED
  BY <1>1, <1>3, <1>4, <1>5, <1>6, <1>7 DEF Good, m

(* The handle is assigned.                                                 *)
LEMMA AssignedGood ==
  ASSUME NEW k, NEW o, NEW w \in Nat, NEW r \in Nat, Good(k, o, w, r),
         NEW a \in {"none", "retry", "poll"}, NEW b \in {"none", "retry", "poll"}
  PROVE  Good([k EXCEPT !.current_op_ = a, !.assigning = b], o, w, r)
<1> DEFINE m == [k EXCEPT !.current_op_ = a, !.assigning = b]
<1>1. m \in Calls
  BY DEF Good, Calls
<1>2. /\ m.pc = k.pc /\ m.op = k.op /\ m.style = k.style /\ m.page = k.page
      /\ m.status = k.status /\ m.lro = k.lro /\ m.token = k.token
      /\ m.before = k.before /\ m.consistent = k.consistent
      /\ m.changed = k.changed /\ m.phase = k.phase /\ m.outcome = k.outcome
  BY DEF Good, Calls
<1> HIDE DEF m
<1>3. StyleInv(m)
  BY <1>2 DEF Good, StyleInv
<1>4. RefusalInv(m)
  BY <1>2 DEF Good, RefusalInv, NotIdempotent
<1>5. PageInv(m)
  BY <1>2 DEF Good, PageInv
<1>6. LroInv(m, o)
  BY <1>2 DEF Good, LroInv
<1>7. TokenInv(m, w, r)
  BY <1>2 DEF Good, TokenInv
<1> QED
  BY <1>1, <1>3, <1>4, <1>5, <1>6, <1>7 DEF Good, m

(* Cancel().                                                               *)
LEMMA CancelledGood ==
  ASSUME NEW k, NEW o, NEW w \in Nat, NEW r \in Nat, Good(k, o, w, r),
         NEW b \in BOOLEAN
  PROVE  Good([k EXCEPT !.cancelled_ = TRUE, !.loopCancelled = b], o, w, r)
<1> DEFINE m == [k EXCEPT !.cancelled_ = TRUE, !.loopCancelled = b]
<1>1. m \in Calls
  BY DEF Good, Calls
<1>2. /\ m.pc = k.pc /\ m.op = k.op /\ m.style = k.style /\ m.page = k.page
      /\ m.status = k.status /\ m.lro = k.lro /\ m.token = k.token
      /\ m.before = k.before /\ m.consistent = k.consistent
      /\ m.changed = k.changed /\ m.phase = k.phase /\ m.outcome = k.outcome
  BY DEF Good, Calls
<1> HIDE DEF m
<1>3. StyleInv(m)
  BY <1>2 DEF Good, StyleInv
<1>4. RefusalInv(m)
  BY <1>2 DEF Good, RefusalInv, NotIdempotent
<1>5. PageInv(m)
  BY <1>2 DEF Good, PageInv
<1>6. LroInv(m, o)
  BY <1>2 DEF Good, LroInv
<1>7. TokenInv(m, w, r)
  BY <1>2 DEF Good, TokenInv
<1> QED
  BY <1>1, <1>3, <1>4, <1>5, <1>6, <1>7 DEF Good, m

(* A poll tells how the long-running operation is.                          *)
LEMMA NewsGood ==
  ASSUME NEW k, NEW o, NEW w \in Nat, NEW r \in Nat, Good(k, o, w, r),
         k.lro # "none", k.lro \notin Outcomes
  PROVE  Good([k EXCEPT !.lro = o], o, w, r)
<1> DEFINE m == [k EXCEPT !.lro = o]
<1>1. m \in Calls
  BY DEF Good, Calls
<1>2. /\ m.pc = k.pc /\ m.op = k.op /\ m.style = k.style /\ m.page = k.page
      /\ m.status = k.status /\ m.lro = o /\ m.token = k.token
      /\ m.before = k.before /\ m.consistent = k.consistent
      /\ m.changed = k.changed /\ m.phase = k.phase /\ m.outcome = k.outcome
  BY DEF Good, Calls
<1> HIDE DEF m
<1>3. StyleInv(m)
  BY <1>2 DEF Good, StyleInv
<1>4. RefusalInv(m)
  BY <1>2 DEF Good, RefusalInv, NotIdempotent
<1>5. PageInv(m)
  BY <1>2 DEF Good, PageInv
<1>6. LroInv(m, o)
  BY <1>2 DEF Good, LroInv, Outcomes, Lros, Calls
<1>7. TokenInv(m, w, r)
  BY <1>2 DEF Good, TokenInv
<1> QED
  BY <1>1, <1>3, <1>4, <1>5, <1>6, <1>7 DEF Good, m

(* A policy counts a failure,                                              *)
LEMMA CountedGood ==
  ASSUME NEW k, NEW o, NEW w \in Nat, NEW r \in Nat, Good(k, o, w, r),
         NEW n \in Nat
  PROVE  Good([k EXCEPT !.failures = n], o, w, r)
<1> DEFINE m == [k EXCEPT !.failures = n]
<1>1. m \in Calls
  BY DEF Good, Calls
<1>2. /\ m.pc = k.pc /\ m.op = k.op /\ m.style = k.style /\ m.page = k.page
      /\ m.status = k.status /\ m.lro = k.lro /\ m.token = k.token
      /\ m.before = k.before /\ m.consistent = k.consistent
      /\ m.changed = k.changed /\ m.phase = k.phase /\ m.outcome = k.outcome
  BY DEF Good, Calls
<1> HIDE DEF m
<1>3. StyleInv(m)
  BY <1>2 DEF Good, StyleInv
<1>4. RefusalInv(m)
  BY <1>2 DEF Good, RefusalInv, NotIdempotent
<1>5. PageInv(m)
  BY <1>2 DEF Good, PageInv
<1>6. LroInv(m, o)
  BY <1>2 DEF Good, LroInv
<1>7. TokenInv(m, w, r)
  BY <1>2 DEF Good, TokenInv
<1> QED
  BY <1>1, <1>3, <1>4, <1>5, <1>6, <1>7 DEF Good, m

(* ... or a poll.                                                          *)
LEMMA PolledGood ==
  ASSUME NEW k, NEW o, NEW w \in Nat, NEW r \in Nat, Good(k, o, w, r),
         NEW n \in Nat
  PROVE  Good([k EXCEPT !.polls = n], o, w, r)
<1> DEFINE m == [k EXCEPT !.polls = n]
<1>1. m \in Calls
  BY DEF Good, Calls
<1>2. /\ m.pc = k.pc /\ m.op = k.op /\ m.style = k.style /\ m.page = k.page
      /\ m.status = k.status /\ m.lro = k.lro /\ m.token = k.token
      /\ m.before = k.before /\ m.consistent = k.consistent
      /\ m.changed = k.changed /\ m.phase = k.phase /\ m.outcome = k.outcome
  BY DEF Good, Calls
<1> HIDE DEF m
<1>3. StyleInv(m)
  BY <1>2 DEF Good, StyleInv
<1>4. RefusalInv(m)
  BY <1>2 DEF Good, RefusalInv, NotIdempotent
<1>5. PageInv(m)
  BY <1>2 DEF Good, PageInv
<1>6. LroInv(m, o)
  BY <1>2 DEF Good, LroInv
<1>7. TokenInv(m, w, r)
  BY <1>2 DEF Good, TokenInv
<1> QED
  BY <1>1, <1>3, <1>4, <1>5, <1>6, <1>7 DEF Good, m

(* The synchronous polling of a long-running operation begins.             *)
LEMMA StartPollingGood ==
  ASSUME NEW k, NEW o, NEW w \in Nat, NEW r \in Nat, Good(k, o, w, r),
         k.pc = "answered", k.style = "sync", k.status = "OK", k.op \in LongRunning
  PROVE  Good([k EXCEPT !.pc = "polling"], o, w, r)
<1> DEFINE m == [k EXCEPT !.pc = "polling"]
<1>1. m \in Calls
  BY DEF Good, Calls
<1>2. /\ m.pc = "polling" /\ m.op = k.op /\ m.style = k.style
      /\ m.page = k.page /\ m.status = k.status /\ m.lro = k.lro
      /\ m.token = k.token /\ m.before = k.before
      /\ m.consistent = k.consistent /\ m.changed = k.changed
      /\ m.phase = k.phase /\ m.outcome = k.outcome
  BY DEF Good, Calls
<1> HIDE DEF m
<1>3. StyleInv(m)
  BY <1>2 DEF Good, StyleInv
<1>4. RefusalInv(m)
  BY <1>2 DEF Good, RefusalInv, NotIdempotent
<1>5. PageInv(m)
  BY <1>2 DEF Good, PageInv
<1>6. LroInv(m, o)
  BY <1>2 DEF Good, LroInv, StyleInv
<1>7. TokenInv(m, w, r)
  BY <1>2 DEF Good, TokenInv
<1> QED
  BY <1>1, <1>3, <1>4, <1>5, <1>6, <1>7 DEF Good, m

(* MakeCall() returns to WaitForConsistencyCheckHelper().                   *)
LEMMA CheckedGood ==
  ASSUME NEW k, NEW o, NEW w \in Nat, NEW r \in Nat, Good(k, o, w, r),
         k.pc = "answered", k.op = "WaitForConsistencyCheck", k.style = "sync"
  PROVE  Good([k EXCEPT !.pc = "checked"], o, w, r)
<1> DEFINE m == [k EXCEPT !.pc = "checked"]
<1>1. m \in Calls
  BY DEF Good, Calls
<1>2. /\ m.pc = "checked" /\ m.op = k.op /\ m.style = k.style
      /\ m.page = k.page /\ m.status = k.status /\ m.lro = k.lro
      /\ m.token = k.token /\ m.before = k.before
      /\ m.consistent = k.consistent /\ m.changed = k.changed
      /\ m.phase = k.phase /\ m.outcome = k.outcome
  BY DEF Good, Calls
<1> HIDE DEF m
<1>3. StyleInv(m)
  BY <1>2 DEF Good, StyleInv
<1>4. RefusalInv(m)
  BY <1>2 DEF Good, RefusalInv, NotIdempotent
<1>5. PageInv(m)
  BY <1>2 DEF Good, PageInv
<1>6. LroInv(m, o)
  BY <1>2 DEF Good, LroInv
<1>7. TokenInv(m, w, r)
  BY <1>2 DEF Good, TokenInv
<1> QED
  BY <1>1, <1>3, <1>4, <1>5, <1>6, <1>7 DEF Good, m

(* The next page is asked for.                                             *)
LEMMA NextPageGood ==
  ASSUME NEW k, NEW o, NEW w \in Nat, NEW r \in Nat, Good(k, o, w, r),
         k.pc = "answered", k.style = "sync", k.status = "OK", k.op \in Paged, k.page < Pages
  PROVE  Good([k EXCEPT !.pc = "ready"], o, w, r)
<1> DEFINE m == [k EXCEPT !.pc = "ready"]
<1>1. m \in Calls
  BY DEF Good, Calls
<1>2. /\ m.pc = "ready" /\ m.op = k.op /\ m.style = k.style
      /\ m.page = k.page /\ m.status = k.status /\ m.lro = k.lro
      /\ m.token = k.token /\ m.before = k.before
      /\ m.consistent = k.consistent /\ m.changed = k.changed
      /\ m.phase = k.phase /\ m.outcome = k.outcome
  BY DEF Good, Calls
<1> HIDE DEF m
<1>3. StyleInv(m)
  BY <1>2 DEF Good, StyleInv
<1>4. RefusalInv(m)
  BY <1>2 DEF Good, RefusalInv, Paged, NotIdempotent
<1>5. PageInv(m)
  BY <1>2 DEF Good, PageInv
<1>6. LroInv(m, o)
  BY <1>2 DEF Good, LroInv
<1>7. TokenInv(m, w, r)
  BY <1>2 DEF Good, TokenInv
<1> QED
  BY <1>1, <1>3, <1>4, <1>5, <1>6, <1>7 DEF Good, m

(* WaitForConsistencyCheckHelper() looks again.                            *)
LEMMA LookAgainGood ==
  ASSUME NEW k, NEW o, NEW w \in Nat, NEW r \in Nat, Good(k, o, w, r),
         k.pc = "checked", NEW n \in Nat
  PROVE  Good([k EXCEPT !.pc = "ready", !.polls = n, !.failures = 0], o, w, r)
<1> DEFINE m == [k EXCEPT !.pc = "ready", !.polls = n, !.failures = 0]
<1>1. m \in Calls
  BY DEF Good, Calls
<1>2. /\ m.pc = "ready" /\ m.op = k.op /\ m.style = k.style
      /\ m.page = k.page /\ m.status = k.status /\ m.lro = k.lro
      /\ m.token = k.token /\ m.before = k.before
      /\ m.consistent = k.consistent /\ m.changed = k.changed
      /\ m.phase = k.phase /\ m.outcome = k.outcome
  BY DEF Good, Calls
<1> HIDE DEF m
<1>3. StyleInv(m)
  BY <1>2 DEF Good, StyleInv
<1>4. RefusalInv(m)
  BY <1>2 DEF Good, RefusalInv, StyleInv, NotIdempotent
<1>5. PageInv(m)
  BY <1>2 DEF Good, PageInv, Paged, StyleInv
<1>6. LroInv(m, o)
  BY <1>2 DEF Good, LroInv
<1>7. TokenInv(m, w, r)
  BY <1>2 DEF Good, TokenInv
<1> QED
  BY <1>1, <1>3, <1>4, <1>5, <1>6, <1>7 DEF Good, m

(* OnLongrunningStarted() starts the polling.                              *)
LEMMA SecondPhaseGood ==
  ASSUME NEW k, NEW o, NEW w \in Nat, NEW r \in Nat, Good(k, o, w, r),
         k.pc = "callback", k.op \in TwoPhase, k.phase = "retry", k.status = "OK"
  PROVE  Good([k EXCEPT !.pc = "inflight", !.phase = "poll", !.assigning = "poll", !.loopCancelled = FALSE], o, w, r)
<1> DEFINE m == [k EXCEPT !.pc = "inflight", !.phase = "poll", !.assigning = "poll", !.loopCancelled = FALSE]
<1>1. m \in Calls
  BY DEF Good, Calls
<1>2. /\ m.pc = "inflight" /\ m.op = k.op /\ m.style = k.style
      /\ m.page = k.page /\ m.status = k.status /\ m.lro = k.lro
      /\ m.token = k.token /\ m.before = k.before
      /\ m.consistent = k.consistent /\ m.changed = k.changed
      /\ m.phase = "poll" /\ m.outcome = k.outcome
  BY DEF Good, Calls
<1> HIDE DEF m
<1>3. StyleInv(m)
  BY <1>2 DEF Good, StyleInv
<1>4. RefusalInv(m)
  BY <1>2 DEF Good, RefusalInv, TwoPhase, LongRunning, NotIdempotent
<1>5. PageInv(m)
  BY <1>2 DEF Good, PageInv
<1>6. LroInv(m, o)
  BY <1>2 DEF Good, LroInv
<1>7. TokenInv(m, w, r)
  BY <1>2 DEF Good, TokenInv
<1> QED
  BY <1>1, <1>3, <1>4, <1>5, <1>6, <1>7 DEF Good, m

(* The service answers a call k with a code, and o is the long-running     *)
(* operation then; the other values are those of the fields of the call.   *)
Served(k, w, r, code, o, page, token, cons, ch) ==
  /\ code \in Codes /\ o \in Lros /\ page \in Nat /\ token \in Nat
  /\ cons \in BOOLEAN /\ ch \in BOOLEAN
  /\ k.pc = "ready" \/ (k.pc = "inflight" /\ k.phase = "retry")
  /\ k.op \in LongRunning /\ code = "OK" => o # "none"
  /\ k.op \notin LongRunning => o = "none"
  /\ page = IF code = "OK" /\ k.op \in Paged THEN k.page + 1 ELSE k.page
  /\ k.op = "AwaitConsistency" /\ code = "OK" => token = w
  /\ k.op = "WaitForConsistencyCheck" => token = k.token /\ (cons => r >= k.token)
  /\ NotIdempotent(k) /\ ch => code = "OK"

LEMMA ServedGood ==
  ASSUME NEW k, NEW o, NEW w \in Nat, NEW r \in Nat, Good(k, o, w, r),
         NEW code, NEW o2, NEW page, NEW token, NEW cons, NEW ch,
         Served(k, w, r, code, o2, page, token, cons, ch)
  PROVE  Good([k EXCEPT !.pc = "answered", !.status = code, !.lro = o2,
                 !.page = page, !.token = token, !.consistent = cons,
                 !.changed = ch], o2, w, r)
<1> USE DEF Served
<1> DEFINE m1 == [k EXCEPT !.pc = "answered", !.status = code, !.lro = o2]
           m == [m1 EXCEPT !.page = page, !.token = token, !.consistent = cons,
                   !.changed = ch]
<1>1. m = [k EXCEPT !.pc = "answered", !.status = code, !.lro = o2,
             !.page = page, !.token = token, !.consistent = cons, !.changed = ch]
  BY DEF Good, Calls
<1>2. m1 \in Calls
  BY DEF Good, Calls, Statuses
<1>3. /\ m1.pc = "answered" /\ m1.op = k.op /\ m1.style = k.style
      /\ m1.status = code /\ m1.lro = o2 /\ m1.before = k.before
      /\ m1.phase = k.phase /\ m1.outcome = k.outcome
  BY DEF Good, Calls
<1> HIDE DEF m1
<1>4. m \in Calls
  BY <1>2, ZenonT(60) DEF Calls
<1>5. /\ m.pc = "answered" /\ m.op = k.op /\ m.style = k.style /\ m.page = page
      /\ m.status = code /\ m.lro = o2 /\ m.token = token
      /\ m.before = k.before /\ m.consistent = cons /\ m.changed = ch
      /\ m.phase = k.phase /\ m.outcome = k.outcome
  BY <1>2, <1>3 DEF Calls
<1> HIDE DEF m
<1>6. StyleInv(m)
  BY <1>5 DEF Good, StyleInv, Calls
<1>7. RefusalInv(m)
  BY <1>5 DEF RefusalInv, NotIdempotent
<1>8. PageInv(m)
  <2>1. k.page \in Nat /\ Pages \in Nat
    BY AdminAssumption DEF Good, Calls
  <2>2. k.op \in Paged => k.page < Pages /\ k.outcome # "value"
    BY DEF Good, PageInv, StyleInv, Calls
  <2> QED
    BY <1>5, <2>1, <2>2 DEF PageInv
<1>9. LroInv(m, o2)
  <2>1. k.phase = "retry" /\ k.outcome # "value"
    BY DEF Good, Calls, StyleInv
  <2> QED
    BY <1>5, <2>1 DEF LroInv, Lros, Outcomes
<1>10. TokenInv(m, w, r)
  <2>1. k.before \in Nat /\ k.outcome # "value"
    BY DEF Good, Calls, StyleInv
  <2>2. k.phase = "retry"
    BY DEF Good, Calls, StyleInv
  <2> QED
    BY <1>5, <2>1, <2>2 DEF Good, TokenInv, Consistency
<1> QED
  BY <1>1, <1>4, <1>6, <1>7, <1>8, <1>9, <1>10 DEF Good

(* A call begins.                                                          *)
LEMMA StartedSyncGood ==
  ASSUME NEW w \in Nat, NEW r \in Nat, NEW n \in Nat,
         NEW op \in DOMAIN Sync, Consistency(op) => n = w
  PROVE  Good([Idle EXCEPT !.pc = "ready", !.op = op, !.token = n, !.before = n], "none", w, r)
<1> DEFINE m == [Idle EXCEPT !.pc = "ready", !.op = op, !.token = n, !.before = n]
<1>1. m \in Calls
  BY DEF Idle, Calls, Statuses, Codes, Lros
<1>2. /\ m.pc = "ready" /\ m.op = op /\ m.style = "sync" /\ m.page = 0
      /\ m.status = "OK" /\ m.lro = "none" /\ m.token = n /\ m.before = n
      /\ m.consistent = FALSE /\ m.changed = FALSE /\ m.phase = "retry"
      /\ m.outcome = "none"
  BY DEF Idle
<1> HIDE DEF m
<1>3. StyleInv(m)
  BY <1>2 DEF StyleInv
<1>4. RefusalInv(m)
  BY <1>2 DEF RefusalInv
<1>5. PageInv(m)
  BY <1>2, AdminAssumption DEF PageInv
<1>6. LroInv(m, "none")
  BY <1>2 DEF LroInv, Outcomes
<1>7. TokenInv(m, w, r)
  BY <1>2, WaitingStyles DEF TokenInv, Consistency
<1> QED
  BY <1>1, <1>3, <1>4, <1>5, <1>6, <1>7 DEF Good, m, Lros

LEMMA StartedAsyncGood ==
  ASSUME NEW w \in Nat, NEW r \in Nat, NEW n \in Nat,
         NEW op \in DOMAIN Async \ Paged, Consistency(op) => n = w,
         NEW a \in {"none", "retry"}, NEW b \in {"none", "retry"}
  PROVE  Good([Idle EXCEPT !.pc = "inflight", !.op = op, !.style = "async",
                 !.before = n, !.assigning = a, !.current_op_ = b], "none", w, r)
<1> DEFINE m == [Idle EXCEPT !.pc = "inflight", !.op = op, !.style = "async",
                   !.before = n, !.assigning = a, !.current_op_ = b]
<1>1. m \in Calls
  BY DEF Idle, Calls, Statuses, Codes, Lros
<1>2. /\ m.pc = "inflight" /\ m.op = op /\ m.style = "async" /\ m.page = 0
      /\ m.status = "OK" /\ m.lro = "none" /\ m.before = n
      /\ m.consistent = FALSE /\ m.changed = FALSE /\ m.phase = "retry"
      /\ m.outcome = "none"
  BY DEF Idle
<1> HIDE DEF m
<1>3. StyleInv(m)
  BY <1>2 DEF StyleInv
<1>4. RefusalInv(m)
  BY <1>2 DEF RefusalInv
<1>5. PageInv(m)
  BY <1>2 DEF PageInv
<1>6. LroInv(m, "none")
  BY <1>2 DEF LroInv, Outcomes
<1>7. TokenInv(m, w, r)
  BY <1>2, WaitingStyles DEF TokenInv, Consistency
<1> QED
  BY <1>1, <1>3, <1>4, <1>5, <1>6, <1>7 DEF Good, m, Lros

(* Before it begins, a call is idle.                                       *)
LEMMA IdleGood ==
  ASSUME NEW w \in Nat, NEW r \in Nat
  PROVE  Good(Idle, "none", w, r)
<1>1. Idle \in Calls
  BY DEF Idle, Calls, Statuses, Codes, Lros
<1>2. /\ Idle.pc = "idle" /\ Idle.op = "none" /\ Idle.style = "sync"
      /\ Idle.lro = "none" /\ Idle.changed = FALSE /\ Idle.phase = "retry" /\ Idle.outcome = "none"
  BY DEF Idle
<1> QED
  BY <1>1, <1>2 DEF Good, StyleInv, RefusalInv, NotIdempotent, PageInv, LroInv,
       TokenInv, Paged, LongRunning, Consistency, Lros

-----------------------------------------------------------------------------
(* The invariant holds.                                                    *)

LEMMA InvInit == Init => Inv
<1> SUFFICES ASSUME Init PROVE Inv
  OBVIOUS
<1>1. written \in Nat /\ replicated \in Nat /\ "none" \in Lros
  BY DEF Init, Lros
<1>2. \A c \in Callers : call[c] = Idle /\ lro[c] = "none"
  BY DEF Init
<1>3. Idle \in Calls
  BY <1>1, IdleGood DEF Good
<1>4. call \in [Callers -> Calls] /\ lro \in [Callers -> Lros]
  BY <1>1, <1>3 DEF Init
<1> QED
  BY <1>1, <1>2, <1>4, IdleGood DEF Inv

(* How a call that must not be repeated is made.                           *)
LEMMA NeverRepeated ==
  ASSUME NEW k, NotIdempotent(k)
  PROVE  /\ Sync[k.op] = "once" /\ (k.style # "sync" => Async[k.op] = FALSE)
         /\ k.op \notin TwoPhase
  BY MadeOnce, NotRepeated DEF NotIdempotent, TwoPhase, LongRunning

LEMMA StartKeepsInv ==
  ASSUME Inv, NEW c \in Callers, StartSync(c) \/ StartAsync(c)
  PROVE  Inv'
<1> USE DEF Inv
<1>1. ASSUME NEW op
      PROVE  WrittenFor(op) \in Nat /\ (Consistency(op) => WrittenFor(op) = written)
  BY DEF WrittenFor
<1>4. lro[c] = "none"
  BY DEF StartSync, StartAsync, Good, StyleInv, LroInv, LongRunning
<1>2. CASE StartSync(c)
  <2>1. PICK ask \in Asked[c] :
          /\ ask[2] = "sync"
          /\ Set(c, [Idle EXCEPT !.pc = "ready", !.op = ask[1],
                       !.token = WrittenFor(ask[1]), !.before = WrittenFor(ask[1])])
    BY <1>2 DEF StartSync
  <2>2. ask[1] \in DOMAIN Sync
    BY <1>2, <2>1, AdminAssumption
  <2>3. Good([Idle EXCEPT !.pc = "ready", !.op = ask[1],
                !.token = WrittenFor(ask[1]), !.before = WrittenFor(ask[1])],
             lro[c], written, replicated)
    BY <1>1, <1>4, <2>2, StartedSyncGood, ZenonT(60)
  <2> QED
    BY <1>2, <2>1, <2>3, OneCallOnly DEF StartSync
<1>3. CASE StartAsync(c)
  <2>1. PICK ask \in Asked[c] :
          /\ ask[2] = "async" /\ ask[1] \notin Paged
          /\ Set(c, [Idle EXCEPT !.pc = "inflight", !.op = ask[1],
                       !.style = "async", !.before = WrittenFor(ask[1]),
                       !.assigning = IF ask[1] \in TwoPhase THEN "retry" ELSE "none",
                       !.current_op_ = IF ask[1] \in TwoPhase THEN "none" ELSE "retry"])
    BY <1>3 DEF StartAsync
  <2>2. ask[1] \in DOMAIN Async \ Paged
    BY <2>1, AdminAssumption
  <2> DEFINE a == IF ask[1] \in TwoPhase THEN "retry" ELSE "none"
             b == IF ask[1] \in TwoPhase THEN "none" ELSE "retry"
  <2>3. a \in {"none", "retry"} /\ b \in {"none", "retry"}
    OBVIOUS
  <2>4. Good([Idle EXCEPT !.pc = "inflight", !.op = ask[1],
                !.style = "async", !.before = WrittenFor(ask[1]),
                !.assigning = a, !.current_op_ = b], "none", written, replicated)
    <3> HIDE DEF a, b
    <3>1. written \in Nat /\ replicated \in Nat /\ WrittenFor(ask[1]) \in Nat
            /\ (Consistency(ask[1]) => WrittenFor(ask[1]) = written)
      BY <1>1
    <3> HIDE DEF Inv
    <3> QED
      BY <3>1, <2>2, <2>3, StartedAsyncGood
  <2> QED
    BY <1>3, <1>4, <2>1, <2>4, OneCallOnly DEF StartAsync
<1> QED
  BY <1>2, <1>3

LEMMA AttemptKeepsInv ==
  ASSUME Inv, NEW c \in Callers, Lose(c) \/ ServeAndLose(c) \/ Serve(c)
  PROVE  Inv'
<1> DEFINE k == call[c]
           ch == k.changed \/ at' # at
<1>1. /\ Good(k, lro[c], written, replicated) /\ written \in Nat
      /\ replicated \in Nat /\ k \in Calls
  BY DEF Inv
<1>2. ch \in BOOLEAN
  OBVIOUS
<1>3. k.pc = "ready" \/ (k.pc = "inflight" /\ k.phase = "retry")
  BY DEF Lose, ServeAndLose, Serve, Attempting
<1>4. CASE Lose(c) \/ ServeAndLose(c)
  <2>1. PICK s \in {"UNAVAILABLE", "PERMISSION_DENIED", "CANCELLED"} :
          Set(c, [k EXCEPT !.pc = "answered", !.status = s, !.changed = ch])
    BY <1>4 DEF Lose, ServeAndLose, Answered, Cancelling
  <2> HIDE DEF k, ch
  <2>2. Good([k EXCEPT !.pc = "answered", !.status = s, !.changed = ch],
             lro[c], written, replicated)
    BY <1>1, <1>2, <1>3, LostGood
  <2> QED
    BY <1>4, <2>1, <2>2, OneCallOnly DEF Lose, ServeAndLose
<1>5. CASE Serve(c)
  <2> DEFINE h == Handled(c)
             good == h.code = "OK"
             page == IF good /\ k.op \in Paged THEN k.page + 1 ELSE k.page
             token == IF good /\ k.op = "AwaitConsistency" THEN written ELSE k.token
             cons == good /\ Consistency(k.op) /\ replicated >= k.token
  <2>1. h.code \in Codes /\ (h.code # "OK" => at' = at)
    <3>1. Rpc(k.op, k.style) \in InstanceService \cup TableService
      BY <1>1, <1>3, KnownRpc DEF Good, StyleInv, Calls
    <3> QED
      BY <1>5, <3>1, Answers DEF Serve, Handled, Answer
  <2>2. PICK o \in Lros :
          /\ good /\ k.op \in LongRunning => o # "none"
          /\ k.op \notin LongRunning => o = "none"
          /\ lro' = [lro EXCEPT ![c] = o]
          /\ Set(c, [k EXCEPT !.pc = "answered", !.status = h.code, !.lro = o,
                       !.page = page, !.token = token, !.consistent = cons,
                       !.changed = ch])
    BY <1>5 DEF Serve, Lros, Outcomes
  <2>3. page \in Nat /\ token \in Nat /\ cons \in BOOLEAN
    BY <1>1 DEF Calls
  <2>4. k.op = "WaitForConsistencyCheck" => token = k.token /\ (cons => replicated >= k.token)
    OBVIOUS
  <2>5. NotIdempotent(k) /\ ch => h.code = "OK"
    BY <1>1, <1>3, <2>1 DEF Good, RefusalInv
  <2>6. k.op = "AwaitConsistency" /\ h.code = "OK" => token = written
    OBVIOUS
  <2>7. page = IF h.code = "OK" /\ k.op \in Paged THEN k.page + 1 ELSE k.page
    OBVIOUS
  <2>9. Served(k, written, replicated, h.code, o, page, token, cons, ch)
    <3> HIDE DEF k, h, ch, page, token, cons
    <3> QED
      BY <1>2, <1>3, <2>1, <2>2, <2>3, <2>4, <2>5, <2>6, <2>7 DEF Served
  <2> HIDE DEF k, h, ch, page, token, cons
  <2>8. Good([k EXCEPT !.pc = "answered", !.status = h.code, !.lro = o,
                !.page = page, !.token = token, !.consistent = cons,
                !.changed = ch], o, written, replicated)
    BY <1>1, <2>9, ServedGood
  <2> QED
    BY <1>5, <2>2, <2>8, OneCall DEF Serve, Set
<1> QED
  BY <1>4, <1>5

(* After an attempt of a synchronous call.                                 *)
LEMMA SyncAnsweredKeepsInv ==
  ASSUME Inv, NEW c \in Callers, SyncAnswered(c)
  PROVE  Inv'
<1> DEFINE k == call[c]
           m == IF k.status = "OK" THEN Proceed(k)
                ELSE IF Sync[k.op] = "retry" /\ OnFailure(k.failures, MaxFailures, k.status)
                THEN [k EXCEPT !.pc = "ready", !.failures = k.failures + 1]
                ELSE Fail(k)
<1>1. /\ Good(k, lro[c], written, replicated) /\ written \in Nat
      /\ replicated \in Nat /\ k \in Calls /\ k.status \in Statuses
      /\ k.pc = "answered" /\ k.style = "sync"
  BY DEF Inv, SyncAnswered, Calls
<1>2. Set(c, m) /\ UNCHANGED <<lro, written, replicated>>
  BY DEF SyncAnswered
<1> HIDE DEF k
<1>3. Good(m, lro[c], written, replicated)
  <2>1. CASE k.status = "OK"
    <3>1. CASE k.op \in Paged /\ k.page < Pages
      BY <1>1, <2>1, <3>1, NextPageGood DEF Proceed, Paged, LongRunning
    <3>2. CASE k.op \in LongRunning
      BY <1>1, <2>1, <3>2, StartPollingGood DEF Proceed, Paged, LongRunning
    <3>3. CASE k.op = "WaitForConsistencyCheck"
      BY <1>1, <2>1, <3>3, CheckedGood DEF Proceed, Paged, LongRunning
    <3>4. CASE /\ ~(k.op \in Paged /\ k.page < Pages)
               /\ k.op \notin LongRunning /\ k.op # "WaitForConsistencyCheck"
      <4>1. k.page \in Nat /\ Pages \in Nat
        BY <1>1, AdminAssumption DEF Calls
      <4>2. k.op \in Paged => k.page = Pages
        BY <1>1, <3>4, <4>1 DEF Good, PageInv
      <4>3. k.op # "AwaitConsistency"
        BY <1>1, WaitingStyles DEF Good, StyleInv
      <4>4. Complete(k, lro[c], replicated)
        BY <3>4, <4>2, <4>3 DEF Complete, Consistency
      <4>5. Good(Finished(k, "OK"), lro[c], written, replicated)
        BY <1>1, <2>1, <4>4, FinishedGood
      <4> QED
        BY <2>1, <3>4, <4>5 DEF Proceed
    <3> QED
      BY <3>1, <3>2, <3>3, <3>4
  <2>2. CASE /\ k.status # "OK" /\ Sync[k.op] = "retry"
             /\ OnFailure(k.failures, MaxFailures, k.status)
    <3>1. ~NotIdempotent(k)
      BY <2>2, NeverRepeated
    <3>2. k.failures + 1 \in Nat
      BY <1>1 DEF Calls
    <3> QED
      BY <1>1, <2>2, <3>1, <3>2, RepeatedGood
  <2>3. CASE /\ k.status # "OK"
             /\ ~(Sync[k.op] = "retry" /\ OnFailure(k.failures, MaxFailures, k.status))
    <3>1. CASE k.op = "WaitForConsistencyCheck"
      BY <1>1, <2>3, <3>1, CheckedGood DEF Fail
    <3>2. CASE k.op # "WaitForConsistencyCheck"
      <4>1. NotIdempotent(k) /\ k.changed => k.status \notin {"ALREADY_EXISTS", "NOT_FOUND"}
        BY <1>1 DEF Good, RefusalInv
      <4>2. Good(Finished(k, k.status), lro[c], written, replicated)
        BY <1>1, <2>3, <4>1, FinishedGood
      <4> QED
        BY <2>3, <3>2, <4>2 DEF Fail
    <3> QED
      BY <3>1, <3>2
  <2> QED
    BY <2>1, <2>2, <2>3
<1> QED
  BY <1>2, <1>3, OneCallOnly

(* PollLongRunningOperation().                                             *)
LEMMA PollSyncKeepsInv ==
  ASSUME Inv, NEW c \in Callers, PollSync(c)
  PROVE  Inv'
<1> DEFINE k == call[c]
<1>1. /\ Good(k, lro[c], written, replicated) /\ written \in Nat
      /\ replicated \in Nat /\ k \in Calls /\ k.pc = "polling"
      /\ k.op \in LongRunning /\ k.lro # "none" /\ lro[c] \in Lros
  BY DEF Inv, PollSync, Good, StyleInv, LroInv
<1>2. ~NotIdempotent(k)
  BY <1>1 DEF NotIdempotent, LongRunning
<1>3. ASSUME NEW s \in Statuses \ {"OK"}
      PROVE  Good(Finished(k, s), lro[c], written, replicated)
  BY <1>1, <1>2, <1>3, FinishedGood
<1>4. CASE k.lro # "running" /\ Set(c, Finished(k, Result(k.lro)))
  <2>1. k.lro \in Outcomes /\ lro[c] = k.lro
    BY <1>1, <1>4 DEF Good, LroInv, Calls, Lros
  <2>2. Result(k.lro) \in Statuses /\ (Result(k.lro) = "OK" => lro[c] = "response")
    BY <2>1 DEF Result, Outcomes, Statuses, Codes
  <2>3. Result(k.lro) = "OK" => Complete(k, lro[c], replicated)
    BY <1>1, <2>2 DEF Complete, LongRunning, Paged, Consistency
  <2>4. Good(Finished(k, Result(k.lro)), lro[c], written, replicated)
    BY <1>1, <1>2, <2>2, <2>3, FinishedGood
  <2> QED
    BY <1>4, <2>4, OneCallOnly DEF PollSync
<1>5. ASSUME NEW s \in {"OK", "UNAVAILABLE", "PERMISSION_DENIED"}, NEW once \in Nat,
             k.lro = "running",
             Set(c, IF s # "OK" /\ ~OnFailure(k.polls, MaxPolls, s)
                    THEN Finished(k, s)
                    ELSE IF Exhausted(once) THEN Finished(k, "UNKNOWN")
                    ELSE [k EXCEPT !.polls = once + 1,
                            !.lro = IF s = "OK" THEN lro[c] ELSE k.lro])
      PROVE  Inv'
  <2>1. s \in Statuses /\ "UNKNOWN" \in Statuses
    BY DEF Statuses, Codes
  <2>2. once + 1 \in Nat
    OBVIOUS
  <2>3. Good([k EXCEPT !.polls = once + 1], lro[c], written, replicated)
    BY <1>1, <2>2, PolledGood
  <2> DEFINE p == [k EXCEPT !.polls = once + 1]
  <2>4. p.lro = k.lro /\ p.op = k.op
    BY <1>1 DEF Calls
  <2>5. Good([p EXCEPT !.lro = lro[c]], lro[c], written, replicated)
    <3> HIDE DEF p, k
    <3>1. Good(p, lro[c], written, replicated) /\ p.lro # "none" /\ p.lro \notin Outcomes
      BY <1>1, <1>5, <2>3, <2>4 DEF p, Outcomes
    <3> QED
      BY <1>1, <3>1, NewsGood
  <2>6. /\ [p EXCEPT !.lro = lro[c]] = [k EXCEPT !.polls = once + 1, !.lro = lro[c]]
        /\ p = [k EXCEPT !.polls = once + 1, !.lro = k.lro]
    BY <1>1 DEF Calls
  <2>7. Good([k EXCEPT !.polls = once + 1, !.lro = IF s = "OK" THEN lro[c] ELSE k.lro],
             lro[c], written, replicated)
    BY <2>3, <2>5, <2>6
  <2> HIDE DEF k
  <2>8. UNCHANGED <<lro, written, replicated>>
    BY DEF PollSync
  <2>9. CASE s # "OK" /\ ~OnFailure(k.polls, MaxPolls, s)
    BY <1>3, <1>5, <2>1, <2>8, <2>9, OneCallOnly
  <2>10. CASE ~(s # "OK" /\ ~OnFailure(k.polls, MaxPolls, s)) /\ Exhausted(once)
    BY <1>3, <1>5, <2>1, <2>8, <2>10, OneCallOnly
  <2>11. CASE ~(s # "OK" /\ ~OnFailure(k.polls, MaxPolls, s)) /\ ~Exhausted(once)
    BY <1>5, <2>7, <2>8, <2>11, OneCallOnly
  <2> QED
    BY <2>9, <2>10, <2>11
<1>6. ASSUME NEW s
      PROVE  (IF s = "OK" THEN k.polls ELSE Count(k.polls, s)) \in Nat
  BY <1>1 DEF Count, Calls
<1> QED
  <2>1. CASE k.lro # "running"
    BY <1>4, <2>1 DEF PollSync
  <2>2. CASE k.lro = "running"
    <3>1. PICK s \in {"OK", "UNAVAILABLE", "PERMISSION_DENIED"} :
            LET once == IF s = "OK" THEN k.polls ELSE Count(k.polls, s)
            IN  Set(c, IF s # "OK" /\ ~OnFailure(k.polls, MaxPolls, s)
                       THEN Finished(k, s)
                       ELSE IF Exhausted(once) THEN Finished(k, "UNKNOWN")
                       ELSE [k EXCEPT !.polls = once + 1,
                               !.lro = IF s = "OK" THEN lro[c] ELSE k.lro])
      BY <2>2 DEF PollSync
    <3> QED
      BY <1>5, <1>6, <2>2, <3>1
  <2> QED
    BY <2>1, <2>2

(* WaitForConsistencyCheckHelper().                                        *)
LEMMA CheckedKeepsInv ==
  ASSUME Inv, NEW c \in Callers, Checked(c)
  PROVE  Inv'
<1> DEFINE k == call[c]
<1>1. /\ Good(k, lro[c], written, replicated) /\ written \in Nat
      /\ replicated \in Nat /\ k \in Calls /\ k.pc = "checked"
      /\ k.op = "WaitForConsistencyCheck" /\ k.status \in Statuses
  BY DEF Inv, Checked, Good, StyleInv, Calls
<1>2. ~NotIdempotent(k)
  BY <1>1 DEF NotIdempotent
<1>3. UNCHANGED <<lro, written, replicated>>
  BY DEF Checked
<1>4. CASE k.status = "OK" /\ k.consistent
  <2>1. Set(c, Finished(k, "OK"))
    BY <1>4 DEF Checked, Transient
  <2>2. Complete(k, lro[c], replicated)
    BY <1>1, <1>4 DEF Complete, Paged, LongRunning, Good, TokenInv
  <2> HIDE DEF k
  <2>3. Good(Finished(k, "OK"), lro[c], written, replicated)
    BY <1>1, <1>2, <1>4, <2>2, FinishedGood
  <2> QED
    BY <1>3, <2>1, <2>3, OneCallOnly
<1>5. CASE ~Transient(k.status)
  <2>1. Set(c, Finished(k, k.status)) /\ k.status # "OK"
    BY <1>5 DEF Checked, Transient
  <2> HIDE DEF k
  <2>2. Good(Finished(k, k.status), lro[c], written, replicated)
    BY <1>1, <1>2, <2>1, FinishedGood
  <2> QED
    BY <1>3, <2>1, <2>2, OneCallOnly
<1>6. CASE Transient(k.status) /\ ~(k.status = "OK" /\ k.consistent)
  <2>1. Set(c, IF ~Exhausted(k.polls)
               THEN [k EXCEPT !.pc = "ready", !.polls = k.polls + 1, !.failures = 0]
               ELSE IF k.status = "OK"
               THEN [Finished(k, "OK") EXCEPT !.outcome = "false"]
               ELSE Finished(k, k.status))
    BY <1>6 DEF Checked
  <2>2. k.polls + 1 \in Nat
    BY <1>1 DEF Calls
  <2> HIDE DEF k
  <2>3. CASE ~Exhausted(k.polls)
    BY <1>1, <1>3, <2>1, <2>2, <2>3, LookAgainGood, OneCallOnly
  <2>4. CASE Exhausted(k.polls) /\ k.status = "OK"
    <3> DEFINE f == Finished(k, "OK")
               m == [f EXCEPT !.outcome = "false"]
    <3>1. /\ f \in Calls /\ f.pc = "returned" /\ f.op = k.op /\ f.style = k.style
          /\ f.before = k.before /\ f.phase = k.phase /\ f.lro = "none"
      BY <1>1, <2>4, FinishedFields
    <3> HIDE DEF f
    <3>2. /\ m \in Calls /\ m.pc = "returned" /\ m.op = k.op /\ m.style = k.style
          /\ m.before = k.before /\ m.phase = k.phase /\ m.lro = "none"
          /\ m.outcome = "false"
      BY <3>1 DEF Calls
    <3> HIDE DEF m
    <3>3. Good(m, lro[c], written, replicated)
      BY <1>1, <3>2 DEF Good, StyleInv, RefusalInv, NotIdempotent, PageInv, Paged,
           LroInv, LongRunning, TokenInv, Consistency
    <3> QED
      BY <1>3, <2>1, <2>4, <3>3, OneCallOnly DEF f, m
  <2>5. CASE Exhausted(k.polls) /\ k.status # "OK"
    <3>1. Good(Finished(k, k.status), lro[c], written, replicated)
      BY <1>1, <1>2, <2>5, FinishedGood
    <3> QED
      BY <1>3, <2>1, <2>5, <3>1, OneCallOnly
  <2> QED
    BY <2>3, <2>4, <2>5
<1> QED
  BY <1>4, <1>5, <1>6

(* The loops of an asynchronous call.                                      *)
LEMMA LoopKeepsInv ==
  ASSUME Inv, NEW c \in Callers, AsyncAnswered(c) \/ OnTimer(c)
  PROVE  Inv'
<1> DEFINE k == call[c]
<1>1. /\ Good(k, lro[c], written, replicated) /\ written \in Nat
      /\ replicated \in Nat /\ k \in Calls /\ k.status \in Statuses
      /\ k.style = "async" /\ k.failures \in Nat /\ k.phase \in {"retry", "poll"}
  BY DEF Inv, AsyncAnswered, OnTimer, Good, StyleInv, Calls
<1>2. "CANCELLED" \in Statuses
  BY DEF Statuses
<1>3. CASE AsyncAnswered(c)
  <2>1. k.pc = "answered" /\ k.phase = "retry" /\ UNCHANGED <<lro, written, replicated>>
    BY <1>1, <1>3 DEF AsyncAnswered, Good, StyleInv
  <2>2. \/ Set(c, [k EXCEPT !.pc = "callback"])
        \/ Async[k.op] # FALSE /\ Set(c, Again([k EXCEPT !.failures = k.failures + 1]))
    BY <1>3 DEF AsyncAnswered
  <2>3. CASE Set(c, [k EXCEPT !.pc = "callback"])
    <3> HIDE DEF k
    <3>1. [k EXCEPT !.pc = "callback"] = [k EXCEPT !.pc = "callback", !.status = k.status]
      BY <1>1 DEF Calls
    <3>2. Good([k EXCEPT !.pc = "callback", !.status = k.status], lro[c], written, replicated)
      BY <1>1, <2>1, CallbackGood
    <3> QED
      BY <2>1, <2>3, <3>1, <3>2, OneCallOnly
  <2>4. CASE Async[k.op] # FALSE /\ Set(c, Again([k EXCEPT !.failures = k.failures + 1]))
    <3> HIDE DEF k
    <3> DEFINE q == [k EXCEPT !.failures = k.failures + 1]
    <3>1. ~NotIdempotent(k)
      BY <1>1, <2>4, NeverRepeated
    <3>2. k.failures + 1 \in Nat
      BY <1>1
    <3>3. /\ q.loopCancelled = k.loopCancelled
          /\ [q EXCEPT !.pc = "waiting"] = [k EXCEPT !.pc = "waiting", !.failures = k.failures + 1]
      BY <1>1 DEF Calls
    <3>4. Good([k EXCEPT !.pc = "waiting", !.failures = k.failures + 1],
               lro[c], written, replicated)
      BY <1>1, <2>1, <3>1, <3>2, WaitingGood
    <3>5. Good([q EXCEPT !.pc = "callback", !.status = "CANCELLED"], lro[c], written, replicated)
      <4> DEFINE b == [k EXCEPT !.pc = "callback", !.status = "CANCELLED"]
      <4>1. Good(b, lro[c], written, replicated)
        BY <1>1, <1>2, <2>1, CallbackGood
      <4>2. b.op = k.op /\ b.style = k.style /\ b.pc = "callback"
        BY <1>1 DEF Calls
      <4>3. [q EXCEPT !.pc = "callback", !.status = "CANCELLED"]
              = [b EXCEPT !.failures = k.failures + 1]
        BY <1>1 DEF Calls
      <4> HIDE DEF b
      <4>4. Good([b EXCEPT !.failures = k.failures + 1], lro[c], written, replicated)
        BY <1>1, <3>2, <4>1, CountedGood
      <4> QED
        BY <4>3, <4>4
    <3> HIDE DEF q
    <3>6. Good(Again(q), lro[c], written, replicated)
      BY <3>3, <3>4, <3>5 DEF Again
    <3> QED
      BY <2>1, <2>4, <3>6, OneCallOnly DEF q
  <2> QED
    BY <2>2, <2>3, <2>4
<1>4. CASE OnTimer(c)
  <2>1. k.pc = "waiting" /\ UNCHANGED <<lro, written, replicated>>
    BY <1>4 DEF OnTimer
  <2>2. \/ Set(c, [k EXCEPT !.pc = "callback", !.status = "CANCELLED"])
        \/ Set(c, [k EXCEPT !.pc = "inflight"])
    BY <1>4 DEF OnTimer
  <2> HIDE DEF k
  <2>3. Good([k EXCEPT !.pc = "callback", !.status = "CANCELLED"], lro[c], written, replicated)
    BY <1>1, <1>2, <2>1, CallbackGood
  <2>4. Good([k EXCEPT !.pc = "inflight"], lro[c], written, replicated)
    BY <1>1, <2>1, ResumedGood
  <2> QED
    BY <2>1, <2>2, <2>3, <2>4, OneCallOnly
<1> QED
  BY <1>3, <1>4

(* PollableLoopAdapter::OnCompletion(): the polling ends with OK only if   *)
(* the poll has said that it is finished.                                  *)
LEMMA PollCompletedGood ==
  ASSUME NEW k, NEW o, NEW w \in Nat, NEW r \in Nat, Good(k, o, w, r),
         k.pc = "inflight", k.phase = "poll",
         NEW s \in Statuses, NEW finished,
         finished /\ s = "OK" =>
           /\ k.op \in LongRunning => o \in {"response", "garbled"}
           /\ k.op = "AwaitConsistency" => r >= k.token
  PROVE  Good(PollCompleted(k, s, finished), o, w, r)
<1> DEFINE n == Count(k.polls, s) + 1
           q == [k EXCEPT !.polls = n]
<1>1. k \in Calls /\ k.style = "async" /\ n \in Nat
  BY DEF Good, StyleInv, Calls, Count
<1>2. "CANCELLED" \in Statuses /\ "UNKNOWN" \in Statuses
  BY DEF Statuses
<1>3. ASSUME NEW t \in Statuses, t = "OK" => finished /\ s = "OK"
      PROVE  Good([k EXCEPT !.pc = "callback", !.status = t], o, w, r)
  BY <1>1, <1>3, CallbackGood
<1>4. Good(Again(q), o, w, r)
  <2> HIDE DEF n
  <2>1. /\ q.loopCancelled = k.loopCancelled
        /\ [q EXCEPT !.pc = "waiting"] = [k EXCEPT !.pc = "waiting", !.polls = n]
    BY <1>1 DEF Calls
  <2>2. Good([k EXCEPT !.pc = "waiting", !.polls = n], o, w, r)
    BY <1>1, PollWaitingGood
  <2> DEFINE b == [k EXCEPT !.pc = "callback", !.status = "CANCELLED"]
  <2>3. Good(b, o, w, r)
    BY <1>2, <1>3
  <2>4. [q EXCEPT !.pc = "callback", !.status = "CANCELLED"] = [b EXCEPT !.polls = n]
    BY <1>1 DEF Calls
  <2> HIDE DEF b
  <2>5. Good([b EXCEPT !.polls = n], o, w, r)
    BY <1>1, <2>3, PolledGood
  <2> HIDE DEF q
  <2> QED
    BY <2>1, <2>2, <2>4, <2>5 DEF Again
<1>5. CASE s = "CANCELLED" \/ finished
  BY <1>3, <1>5 DEF PollCompleted
<1>6. CASE ~(s = "CANCELLED" \/ finished) /\ s # "OK" /\ ~OnFailure(k.polls, MaxPolls, s)
  BY <1>3, <1>6 DEF PollCompleted
<1>7. CASE /\ ~(s = "CANCELLED" \/ finished) /\ ~(s # "OK" /\ ~OnFailure(k.polls, MaxPolls, s))
           /\ Exhausted(Count(k.polls, s))
  BY <1>2, <1>3, <1>7 DEF PollCompleted
<1>8. CASE /\ ~(s = "CANCELLED" \/ finished) /\ ~(s # "OK" /\ ~OnFailure(k.polls, MaxPolls, s))
           /\ ~Exhausted(Count(k.polls, s))
  BY <1>4, <1>8 DEF PollCompleted
<1> QED
  BY <1>5, <1>6, <1>7, <1>8

LEMMA PollKeepsInv ==
  ASSUME Inv, NEW c \in Callers, PollDone(c) \/ PollAsync(c)
  PROVE  Inv'
<1> DEFINE k == call[c]
<1>1. /\ Good(k, lro[c], written, replicated) /\ written \in Nat
      /\ replicated \in Nat /\ k \in Calls /\ lro[c] \in Lros
      /\ k.pc = "inflight" /\ k.phase = "poll" /\ k.op \in TwoPhase
      /\ UNCHANGED <<lro, written, replicated>>
  BY DEF Inv, PollDone, PollAsync, Good, StyleInv
<1>2. k.op \in LongRunning => k.lro # "none"
  BY <1>1 DEF Good, LroInv
<1>3. {"OK", "UNAVAILABLE", "PERMISSION_DENIED", "CANCELLED", "FAILED"} \subseteq Statuses
  BY DEF Statuses, Codes
<1>4. CASE PollDone(c)
  <2>1. k.lro \in Outcomes /\ Set(c, PollCompleted(k, PollResult(k.lro), TRUE))
    BY <1>4 DEF PollDone
  <2>2. k.op \in LongRunning => lro[c] = k.lro
    BY <1>1, <2>1 DEF Good, LroInv
  <2>3. PollResult(k.lro) \in Statuses /\ (PollResult(k.lro) = "OK" => k.lro \in {"response", "garbled"})
    BY <1>3, <2>1 DEF PollResult, Outcomes
  <2>4. k.op \in LongRunning
    BY <1>1, <2>1 DEF Good, LroInv, Outcomes
  <2>5. k.op # "AwaitConsistency"
    BY <2>4 DEF LongRunning
  <2> HIDE DEF k
  <2>6. Good(PollCompleted(k, PollResult(k.lro), TRUE), lro[c], written, replicated)
    BY <1>1, <2>2, <2>3, <2>4, <2>5, PollCompletedGood
  <2> QED
    BY <1>1, <2>1, <2>6, OneCallOnly
<1>5. CASE PollAsync(c)
  <2> DEFINE finished == PollFinished(c)
             s0 == IF finished THEN PollResult(lro[c]) ELSE "OK"
             q == [k EXCEPT !.lro = lro[c]]
  <2>1. k.lro \notin Outcomes
    BY <1>5 DEF PollAsync
  <2>2. \/ Set(c, PollCompleted(q, s0, finished))
        \/ \E s \in {"UNAVAILABLE", "PERMISSION_DENIED", "CANCELLED"} :
             Set(c, PollCompleted(k, s, FALSE))
    BY <1>5 DEF PollAsync, Cancelling
  <2>4. s0 \in Statuses
    BY <1>3 DEF PollResult
  <2>5. Good(q, lro[c], written, replicated)
    <3>1. CASE k.op \in LongRunning
      BY <1>1, <1>2, <2>1, <3>1, NewsGood
    <3>2. CASE k.op \notin LongRunning
      <4>1. k.lro = lro[c]
        BY <1>1, <3>2 DEF Good, LroInv
      <4>2. q = k
        BY <1>1, <4>1 DEF Calls
      <4> QED
        BY <1>1, <4>2
    <3> QED
      BY <3>1, <3>2
  <2>6. q.pc = "inflight" /\ q.phase = "poll" /\ q.op = k.op /\ q.token = k.token
    BY <1>1 DEF Calls
  <2>7. ASSUME finished, s0 = "OK"
        PROVE  /\ k.op \in LongRunning => lro[c] \in {"response", "garbled"}
               /\ k.op = "AwaitConsistency" => replicated >= k.token
    <3>1. k.op \in LongRunning => lro[c] # "none"
      BY <1>1, <1>2, <2>1 DEF Good, LroInv, Calls, Lros
    <3>2. k.op \in LongRunning => k.op # "AwaitConsistency"
      BY DEF LongRunning
    <3>3. k.op \in LongRunning => lro[c] # "running"
      BY <2>7, <3>2 DEF PollFinished
    <3>4. lro[c] # "error"
      BY <2>7 DEF PollResult
    <3>5. k.op \in LongRunning => lro[c] \in {"response", "garbled"}
      BY <1>1, <3>1, <3>3, <3>4 DEF Lros, Outcomes
    <3>6. k.op = "AwaitConsistency" => replicated >= k.token
      BY <2>7 DEF PollFinished
    <3> QED
      BY <3>5, <3>6
  <2> HIDE DEF finished, s0, q, k
  <2>8. Good(PollCompleted(q, s0, finished), lro[c], written, replicated)
    BY <1>1, <2>4, <2>5, <2>6, <2>7, PollCompletedGood
  <2>9. ASSUME NEW s \in {"UNAVAILABLE", "PERMISSION_DENIED", "CANCELLED"}
        PROVE  Good(PollCompleted(k, s, FALSE), lro[c], written, replicated)
    BY <1>1, <1>3, PollCompletedGood
  <2> QED
    BY <1>1, <2>2, <2>8, <2>9, OneCallOnly
<1> QED
  BY <1>4, <1>5

(* The mutex, the handle and the callback.                                 *)
LEMMA HandleKeepsInv ==
  ASSUME Inv, NEW c \in Callers,
         Assign(c) \/ Cancel(c) \/ OnCompletion(c) \/ OnLongrunningStarted(c)
           \/ OnLongrunningCompleted(c)
  PROVE  Inv'
<1> DEFINE k == call[c]
           d == [k EXCEPT !.current_op_ = "none"]
<1>1. /\ Good(k, lro[c], written, replicated) /\ written \in Nat
      /\ replicated \in Nat /\ k \in Calls /\ k.status \in Statuses
      /\ UNCHANGED <<lro, written, replicated>>
  BY DEF Inv, Assign, Cancel, OnCompletion, OnLongrunningStarted,
       OnLongrunningCompleted, Calls
<1>2. CASE Assign(c)
  <2>1. Set(c, [k EXCEPT !.current_op_ = k.assigning, !.assigning = "none"])
    BY <1>2 DEF Assign
  <2>2. k.assigning \in {"none", "retry", "poll"}
    BY <1>1 DEF Calls
  <2> HIDE DEF k
  <2>3. Good([k EXCEPT !.current_op_ = k.assigning, !.assigning = "none"],
             lro[c], written, replicated)
    BY <1>1, <2>2, AssignedGood
  <2> QED
    BY <1>1, <2>1, <2>3, OneCallOnly
<1>3. CASE Cancel(c)
  <2> DEFINE b == k.loopCancelled \/ k.current_op_ # "none"
  <2>1. Set(c, [k EXCEPT !.cancelled_ = TRUE, !.loopCancelled = b])
    BY <1>3 DEF Cancel, CancelCurrentOp
  <2>2. b \in BOOLEAN
    OBVIOUS
  <2> HIDE DEF k, b
  <2>3. Good([k EXCEPT !.cancelled_ = TRUE, !.loopCancelled = b],
             lro[c], written, replicated)
    BY <1>1, <2>2, CancelledGood
  <2> QED
    BY <1>1, <2>1, <2>3, OneCallOnly
<1>4. CASE OnCompletion(c)
  <2>1. k.pc = "callback" /\ k.op \notin TwoPhase /\ Set(c, Finished(k, k.status))
    BY <1>4 DEF OnCompletion
  <2>2. k.style = "async" /\ k.op \in DOMAIN Async \ Paged
    BY <1>1, <2>1 DEF Good, StyleInv, Calls
  <2>3. Complete(k, lro[c], replicated)
    BY <2>1, <2>2, WaitingStyles DEF Complete, TwoPhase, Consistency
  <2> HIDE DEF k
  <2>4. Good(Finished(k, k.status), lro[c], written, replicated)
    BY <1>1, <2>1, <2>3, FinishedGood DEF Good, RefusalInv
  <2> QED
    BY <1>1, <2>1, <2>4, OneCallOnly
<1>5. /\ Good(d, lro[c], written, replicated) /\ d \in Calls /\ d.pc = k.pc
      /\ d.op = k.op /\ d.phase = k.phase /\ d.status = k.status
      /\ d.style = k.style /\ d.token = k.token /\ d.before = k.before
  <2>1. d = [k EXCEPT !.current_op_ = "none", !.assigning = k.assigning]
    BY <1>1 DEF Calls
  <2>2. k.assigning \in {"none", "retry", "poll"}
    BY <1>1 DEF Calls
  <2>3. d.pc = k.pc /\ d.op = k.op /\ d.phase = k.phase /\ d.status = k.status
         /\ d.style = k.style /\ d.token = k.token /\ d.before = k.before
    BY <1>1 DEF Calls
  <2> HIDE DEF k, d
  <2>4. Good(d, lro[c], written, replicated)
    BY <1>1, <2>1, <2>2, AssignedGood
  <2> QED
    BY <2>3, <2>4 DEF Good
<1>6. ASSUME d.pc = "callback", d.op \in TwoPhase,
             NEW s \in Statuses, s = "OK" => Complete(d, lro[c], replicated),
             Set(c, Finished(d, s))
      PROVE  Inv'
  <2> HIDE DEF k, d
  <2>1. ~NotIdempotent(d)
    BY <1>6, NeverRepeated
  <2>2. Good(Finished(d, s), lro[c], written, replicated)
    BY <1>1, <1>5, <1>6, <2>1, FinishedGood
  <2> QED
    BY <1>1, <1>6, <2>2, OneCallOnly
<1>7. CASE OnLongrunningStarted(c)
  <2>1. /\ d.pc = "callback" /\ d.op \in TwoPhase /\ d.phase = "retry"
        /\ \/ Set(c, Finished(d, "CANCELLED"))
           \/ d.status # "OK" /\ Set(c, Finished(d, d.status))
           \/ /\ d.status = "OK"
              /\ Set(c, [d EXCEPT !.pc = "inflight", !.phase = "poll",
                           !.assigning = "poll", !.loopCancelled = FALSE])
    BY <1>7 DEF OnLongrunningStarted
  <2>2. "CANCELLED" \in Statuses
    BY DEF Statuses
  <2>3. CASE Set(c, Finished(d, "CANCELLED"))
    BY <1>6, <2>1, <2>2, <2>3
  <2>4. CASE d.status # "OK" /\ Set(c, Finished(d, d.status))
    BY <1>1, <1>5, <1>6, <2>1, <2>4
  <2>5. CASE /\ d.status = "OK"
             /\ Set(c, [d EXCEPT !.pc = "inflight", !.phase = "poll",
                          !.assigning = "poll", !.loopCancelled = FALSE])
    <3> HIDE DEF d, k
    <3>1. Good([d EXCEPT !.pc = "inflight", !.phase = "poll",
                  !.assigning = "poll", !.loopCancelled = FALSE],
               lro[c], written, replicated)
      BY <1>1, <1>5, <2>1, <2>5, SecondPhaseGood
    <3> QED
      BY <1>1, <2>5, <3>1, OneCallOnly
  <2> QED
    BY <2>1, <2>3, <2>4, <2>5
<1>8. CASE OnLongrunningCompleted(c)
  <2>1. /\ d.pc = "callback" /\ d.op \in TwoPhase /\ d.phase = "poll"
        /\ Set(c, Finished(d, d.status))
    BY <1>8 DEF OnLongrunningCompleted
  <2> HIDE DEF d
  <2>2. ASSUME d.status = "OK"
        PROVE  Complete(d, lro[c], replicated)
    <3>1. d.style = "async" /\ d.token \in Nat /\ d.before \in Nat
      BY <1>5, <2>1 DEF Good, StyleInv, Calls
    <3>2. d.op \notin Paged /\ d.op # "WaitForConsistencyCheck"
      BY <2>1 DEF TwoPhase, LongRunning, Paged
    <3>3. d.op \in LongRunning => lro[c] \in {"response", "garbled"}
      BY <1>5, <2>1, <2>2 DEF Good, LroInv
    <3>4. d.op = "AwaitConsistency" => replicated >= d.before
      BY <1>1, <1>5, <2>1, <2>2, <3>1 DEF Good, TokenInv
    <3> QED
      BY <3>1, <3>2, <3>3, <3>4 DEF Complete, Consistency
  <2> QED
    BY <1>1, <1>5, <1>6, <2>1, <2>2
<1> QED
  BY <1>2, <1>3, <1>4, <1>7, <1>8

LEMMA InvStep == Inv /\ [Next]_vars => Inv'
<1> SUFFICES ASSUME Inv, [Next]_vars PROVE Inv'
  OBVIOUS
<1>1. CASE UNCHANGED vars
  BY <1>1 DEF vars, Inv
<1>2. ASSUME NEW c \in Callers, Settle(c) PROVE Inv'
  <2>1. PICK o \in Outcomes : lro' = [lro EXCEPT ![c] = o]
    BY <1>2 DEF Settle
  <2> DEFINE k == call[c]
  <2>2. /\ Good(k, lro[c], written, replicated) /\ k \in Calls /\ lro[c] = "running"
        /\ UNCHANGED <<written, replicated, call>> /\ o \in Lros
    BY <1>2, <2>1 DEF Inv, Settle, Lros
  <2>3. call' = [call EXCEPT ![c] = k]
    BY <2>2 DEF Inv
  <2> HIDE DEF k
  <2>4. LroInv(k, o)
    BY <2>2 DEF Good, LroInv, Outcomes
  <2>5. Good(k, o, written, replicated)
    BY <2>2, <2>4 DEF Good
  <2> QED
    BY <2>1, <2>2, <2>3, <2>5, OneCall
<1>3. CASE Mutate \/ Replicate
  <2>1. /\ written' \in Nat /\ replicated' \in Nat /\ written' >= written
        /\ replicated' >= replicated /\ UNCHANGED <<lro, call>>
    BY <1>3 DEF Mutate, Replicate, Inv
  <2>2. ASSUME NEW c \in Callers
        PROVE  Good(call[c], lro[c], written', replicated')
    BY <2>1, Monotone DEF Inv
  <2> QED
    BY <2>1, <2>2 DEF Inv
<1> QED
  BY <1>1, <1>2, <1>3, StartKeepsInv, AttemptKeepsInv, SyncAnsweredKeepsInv,
     PollSyncKeepsInv, CheckedKeepsInv, LoopKeepsInv, PollKeepsInv,
     HandleKeepsInv DEF Next

(* The invariant holds in every state of every behaviour, whatever the     *)
(* calls are and however many are under way.                               *)
THEOREM AdminInvHolds == Spec => []Inv
<1> QED
  BY InvInit, InvStep, PTL DEF Spec

(* A call whose comment says that it is not idempotent (internal/          *)
(* table_admin.cc, internal/instance_admin.cc) and that ends with          *)
(* ALREADY_EXISTS or NOT_FOUND has changed nothing: RefusalIsTrue.         *)
THEOREM RefusalsAreTrue == Spec => []RefusalIsTrue
<1>1. Inv => RefusalIsTrue
  BY DEF Inv, Good, RefusalInv, RefusalIsTrue
<1> QED
  BY <1>1, AdminInvHolds, PTL

(* A call that ends with a value has read all its pages, its long-running  *)
(* operation has ended with a response, and the mutations before it are    *)
(* replicated: OkMeansDone.                                                *)
THEOREM SuccessIsComplete == Spec => []OkMeansDone
<1>1. Inv => OkMeansDone
  BY DEF Inv, Good, PageInv, LroInv, TokenInv, OkMeansDone
<1> QED
  BY <1>1, AdminInvHolds, PTL

-----------------------------------------------------------------------------
(* Only OnLongrunningStarted() begins a second phase.                      *)
LEMMA OtherStepsPollNothing ==
  ASSUME Inv, Next, \A c \in Callers : ~OnLongrunningStarted(c), NEW d \in Callers
  PROVE  call'[d].phase \in {call[d].phase, "retry"}
<1>1. ASSUME NEW c \in Callers, NEW m, Set(c, m), m.phase \in {call[c].phase, "retry"}
      PROVE  call'[d].phase \in {call[d].phase, "retry"}
  BY <1>1 DEF Set, Inv
<1>2. ASSUME NEW k, NEW s PROVE Finished(k, s).phase = k.phase
  BY DEF Finished, Idle
<1>3. ASSUME NEW c \in Callers, StartSync(c) \/ StartAsync(c)
      PROVE  call'[d].phase \in {call[d].phase, "retry"}
  BY <1>1, <1>3 DEF StartSync, StartAsync, Idle
<1>4. ASSUME NEW c \in Callers, Lose(c) \/ ServeAndLose(c) \/ Serve(c)
      PROVE  call'[d].phase \in {call[d].phase, "retry"}
  <2>1. call[c] \in Calls
    BY DEF Inv
  <2> DEFINE ch == call[c].changed \/ at' # at
  <2>2. CASE Lose(c) \/ ServeAndLose(c)
    <3>1. PICK s : Set(c, [call[c] EXCEPT !.pc = "answered", !.status = s, !.changed = ch])
      BY <2>2 DEF Lose, ServeAndLose, Answered
    <3> DEFINE m == [call[c] EXCEPT !.pc = "answered", !.status = s, !.changed = ch]
    <3> HIDE DEF ch
    <3>2. m.phase = call[c].phase
      BY <2>1 DEF Calls
    <3>3. Set(c, m)
      BY <3>1
    <3> HIDE DEF m
    <3> QED
      BY <1>1, <3>2, <3>3
  <2>3. CASE Serve(c)
    <3> DEFINE k == call[c]
               h == Handled(c)
               page == IF h.code = "OK" /\ k.op \in Paged THEN k.page + 1 ELSE k.page
               token == IF h.code = "OK" /\ k.op = "AwaitConsistency" THEN written ELSE k.token
               cons == h.code = "OK" /\ Consistency(k.op) /\ replicated >= k.token
    <3>1. PICK o : Set(c, [k EXCEPT !.pc = "answered", !.status = h.code, !.lro = o,
                             !.page = page, !.token = token, !.consistent = cons,
                             !.changed = ch])
      BY <2>3 DEF Serve
    <3> DEFINE m == [k EXCEPT !.pc = "answered", !.status = h.code, !.lro = o,
                       !.page = page, !.token = token, !.consistent = cons,
                       !.changed = ch]
    <3>2. m.phase = k.phase
      <4> HIDE DEF k, h, page, token, cons, ch
      <4> QED
        BY <2>1 DEF k, Calls
    <3>3. Set(c, m)
      BY <3>1
    <3> HIDE DEF m
    <3> QED
      BY <1>1, <3>2, <3>3
  <2> QED
    BY <1>4, <2>2, <2>3
<1>5. ASSUME NEW c \in Callers, SyncAnswered(c) \/ PollSync(c) \/ Checked(c)
      PROVE  call'[d].phase \in {call[d].phase, "retry"}
  <2> DEFINE k == call[c]
  <2>1. k \in Calls
    BY DEF Inv
  <2>2. CASE SyncAnswered(c)
    <3>1. /\ Proceed(k).phase = k.phase /\ Fail(k).phase = k.phase
          /\ [k EXCEPT !.pc = "ready", !.failures = k.failures + 1].phase = k.phase
      <4> HIDE DEF k
      <4> QED
        BY <1>2, <2>1 DEF Proceed, Fail, Calls
    <3>2. \E m \in {Proceed(k), Fail(k), [k EXCEPT !.pc = "ready", !.failures = k.failures + 1]} :
            Set(c, m)
      BY <2>2 DEF SyncAnswered
    <3> QED
      BY <1>1, <3>1, <3>2
  <2>3. CASE PollSync(c)
    <3>1. ASSUME NEW n, NEW o
          PROVE  [k EXCEPT !.polls = n, !.lro = o].phase = k.phase
      BY <2>1 DEF Calls
    <3>2. \/ \E s : Set(c, Finished(k, s))
          \/ \E n, o : Set(c, [k EXCEPT !.polls = n, !.lro = o])
      BY <2>3 DEF PollSync
    <3>3. CASE \E s : Set(c, Finished(k, s))
      BY <1>1, <1>2, <3>3
    <3>4. ASSUME NEW n, NEW o, Set(c, [k EXCEPT !.polls = n, !.lro = o])
          PROVE  call'[d].phase \in {call[d].phase, "retry"}
      <4> DEFINE m == [k EXCEPT !.polls = n, !.lro = o]
      <4>1. m.phase = k.phase /\ Set(c, m)
        BY <3>1, <3>4
      <4> HIDE DEF m
      <4> QED
        BY <1>1, <4>1
    <3> QED
      BY <3>2, <3>3, <3>4
  <2>4. CASE Checked(c)
    <3>1. /\ [k EXCEPT !.pc = "ready", !.polls = k.polls + 1, !.failures = 0].phase = k.phase
          /\ [Finished(k, "OK") EXCEPT !.outcome = "false"].phase = k.phase
      BY <1>2, <2>1 DEF Calls, Finished, Idle
    <3>2. \/ \E s : Set(c, Finished(k, s))
          \/ Set(c, [k EXCEPT !.pc = "ready", !.polls = k.polls + 1, !.failures = 0])
          \/ Set(c, [Finished(k, "OK") EXCEPT !.outcome = "false"])
      BY <2>4 DEF Checked
    <3> QED
      BY <1>1, <1>2, <3>1, <3>2
  <2> QED
    BY <1>5, <2>2, <2>3, <2>4
<1>6. ASSUME NEW c \in Callers, AsyncAnswered(c) \/ OnTimer(c) \/ PollDone(c) \/ PollAsync(c)
      PROVE  call'[d].phase \in {call[d].phase, "retry"}
  <2>1. CASE AsyncAnswered(c)
    BY <1>1, <2>1, ZenonT(60) DEF AsyncAnswered, Again, Inv, Calls
  <2>2. CASE OnTimer(c)
    BY <1>1, <2>2 DEF OnTimer, Inv, Calls
  <2>3. CASE PollDone(c)
    BY <1>1, <2>3, ZenonT(60) DEF PollDone, PollCompleted, Again, Inv, Calls
  <2>4. CASE PollAsync(c)
    BY <1>1, <2>4, ZenonT(60) DEF PollAsync, PollCompleted, Again, Inv, Calls
  <2> QED
    BY <1>6, <2>1, <2>2, <2>3, <2>4
<1>7. ASSUME NEW c \in Callers, Assign(c) \/ Cancel(c) \/ OnCompletion(c) \/ OnLongrunningCompleted(c)
      PROVE  call'[d].phase \in {call[d].phase, "retry"}
  <2>1. CASE Assign(c)
    BY <1>1, <2>1, ZenonT(60) DEF Assign, Inv, Calls
  <2>2. CASE Cancel(c)
    BY <1>1, <2>2, ZenonT(60) DEF Cancel, CancelCurrentOp, Inv, Calls
  <2>3. CASE OnCompletion(c)
    BY <1>1, <1>2, <2>3 DEF OnCompletion
  <2>4. CASE OnLongrunningCompleted(c)
    BY <1>1, <1>2, <2>4 DEF OnLongrunningCompleted, Inv, Calls
  <2> QED
    BY <1>7, <2>1, <2>2, <2>3, <2>4
<1>8. ASSUME NEW c \in Callers, Settle(c)
      PROVE  call'[d].phase \in {call[d].phase, "retry"}
  BY <1>8 DEF Settle
<1>9. CASE Mutate \/ Replicate
  BY <1>9 DEF Mutate, Replicate
<1> QED
  BY <1>3, <1>4, <1>5, <1>6, <1>7, <1>8, <1>9 DEF Next

(* A call that has been cancelled in its first phase never begins its      *)
(* second one, even if its first RPC succeeds (internal/                   *)
(* async_retry_unary_rpc_and_poll.h): NoPollAfterCancel.                   *)
THEOREM CancelledCallsDoNotPoll == Spec => NoPollAfterCancel
<1>1. ASSUME Inv, [Next]_vars, NEW d \in Callers, call[d].cancelled_,
             call[d].phase = "retry"
      PROVE  call'[d].phase = "retry"
  <2>1. CASE UNCHANGED vars
    BY <1>1, <2>1 DEF vars
  <2>2. ASSUME NEW c \in Callers, OnLongrunningStarted(c)
        PROVE  call'[d].phase = "retry"
    <3>1. CASE c # d
      BY <1>1, <2>2, <3>1 DEF OnLongrunningStarted, Set, Inv
    <3>2. CASE c = d
      <4> DEFINE k == [call[c] EXCEPT !.current_op_ = "none"]
      <4>1. k.cancelled_ /\ k.phase = "retry" /\ call'[c] = Finished(k, "CANCELLED")
        BY <1>1, <2>2, <3>2 DEF OnLongrunningStarted, Set, Inv, Calls
      <4> QED
        BY <3>2, <4>1 DEF Finished, Idle
    <3> QED
      BY <3>1, <3>2
  <2> QED
    BY <1>1, <2>1, <2>2, OtherStepsPollNothing
<1>2. Inv /\ [Next]_vars =>
        [\A c \in Callers :
           call[c].cancelled_ /\ call[c].phase = "retry" => call'[c].phase = "retry"]_vars
  BY <1>1
<1> QED
  BY <1>2, AdminInvHolds, PTL DEF Spec, NoPollAfterCancel

=============================================================================
