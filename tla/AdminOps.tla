------------------------------ MODULE AdminOps ------------------------------
(***************************************************************************)
(* The administrative operations of Bigtable, operation by operation: how  *)
(* InstanceAdmin and TableAdmin make each call, which RPC the clients send *)
(* for it, and how its outcome reaches the application.  Names, configs    *)
(* and messages are left out.                                              *)
(***************************************************************************)
EXTENDS Naturals, FiniteSets

(* The tables below are put together from those of each class or file,     *)
(* which have no operation in common.                                      *)
Merged(tables) ==
  [op \in UNION {DOMAIN t : t \in tables} |->
     (CHOOSE t \in tables : op \in DOMAIN t)[op]]

-----------------------------------------------------------------------------
(* Synchronous calls.  "retry" is MakeCall(), which repeats the call while *)
(* the policies allow it; "attempt" is MakeCall() with retry_on_failure    *)
(* false; "once" is MakeNonIdemponentCall().                               *)

InstanceSync == [ListInstances |-> "retry", GetInstance |-> "retry",
                 DeleteInstance |-> "once"]

ClusterSync == [GetCluster |-> "retry", ListClusters |-> "retry",
                DeleteCluster |-> "once"]

(* UpdateAppProfile is retried, although its comment says otherwise.       *)
AppProfileSync == [CreateAppProfile |-> "once", GetAppProfile |-> "retry",
                   UpdateAppProfile |-> "retry", ListAppProfiles |-> "retry",
                   DeleteAppProfile |-> "once"]

IamSync == [GetIamPolicy |-> "retry", SetIamPolicy |-> "retry",
            TestIamPermissions |-> "retry"]

InstanceChangeSync == [CreateInstance |-> "attempt", UpdateInstance |-> "attempt"]

UpdateClusterSync == [UpdateCluster |-> "attempt"]

CreateClusterSync == [CreateCluster |-> "attempt"]

\* mutant: deleting a table is retried like a read
TableSync_Retried == [CreateTable |-> "once", ListTables |-> "retry",
                      GetTable |-> "retry", DeleteTable |-> "retry"]
TableSync == [CreateTable |-> "once", ListTables |-> "retry",
              GetTable |-> "retry", DeleteTable |-> "once"]

TableChangeSync == [ModifyColumnFamilies |-> "once", DropRowsByPrefix |-> "once",
                    DropAllRows |-> "once"]

ConsistencySync == [GenerateConsistencyToken |-> "retry",
                    CheckConsistency |-> "retry",
                    WaitForConsistencyCheck |-> "retry"]

SnapshotSync == [GetSnapshot |-> "retry", DeleteSnapshot |-> "once",
                 ListSnapshots |-> "retry"]

SnapshotTableSync == [SnapshotTable |-> "retry"]

CreateTableFromSnapshotSync == [CreateTableFromSnapshot |-> "retry"]

Sync ==
  Merged({InstanceSync, ClusterSync, AppProfileSync, IamSync,
          InstanceChangeSync, UpdateClusterSync, CreateClusterSync,
          TableSync, TableChangeSync, ConsistencySync, SnapshotSync,
          SnapshotTableSync, CreateTableFromSnapshotSync})

-----------------------------------------------------------------------------
(* Asynchronous calls: the ConstantIdempotencyPolicy given to AsyncRetryOp.*)
(* A listing has none: every page of it is retried.                        *)

InstanceAsync == [ListInstances |-> TRUE, CreateInstance |-> TRUE]

InstanceChangeAsync == [UpdateInstance |-> TRUE, GetInstance |-> TRUE]

DeleteInstanceAsync == [DeleteInstance |-> TRUE, ListClusters |-> TRUE]

ClusterAsync == [DeleteCluster |-> TRUE, CreateCluster |-> TRUE]

ClusterChangeAsync == [UpdateCluster |-> TRUE, GetCluster |-> TRUE]

AppProfileAsync == [UpdateAppProfile |-> TRUE, CreateAppProfile |-> TRUE]

AppProfileReadAsync == [GetAppProfile |-> TRUE, ListAppProfiles |-> TRUE]

DeleteAppProfileAsync == [DeleteAppProfile |-> TRUE]

TableAsync == [CreateTable |-> FALSE, GetTable |-> TRUE]

DeleteTableAsync == [DeleteTable |-> FALSE]

(* Waiting for replication: its first call asks for a consistency token.   *)
AwaitConsistencyAsync == [AwaitConsistency |-> TRUE]

TableChangeAsync == [ModifyColumnFamilies |-> FALSE, DropRowsByPrefix |-> FALSE]

DropAllRowsAsync == [DropAllRows |-> FALSE]

SnapshotAsync == [GetSnapshot |-> FALSE, DeleteSnapshot |-> FALSE]

Async ==
  Merged({InstanceAsync, InstanceChangeAsync, DeleteInstanceAsync,
          ClusterAsync, ClusterChangeAsync, AppProfileAsync,
          AppProfileReadAsync, DeleteAppProfileAsync, TableAsync,
          DeleteTableAsync, AwaitConsistencyAsync, TableChangeAsync,
          DropAllRowsAsync, SnapshotAsync})

(* AsyncDeleteTable() returns no handle, so nobody can cancel it.          *)
Cancellable(op) == op # "DeleteTable"

-----------------------------------------------------------------------------
(* What follows the first RPC.                                             *)

Paged == {"ListInstances", "ListClusters", "ListAppProfiles", "ListTables",
          "ListSnapshots"}

(* Calls that start a long-running operation and poll it.                  *)
LongRunning == {"CreateInstance", "UpdateInstance", "CreateCluster",
                "UpdateCluster", "UpdateAppProfile", "SnapshotTable",
                "CreateTableFromSnapshot"}

(* Asynchronous calls with two phases: AsyncRetryAndPollUnaryRpc and       *)
(* AsyncAwaitConsistency.                                                  *)
TwoPhase == (LongRunning \cap DOMAIN Async) \cup {"AwaitConsistency"}

-----------------------------------------------------------------------------
(* The RPCs.  The clients forward every call to the stub of the service.   *)

InstanceRpcs ==
  [op \in {"ListInstances", "CreateInstance", "GetInstance", "DeleteInstance",
           "ListClusters", "GetCluster", "DeleteCluster", "CreateCluster",
           "UpdateCluster", "CreateAppProfile", "GetAppProfile",
           "ListAppProfiles", "UpdateAppProfile", "DeleteAppProfile",
           "GetIamPolicy", "SetIamPolicy", "TestIamPermissions",
           "UpdateInstance"} |->
     IF op = "UpdateInstance" THEN "PartialUpdateInstance" ELSE op]

AsyncInstanceRpcs ==
  [op \in {"ListInstances", "GetInstance", "GetCluster", "DeleteCluster",
           "CreateCluster", "CreateInstance", "UpdateCluster",
           "DeleteInstance", "ListClusters", "GetAppProfile",
           "DeleteAppProfile", "CreateAppProfile", "UpdateAppProfile",
           "ListAppProfiles", "UpdateInstance"} |->
     IF op = "UpdateInstance" THEN "PartialUpdateInstance" ELSE op]

TableRpcs ==
  [op \in {"CreateTable", "CreateTableFromSnapshot", "ListTables", "GetTable",
           "DeleteTable", "ModifyColumnFamilies", "GenerateConsistencyToken",
           "CheckConsistency", "SnapshotTable", "GetSnapshot",
           "ListSnapshots", "DeleteSnapshot", "DropRowsByPrefix",
           "DropAllRows", "WaitForConsistencyCheck"} |->
     CASE op \in {"DropRowsByPrefix", "DropAllRows"} -> "DropRowRange"
       [] op = "WaitForConsistencyCheck" -> "CheckConsistency"
       [] OTHER -> op]

AsyncTableRpcs ==
  [op \in {"CreateTable", "GetTable", "DeleteTable", "ModifyColumnFamilies",
           "GetSnapshot", "DeleteSnapshot", "DropRowsByPrefix",
           "DropAllRows", "AwaitConsistency"} |->
     CASE op \in {"DropRowsByPrefix", "DropAllRows"} -> "DropRowRange"
       [] op = "AwaitConsistency" -> "GenerateConsistencyToken"
       [] OTHER -> op]

Rpc(op, style) ==
  IF style = "sync"
  THEN IF op \in DOMAIN InstanceRpcs THEN InstanceRpcs[op] ELSE TableRpcs[op]
  ELSE IF op \in DOMAIN AsyncInstanceRpcs THEN AsyncInstanceRpcs[op]
  ELSE AsyncTableRpcs[op]

-----------------------------------------------------------------------------
(* How the application gets a result.  What InstanceAdmin and TableAdmin    *)
(* declare for each operation: "throws", a function that returns the       *)
(* result or throws in the calling thread; "std::future", which gets the   *)
(* result or the exception of a thread of std::async(); "future", that of  *)
(* an asynchronous call.  The other asynchronous calls are not public and  *)
(* take a callback.                                                        *)

InstanceChangeApi == [CreateInstance |-> {"std::future"},
                      CreateCluster |-> {"std::future"},
                      UpdateInstance |-> {"std::future"}]

InstanceApi == [ListInstances |-> {"throws", "future"},
                GetInstance |-> {"throws", "future"},
                DeleteInstance |-> {"throws"}]

ClusterApi == [ListClusters |-> {"throws"}, UpdateCluster |-> {"std::future"},
               DeleteCluster |-> {"throws"}, GetCluster |-> {"throws", "future"}]

AppProfileApi == [CreateAppProfile |-> {"throws"}, GetAppProfile |-> {"throws"},
                  UpdateAppProfile |-> {"std::future"},
                  ListAppProfiles |-> {"throws"}, DeleteAppProfile |-> {"throws"}]

IamApi == [op \in {"GetIamPolicy", "SetIamPolicy", "TestIamPermissions"} |-> {"throws"}]

TableApi == [CreateTable |-> {"throws", "future"}, ListTables |-> {"throws"},
             GetTable |-> {"throws", "future"}, DeleteTable |-> {"throws"}]

TableChangeApi ==
  [op \in {"ModifyColumnFamilies", "DropRowsByPrefix", "DropAllRows",
           "GenerateConsistencyToken", "CheckConsistency"} |-> {"throws"}]

WaitApi == [WaitForConsistencyCheck |-> {"std::future"}]

SnapshotApi == [SnapshotTable |-> {"std::future"}, GetSnapshot |-> {"throws"},
                DeleteSnapshot |-> {"throws"},
                CreateTableFromSnapshot |-> {"std::future"},
                ListSnapshots |-> {"throws"}]

Api ==
  Merged({InstanceChangeApi, InstanceApi, ClusterApi, AppProfileApi,
          IamApi, TableApi, TableChangeApi, WaitApi,
          SnapshotApi})

(* The operations that start a thread, as InstanceAdmin and TableAdmin     *)
(* implement them.                                                         *)
InstanceLaunched == {"CreateInstance", "CreateCluster"}

UpdateLaunched == {"UpdateInstance", "UpdateCluster", "UpdateAppProfile"}

TableLaunched == {"SnapshotTable", "CreateTableFromSnapshot"}

WaitLaunched == {"WaitForConsistencyCheck"}

Launched == InstanceLaunched \cup UpdateLaunched \cup TableLaunched
              \cup WaitLaunched

(* The asynchronous operations that return a future, through               *)
(* AsyncFutureFromCallback.                                                *)
InstanceFutures == {"ListInstances", "GetInstance", "GetCluster"}

TableFutures == {"CreateTable", "GetTable"}

(* What is declared is what is implemented, for every operation.           *)
ASSUME ApiImplemented ==
  /\ DOMAIN Api = DOMAIN Sync
  /\ Launched = {op \in DOMAIN Api : "std::future" \in Api[op]}
  /\ InstanceFutures \cup TableFutures = {op \in DOMAIN Api : "future" \in Api[op]}
  /\ InstanceFutures \cup TableFutures \subseteq DOMAIN Async

Reported(op, style) ==
  IF style = "sync" THEN IF "throws" \in Api[op] THEN "exception" ELSE "std::future"
  ELSE IF op \in DOMAIN Api /\ "future" \in Api[op] THEN "future" ELSE "callback"

=============================================================================
