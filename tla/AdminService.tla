---------------------------- MODULE AdminService ----------------------------
(***************************************************************************)
(* The administration service, as the emulator of the repository           *)
(* implements it for instances, clusters, application profiles and IAM     *)
(* policies.  There is no emulator for tables and snapshots: their RPCs    *)
(* are modelled from what TableAdmin expects of them.                      *)
(*                                                                         *)
(* There is one resource of each kind.  at[r] says who wrote it last, or   *)
(* that it is absent; an RPC is made by a writer w.                        *)
(***************************************************************************)
EXTENDS AdminOps

Absent == "absent"

Resources == {"instance", "cluster", "profile", "policy", "table", "families",
              "rows", "snapshot"}

Done(at, code) == [at |-> at, code |-> code]

Present(at, r) == at[r] # Absent

(* The map operations of the emulator.                                     *)
Emplace(at, r, w) ==
  IF Present(at, r) THEN Done(at, "ALREADY_EXISTS")
  ELSE Done([at EXCEPT ![r] = w], "OK")

Find(at, r) == IF Present(at, r) THEN Done(at, "OK") ELSE Done(at, "NOT_FOUND")

Store(at, r, w) ==
  IF Present(at, r) THEN Done([at EXCEPT ![r] = w], "OK")
  ELSE Done(at, "NOT_FOUND")

Erase(at, r) ==
  IF Present(at, r) THEN Done([at EXCEPT ![r] = Absent], "OK")
  ELSE Done(at, "NOT_FOUND")

-----------------------------------------------------------------------------
(* Instances.                                                              *)

(* The clusters named in the request are added unless they exist.          *)
CreateInstance(at, w) ==
  IF Present(at, "instance") THEN Done(at, "ALREADY_EXISTS")
  ELSE Done([Emplace(at, "cluster", w).at EXCEPT !["instance"] = w], "OK")

GetInstance(at) == Find(at, "instance")

ListInstances(at) == Done(at, "OK")

PartialUpdateInstance(at, w) == Store(at, "instance", w)

(* The clusters of the instance go with it.                                *)
DeleteInstance(at) ==
  IF Present(at, "instance")
  THEN Done([at EXCEPT !["instance"] = Absent, !["cluster"] = Absent], "OK")
  ELSE Done(at, "NOT_FOUND")

-----------------------------------------------------------------------------
(* Clusters.  Creating one does not look for its instance.                 *)

CreateCluster(at, w) == Emplace(at, "cluster", w)

GetCluster(at) == Find(at, "cluster")

ListClusters(at) == Done(at, "OK")

UpdateCluster(at, w) == Store(at, "cluster", w)

DeleteCluster(at) == Erase(at, "cluster")

-----------------------------------------------------------------------------
(* Application profiles and IAM policies.  SetIamPolicy ignores the etag.  *)

CreateAppProfile(at, w) == Emplace(at, "profile", w)

GetAppProfile(at) == Find(at, "profile")

ListAppProfiles(at) == Done(at, "OK")

UpdateAppProfile(at, w) == Store(at, "profile", w)

DeleteAppProfile(at) == Erase(at, "profile")

GetIamPolicy(at) == Done(at, "OK")

SetIamPolicy(at, w) == Done([at EXCEPT !["policy"] = w], "OK")

TestIamPermissions(at) == Find(at, "instance")

-----------------------------------------------------------------------------
(* Tables and snapshots.                                                   *)

NewTable(at, w) == [at EXCEPT !["table"] = w, !["families"] = w, !["rows"] = Absent]

CreateTable(at, w) ==
  IF Present(at, "table") THEN Done(at, "ALREADY_EXISTS")
  ELSE Done(NewTable(at, w), "OK")

DeleteTable(at) ==
  IF Present(at, "table")
  THEN Done([at EXCEPT !["table"] = Absent, !["families"] = Absent,
                       !["rows"] = Absent], "OK")
  ELSE Done(at, "NOT_FOUND")

(* A modification creates a family: the second time it exists.             *)
ModifyColumnFamilies(at, w) ==
  IF ~Present(at, "table") THEN Done(at, "NOT_FOUND")
  ELSE IF at["families"] = w THEN Done(at, "ALREADY_EXISTS")
  ELSE Done([at EXCEPT !["families"] = w], "OK")

DropRowRange(at) ==
  IF Present(at, "table") THEN Done([at EXCEPT !["rows"] = Absent], "OK")
  ELSE Done(at, "NOT_FOUND")

SnapshotTable(at, w) ==
  IF Present(at, "table") THEN Emplace(at, "snapshot", w)
  ELSE Done(at, "NOT_FOUND")

CreateTableFromSnapshot(at, w) ==
  IF Present(at, "snapshot") THEN CreateTable(at, w) ELSE Done(at, "NOT_FOUND")

-----------------------------------------------------------------------------
HandleInstance(at, rpc, w) ==
  CASE rpc = "CreateInstance"        -> CreateInstance(at, w)
    [] rpc = "GetInstance"           -> GetInstance(at)
    [] rpc = "ListInstances"         -> ListInstances(at)
    [] rpc = "PartialUpdateInstance" -> PartialUpdateInstance(at, w)
    [] rpc = "DeleteInstance"        -> DeleteInstance(at)
    [] rpc = "CreateCluster"         -> CreateCluster(at, w)
    [] rpc = "GetCluster"            -> GetCluster(at)
    [] rpc = "ListClusters"          -> ListClusters(at)
    [] rpc = "UpdateCluster"         -> UpdateCluster(at, w)
    [] rpc = "DeleteCluster"         -> DeleteCluster(at)
    [] rpc = "CreateAppProfile"      -> CreateAppProfile(at, w)
    [] rpc = "GetAppProfile"         -> GetAppProfile(at)
    [] rpc = "ListAppProfiles"       -> ListAppProfiles(at)
    [] rpc = "UpdateAppProfile"      -> UpdateAppProfile(at, w)
    [] rpc = "DeleteAppProfile"      -> DeleteAppProfile(at)
    [] rpc = "GetIamPolicy"          -> GetIamPolicy(at)
    [] rpc = "SetIamPolicy"          -> SetIamPolicy(at, w)
    [] rpc = "TestIamPermissions"    -> TestIamPermissions(at)

HandleTable(at, rpc, w) ==
  CASE rpc = "CreateTable"             -> CreateTable(at, w)
    [] rpc = "DeleteTable"             -> DeleteTable(at)
    [] rpc = "ModifyColumnFamilies"    -> ModifyColumnFamilies(at, w)
    [] rpc = "DropRowRange"            -> DropRowRange(at)
    [] rpc = "SnapshotTable"           -> SnapshotTable(at, w)
    [] rpc = "CreateTableFromSnapshot" -> CreateTableFromSnapshot(at, w)
    [] rpc = "DeleteSnapshot"          -> Erase(at, "snapshot")
    [] rpc = "GetSnapshot"             -> Find(at, "snapshot")
    [] rpc \in {"ListTables", "ListSnapshots"} -> Done(at, "OK")
    [] rpc \in {"GetTable", "GenerateConsistencyToken", "CheckConsistency"} ->
         Find(at, "table")

Handle(at, rpc, w) ==
  IF rpc \in {InstanceRpcs[op] : op \in DOMAIN InstanceRpcs}
  THEN HandleInstance(at, rpc, w) ELSE HandleTable(at, rpc, w)

=============================================================================
