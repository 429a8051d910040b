--------------------------- MODULE StorageLayers ----------------------------
(***************************************************************************)
(* The layers a call of the storage library goes through, operation by     *)
(* operation: Client -> RetryClient -> LoggingClient -> CurlClient.        *)
(* For Client, how a failure reaches the application: an operation         *)
(* "returns" its StatusOr, "throws" because it takes value() of it, or     *)
(* "pages" through a reader that makes one call per page.  For the two     *)
(* decorators, the operations each overrides; RetryClient gives every one  *)
(* of them its own copy of the policies and the verdict of the idempotency *)
(* policy, LoggingClient passes request and answer through unchanged.      *)
(***************************************************************************)
EXTENDS StorageService

-----------------------------------------------------------------------------
(* Client.                                                                 *)

ClientBuckets == [
  ListBuckets |-> "pages", CreateBucket |-> "returns"]

ClientBucketChanges == [
  GetBucketMetadata |-> "returns", DeleteBucket |-> "returns",
  UpdateBucket |-> "returns", PatchBucket |-> "returns"]

ClientBucketPolicy == [
  GetBucketIamPolicy |-> "throws", SetBucketIamPolicy |-> "throws",
  TestBucketIamPermissions |-> "throws"]

ClientLock == [LockBucketRetentionPolicy |-> "throws"]

ClientObjects == [
  InsertObjectMedia |-> "returns", CopyObject |-> "throws",
  GetObjectMetadata |-> "throws", ListObjects |-> "pages"]

ClientObjectStreams == [ReadObject |-> "throws", WriteObject |-> "throws"]

ClientDeleteObject == [DeleteObject |-> "throws"]

ClientObjectChanges == [
  UpdateObject |-> "throws", PatchObject |-> "throws",
  ComposeObject |-> "throws"]

(* RewriteObject returns an ObjectRewriter, which makes the calls.         *)
ClientRewrite == [RewriteObject |-> "pages"]

ClientBucketAcl == [
  ListBucketAcl |-> "returns", CreateBucketAcl |-> "returns",
  DeleteBucketAcl |-> "returns", GetBucketAcl |-> "returns"]

ClientBucketAclChanges == [
  UpdateBucketAcl |-> "returns", PatchBucketAcl |-> "returns"]

ClientObjectAcl == [
  ListObjectAcl |-> "returns", CreateObjectAcl |-> "returns",
  DeleteObjectAcl |-> "returns", GetObjectAcl |-> "returns"]

ClientObjectAclChanges == [
  UpdateObjectAcl |-> "returns", PatchObjectAcl |-> "returns"]

ClientDefaultObjectAcl == [
  ListDefaultObjectAcl |-> "returns", CreateDefaultObjectAcl |-> "returns",
  DeleteDefaultObjectAcl |-> "returns", GetDefaultObjectAcl |-> "returns"]

ClientDefaultObjectAclChanges == [
  UpdateDefaultObjectAcl |-> "returns", PatchDefaultObjectAcl |-> "returns"]

ClientServiceAccount == [GetServiceAccount |-> "throws"]

ClientNotifications == [
  ListNotifications |-> "returns", CreateNotification |-> "returns",
  GetNotification |-> "returns", DeleteNotification |-> "returns"]

Reports ==
  ClientBuckets @@ ClientBucketChanges @@ ClientBucketPolicy @@ ClientLock @@
  ClientObjects @@ ClientObjectStreams @@ ClientDeleteObject @@
  ClientObjectChanges @@ ClientRewrite @@ ClientBucketAcl @@
  ClientBucketAclChanges @@ ClientObjectAcl @@ ClientObjectAclChanges @@
  ClientDefaultObjectAcl @@ ClientDefaultObjectAclChanges @@
  ClientServiceAccount @@ ClientNotifications

-----------------------------------------------------------------------------
(* RetryClient.                                                            *)

RetriedBuckets == DOMAIN BucketRequests \cup DOMAIN BucketPolicyRequests

RetriedObjects ==
  {"InsertObjectMedia", "ReadObject", "WriteObject"}
    \cup DOMAIN ObjectRequests \cup DOMAIN ObjectChangeRequests

RetriedBucketAcls == DOMAIN BucketAclRequests \cup {"ListObjectAcl"}

RetriedObjectAcls == DOMAIN ObjectAclRequests \ {"ListObjectAcl"}

RetriedDefaultObjectAcls == DOMAIN DefaultObjectAclRequests

RetriedNotifications == DOMAIN NotificationRequests

Retried == RetriedBuckets \cup RetriedObjects \cup RetriedBucketAcls
             \cup RetriedObjectAcls \cup RetriedDefaultObjectAcls
             \cup RetriedNotifications

-----------------------------------------------------------------------------
(* LoggingClient.                                                          *)

LoggedBuckets == DOMAIN BucketRequests \cup DOMAIN BucketPolicyRequests

LoggedObjects ==
  {"InsertObjectMedia"} \cup DOMAIN ObjectRequests
    \cup DOMAIN ObjectChangeRequests

LoggedAcls == DOMAIN BucketAclRequests \cup DOMAIN ObjectAclRequests
                \cup DOMAIN DefaultObjectAclRequests

LoggedNotifications == DOMAIN NotificationRequests

(* The answers of ReadObject and WriteObject are streams; they are not     *)
(* logged.                                                                 *)
LoggedRequestOnly == {"ReadObject", "WriteObject"}

Logged == LoggedBuckets \cup LoggedObjects \cup LoggedAcls
            \cup LoggedNotifications \cup LoggedRequestOnly

-----------------------------------------------------------------------------
(* CurlClient: from the answer to the request to the result of the call.   *)
(* Deletions and the lock have nothing to parse; every other answer is     *)
(* parsed, and text that is not a JSON object is kInvalidArgument.         *)

ReturnsEmpty(op) ==
  Request(op, {})[1] = "DELETE" \/ op = "LockBucketRetentionPolicy"

Parsed(op, code, garbled) ==
  IF AsStatus(code) = "kOk" /\ garbled /\ ~ReturnsEmpty(op)
  THEN "kInvalidArgument" ELSE AsStatus(code)

(* What the authorization header may fail with: a refresh of the           *)
(* credentials is itself an HTTP request.  One of each kind.               *)
AuthFailures == {"kUnauthenticated", "kUnavailable"}

=============================================================================
