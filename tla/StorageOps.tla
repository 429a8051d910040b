----------------------------- MODULE StorageOps -----------------------------
(***************************************************************************)
(* The operations of the storage library, as the layers of its stack see   *)
(* them: what each request class accepts, which HTTP request CurlClient    *)
(* makes of it, what the idempotency policies say of it, and how an answer *)
(* becomes a Status.  Names, payloads and URLs are left out: a request is  *)
(* the operation, the resource it names and the options that change what   *)
(* the service or the client does.                                         *)
(***************************************************************************)
EXTENDS Naturals, FiniteSets, TLC

-----------------------------------------------------------------------------
(* The requests CurlClient sends: <<HTTP verb, resource>>.                 *)

BucketRequests == [
  ListBuckets               |-> <<"GET", "project">>,
  CreateBucket              |-> <<"POST", "project">>,
  GetBucketMetadata         |-> <<"GET", "bucket">>,
  DeleteBucket              |-> <<"DELETE", "bucket">>,
  UpdateBucket              |-> <<"PUT", "bucket">>,
  PatchBucket               |-> <<"PATCH", "bucket">>]

BucketPolicyRequests == [
  GetBucketIamPolicy        |-> <<"GET", "iam">>,
  SetBucketIamPolicy        |-> <<"PUT", "iam">>,
  TestBucketIamPermissions  |-> <<"GET", "iam">>,
  LockBucketRetentionPolicy |-> <<"POST", "lock">>]

ObjectRequests == [
  CopyObject                |-> <<"POST", "copyTo">>,
  GetObjectMetadata         |-> <<"GET", "object">>,
  ListObjects               |-> <<"GET", "objects">>,
  DeleteObject              |-> <<"DELETE", "object">>,
  UpdateObject              |-> <<"PUT", "object">>]

ObjectChangeRequests == [
  PatchObject               |-> <<"PATCH", "object">>,
  ComposeObject             |-> <<"POST", "compose">>,
  RewriteObject             |-> <<"POST", "rewriteTo">>]

BucketAclRequests == [
  ListBucketAcl             |-> <<"GET", "bucketAcl">>,
  GetBucketAcl              |-> <<"GET", "bucketAclEntry">>,
  CreateBucketAcl           |-> <<"POST", "bucketAcl">>,
  DeleteBucketAcl           |-> <<"DELETE", "bucketAclEntry">>,
  UpdateBucketAcl           |-> <<"PUT", "bucketAclEntry">>,
  PatchBucketAcl            |-> <<"PATCH", "bucketAclEntry">>]

ObjectAclRequests == [
  ListObjectAcl             |-> <<"GET", "objectAcl">>,
  CreateObjectAcl           |-> <<"POST", "objectAcl">>,
  DeleteObjectAcl           |-> <<"DELETE", "objectAclEntry">>,
  GetObjectAcl              |-> <<"GET", "objectAclEntry">>,
  UpdateObjectAcl           |-> <<"PUT", "objectAclEntry">>,
  PatchObjectAcl            |-> <<"PATCH", "objectAclEntry">>]

DefaultObjectAclRequests == [
  ListDefaultObjectAcl      |-> <<"GET", "defaultAcl">>,
  CreateDefaultObjectAcl    |-> <<"POST", "defaultAcl">>,
  DeleteDefaultObjectAcl    |-> <<"DELETE", "defaultAclEntry">>,
  GetDefaultObjectAcl       |-> <<"GET", "defaultAclEntry">>,
  UpdateDefaultObjectAcl    |-> <<"PUT", "defaultAclEntry">>,
  PatchDefaultObjectAcl     |-> <<"PATCH", "defaultAclEntry">>]

NotificationRequests == [
  GetServiceAccount         |-> <<"GET", "project">>,
  ListNotifications         |-> <<"GET", "notifications">>,
  CreateNotification        |-> <<"POST", "notifications">>,
  GetNotification           |-> <<"GET", "notification">>,
  DeleteNotification        |-> <<"DELETE", "notification">>]

(* InsertObjectMedia chooses between the multipart upload (an object       *)
(* resource, or hashes to send along), the XML API and a simple upload.    *)
InsertObjectMediaRequest(o) ==
  IF "WithObjectMetadata" \in o THEN <<"POST", "multipart">>
  ELSE IF /\ {"IfMetagenerationNotMatch", "IfGenerationNotMatch"} \cap o = {}
          /\ "EmptyFields" \in o
       THEN <<"PUT", "xml">>
  ELSE IF {"DisableMD5Hash", "DisableCrc32cChecksum"} \cap o = {}
       THEN <<"POST", "multipart">>
  ELSE <<"POST", "media">>

(* ReadObject prefers the XML API, which has no NotMatch preconditions.    *)
ReadObjectRequest(o) ==
  IF {"IfMetagenerationNotMatch", "IfGenerationNotMatch"} \cap o = {}
  THEN <<"GET", "xml">> ELSE <<"GET", "object">>

Sending(op) ==
  CASE op \in DOMAIN BucketRequests           -> BucketRequests[op]
    [] op \in DOMAIN BucketPolicyRequests     -> BucketPolicyRequests[op]
    [] op \in DOMAIN ObjectRequests           -> ObjectRequests[op]
    [] op \in DOMAIN ObjectChangeRequests     -> ObjectChangeRequests[op]
    [] op \in DOMAIN BucketAclRequests        -> BucketAclRequests[op]
    [] op \in DOMAIN ObjectAclRequests        -> ObjectAclRequests[op]
    [] op \in DOMAIN DefaultObjectAclRequests -> DefaultObjectAclRequests[op]
    [] OTHER                                 -> NotificationRequests[op]

(* The request of a whole call.                                            *)
Request(op, o) ==
  CASE op = "InsertObjectMedia" -> InsertObjectMediaRequest(o)
    [] op = "ReadObject"        -> ReadObjectRequest(o)
    [] OTHER                    -> Sending(op)

(* ReadObject and WriteObject only open a stream; the streams are modelled *)
(* elsewhere.                                                              *)
Ops ==
  {"InsertObjectMedia"} \cup DOMAIN BucketRequests
    \cup DOMAIN BucketPolicyRequests \cup DOMAIN ObjectRequests
    \cup DOMAIN ObjectChangeRequests \cup DOMAIN BucketAclRequests
    \cup DOMAIN ObjectAclRequests \cup DOMAIN DefaultObjectAclRequests
    \cup DOMAIN NotificationRequests

-----------------------------------------------------------------------------
(* The options a request class accepts, of the ones that change what the   *)
(* service or the client does.  Every request also accepts IfMatchEtag.    *)

GenericOptions == {"IfMatchEtag"}
MetagenerationOptions == {"IfMetagenerationMatch", "IfMetagenerationNotMatch"}
GenerationOptions == {"IfGenerationMatch", "IfGenerationNotMatch"}

BucketOptions == [
  ListBuckets       |-> {},
  CreateBucket      |-> {},
  GetBucketMetadata |-> MetagenerationOptions,
  DeleteBucket      |-> MetagenerationOptions,
  UpdateBucket      |-> MetagenerationOptions,
  PatchBucket       |-> MetagenerationOptions]

(* LockBucketRetentionPolicy takes the metageneration as an argument.      *)
BucketPolicyOptions == [
  GetBucketIamPolicy        |-> {},
  SetBucketIamPolicy        |-> {},
  TestBucketIamPermissions  |-> {},
  LockBucketRetentionPolicy |-> {}]

ObjectOptions == [
  ListObjects       |-> {},
  GetObjectMetadata |-> {"Generation"} \cup GenerationOptions
                          \cup MetagenerationOptions,
  InsertObjectMedia |-> {"DisableCrc32cChecksum", "DisableMD5Hash",
                         "WithObjectMetadata", "EmptyFields"}
                          \cup GenerationOptions \cup MetagenerationOptions,
  CopyObject        |-> GenerationOptions \cup MetagenerationOptions]

ObjectChangeOptions == [
  ReadObject        |-> {"Generation"} \cup GenerationOptions
                          \cup MetagenerationOptions,
  DeleteObject      |-> {"Generation"} \cup GenerationOptions
                          \cup MetagenerationOptions,
  UpdateObject      |-> {"Generation"} \cup GenerationOptions
                          \cup MetagenerationOptions,
  ComposeObject     |-> {"IfGenerationMatch", "IfMetagenerationMatch"},
  PatchObject       |-> MetagenerationOptions,
  RewriteObject     |-> GenerationOptions \cup MetagenerationOptions]

BucketAclOptions == [op \in DOMAIN BucketAclRequests |-> {}]

ObjectAclOptions == [op \in DOMAIN ObjectAclRequests |-> {"Generation"}]

DefaultObjectAclOptions == [op \in DOMAIN DefaultObjectAclRequests |-> {}]

NotificationOptions == [op \in DOMAIN NotificationRequests |-> {}]

OwnOptions(op) ==
  CASE op \in DOMAIN BucketOptions           -> BucketOptions[op]
    [] op \in DOMAIN BucketPolicyOptions     -> BucketPolicyOptions[op]
    [] op \in DOMAIN ObjectOptions           -> ObjectOptions[op]
    [] op \in DOMAIN ObjectChangeOptions     -> ObjectChangeOptions[op]
    [] op \in DOMAIN BucketAclOptions        -> BucketAclOptions[op]
    [] op \in DOMAIN ObjectAclOptions        -> ObjectAclOptions[op]
    [] op \in DOMAIN DefaultObjectAclOptions -> DefaultObjectAclOptions[op]
    [] OTHER                                -> NotificationOptions[op]

Accepts(op) == GenericOptions \cup OwnOptions(op)

(* The preconditions that reach the service.  The JSON API takes every     *)
(* option as a query parameter or header; the requests of the XML API copy *)
(* the options one by one, and name the metageneration header              *)
(* x-goog-if-meta-generation-match, which the service does not know.       *)
\* mutant: the generation precondition is not added to the request
JsonWire_NoGeneration(o) == o \ {"IfGenerationMatch"}
JsonWire(o) == o

InsertObjectMediaXmlWire(o) == o \ {"IfMetagenerationMatch"}

ReadObjectXmlWire(o) == o \ {"IfMetagenerationMatch"}

LockWire(o) == o \cup {"IfMetagenerationMatch"}

Wire(op, o) ==
  CASE Request(op, o) = <<"PUT", "xml">> -> InsertObjectMediaXmlWire(o)
    [] Request(op, o) = <<"GET", "xml">> -> ReadObjectXmlWire(o)
    [] Request(op, o) = <<"POST", "lock">> -> LockWire(o)
    [] OTHER -> JsonWire(o)

-----------------------------------------------------------------------------
(* The idempotency policies.                                               *)

AlwaysRetry(op, o) == TRUE

StrictBuckets(op, o) ==
  CASE op \in {"DeleteBucket", "UpdateBucket", "PatchBucket"} ->
              {"IfMatchEtag", "IfMetagenerationMatch"} \cap o # {}
    [] op = "SetBucketIamPolicy" -> "IfMatchEtag" \in o
    [] OTHER -> TRUE

\* mutant: uploads are taken for idempotent
StrictObjects_Uploads(op, o) ==
  CASE op \in {"UpdateObject", "PatchObject"} ->
              {"IfMatchEtag", "IfMetagenerationMatch"} \cap o # {}
    [] OTHER -> TRUE
StrictObjects(op, o) ==
  CASE op \in {"InsertObjectMedia", "CopyObject", "ComposeObject",
               "RewriteObject"} -> "IfGenerationMatch" \in o
    [] op = "DeleteObject" ->
              {"Generation", "IfGenerationMatch"} \cap o # {}
    [] op \in {"UpdateObject", "PatchObject"} ->
              {"IfMatchEtag", "IfMetagenerationMatch"} \cap o # {}
    [] OTHER -> TRUE

StrictAcls(op, o) ==
  op \in {"ListBucketAcl", "GetBucketAcl", "ListObjectAcl", "GetObjectAcl",
          "ListDefaultObjectAcl", "GetDefaultObjectAcl"} \/ "IfMatchEtag" \in o

(* Creating a notification is taken for idempotent.                        *)
StrictNotifications(op, o) == TRUE

Strict(op, o) ==
  CASE op \in DOMAIN BucketRequests \cup DOMAIN BucketPolicyRequests ->
              StrictBuckets(op, o)
    [] op \in DOMAIN NotificationRequests -> StrictNotifications(op, o)
    [] op \in DOMAIN BucketAclRequests \cup DOMAIN ObjectAclRequests
               \cup DOMAIN DefaultObjectAclRequests -> StrictAcls(op, o)
    [] OTHER -> StrictObjects(op, o)

-----------------------------------------------------------------------------
(* From an HTTP answer to a Status, and what the retry policy makes of it. *)
(* 0 stands for a request curl could not complete.                         *)

AsStatus(code) ==
  CASE code = 0                -> "kUnknown"
    [] code < 300              -> "kOk"
    [] code \in {308, 412}     -> "kFailedPrecondition"
    [] code < 400              -> "kUnknown"
    [] code = 401              -> "kUnauthenticated"
    [] code \in {403, 405}     -> "kPermissionDenied"
    [] code \in {404, 410}     -> "kNotFound"
    [] code = 409              -> "kAborted"
    [] code \in {413, 416}     -> "kOutOfRange"
    [] code \in {429, 503}     -> "kUnavailable"
    [] code < 500              -> "kInvalidArgument"
    [] code < 600              -> "kInternal"
    [] OTHER                   -> "kUnknown"

IsPermanentFailure(status) ==
  status \notin {"kDeadlineExceeded", "kInternal", "kUnavailable"}

=============================================================================
