-------------------------- MODULE StorageMetadata --------------------------
(***************************************************************************)
(* The metadata of a bucket, an object or a notification, read, changed    *)
(* and written back by several clients.                                    *)
(* ParseFromJson turns the JSON document of the service into a value with  *)
(* a default for every absent field; ToJsonString and its variants turn a  *)
(* value into the document of a creation or a full update; the Patch*      *)
(* requests compare two values and send the difference.  A document is a   *)
(* function on the fields it has, a value one on all fields, in which 0    *)
(* stands for the empty string, list or map, for false and for an          *)
(* optional without a value.                                               *)
(***************************************************************************)
EXTENDS Integers

CONSTANTS Clients,   \* the applications
          Kinds      \* the kinds of resource they share

ASSUME KindsAssumption ==
  Kinds \subseteq {"bucket", "object", "notification"}

VARIABLES kind,      \* the kind of the resource
          resource,  \* the resource at the service
          app        \* app[c]: what client c is doing with it

metadataVars == <<kind, resource, app>>

Null == -1           \* JSON's null

-----------------------------------------------------------------------------
(* The fields.  A key of a map is a field of its own.                      *)

BucketLists == {"acl", "cors", "defaultObjectAcl"}
BucketStructs == {"billing", "encryption", "logging", "retentionPolicy",
                  "versioning", "website"}
IamConfiguration == "iamConfiguration"
Lifecycle == "lifecycle"
BucketFields ==
  BucketLists \cup BucketStructs \cup {IamConfiguration, Lifecycle,
    "defaultEventBasedHold", "labels.a", "labels.b", "name", "storageClass"}

ObjectFields ==
  {"acl", "cacheControl", "contentDisposition", "contentEncoding",
   "contentLanguage", "contentType", "eventBasedHold", "metadata.a",
   "metadata.b", "temporaryHold"}

NotificationFields ==
  {"custom_attributes.a", "custom_attributes.b", "event_types",
   "object_name_prefix", "payload_format", "topic"}

Fields(k) == CASE k = "bucket" -> BucketFields
               [] k = "object" -> ObjectFields
               [] OTHER        -> NotificationFields

(* Fields that are optionals of something that can itself be empty: 1 is   *)
(* the value that is there and has nothing in it.                          *)
Hollow == {IamConfiguration, Lifecycle}

MapKeys(k) == CASE k = "bucket" -> {"labels.a", "labels.b"}
                [] k = "object" -> {"metadata.a", "metadata.b"}
                [] OTHER        -> {"custom_attributes.a",
                                    "custom_attributes.b"}

Values == 0..2

-----------------------------------------------------------------------------
(* From a document to a value.                                             *)

ParseField(json, f) == IF f \in DOMAIN json THEN json[f] ELSE 0

ParseBucket(json) == [f \in BucketFields |-> ParseField(json, f)]
ParseObject(json) == [f \in ObjectFields |-> ParseField(json, f)]
ParseNotification(json) == [f \in NotificationFields |-> ParseField(json, f)]

ParseFromJson(k, json) == CASE k = "bucket" -> ParseBucket(json)
                            [] k = "object" -> ParseObject(json)
                            [] OTHER        -> ParseNotification(json)

(* From a value to the document of a creation or a full update: booleans   *)
(* and the required fields of a notification are always there, the others  *)
(* only if they are not empty.                                             *)
Written(v, always) == [f \in {g \in DOMAIN v : v[g] # 0 \/ g \in always} |-> v[f]]

BucketToJson(v) == Written(v, {"defaultEventBasedHold"})

(* JsonForUpdate has eventBasedHold and not temporaryHold.                 *)
ObjectToJson(v) ==
  LET sent == [f \in ObjectFields \ {"temporaryHold"} |-> v[f]]
  IN  Written(sent, {"eventBasedHold"})

NotificationToJson(v) == Written(v, {"topic", "payload_format"})

ToJson(k, v) == CASE k = "bucket" -> BucketToJson(v)
                  [] k = "object" -> ObjectToJson(v)
                  [] OTHER        -> NotificationToJson(v)

-----------------------------------------------------------------------------
(* Patches: a document in which null asks the service to erase a field.    *)

Booleans == {"defaultEventBasedHold", "eventBasedHold", "temporaryHold"}

(* The Set and Reset functions of the patch builders.  An empty string or  *)
(* list erases the field, an optional is set or reset, a boolean is always *)
(* set; a lifecycle without rules is reset, and so is an IAM configuration *)
(* without a policy, whose subpatch is JSON's null.                        *)
SetString(x) == IF x = 0 THEN Null ELSE x
SetList(x) == IF x = 0 THEN Null ELSE x
SetStruct(x) == IF x = 0 THEN Null ELSE x
SetKey(x) == IF x = 0 THEN Null ELSE x
SetBool(x) == x
SetLifecycle(x) == IF x \in {0, 1} THEN Null ELSE x
SetIamConfiguration(x) == IF x \in {0, 1} THEN Null ELSE x

SetField(f, x) ==
  CASE f \in Booleans         -> SetBool(x)
    [] f = Lifecycle          -> SetLifecycle(x)
    [] f = IamConfiguration   -> SetIamConfiguration(x)
    [] f \in BucketLists      -> SetList(x)
    [] f \in BucketStructs    -> SetStruct(x)
    [] f \in {"labels.a", "labels.b", "metadata.a", "metadata.b"} -> SetKey(x)
    [] OTHER                  -> SetString(x)

(* The keys of a map in the patch: each one that changed or, when the      *)
(* updated map is empty, the map as a whole.                               *)
\* mutant: every key of the map is sent, whether it changed or not
MapPatch_All(k, original, updated) == MapKeys(k)
MapPatch(k, original, updated) ==
  LET changed == {f \in MapKeys(k) : original[f] # updated[f]}
      cleared == changed # {} /\ \A f \in MapKeys(k) : updated[f] = 0
  IN  IF cleared THEN MapKeys(k) ELSE changed

(* PatchBucketRequest and its like: compare every modifiable field.        *)
FieldsPatch(k, original, updated) ==
  {f \in Fields(k) \ MapKeys(k) : original[f] # updated[f]}

PatchRequest(k, original, updated) ==
  [f \in FieldsPatch(k, original, updated) \cup MapPatch(k, original, updated) |->
     SetField(f, updated[f])]

-----------------------------------------------------------------------------
(* The service.                                                            *)

BucketWriteable ==
  BucketLists \cup BucketStructs \cup
    {Lifecycle, "labels.a", "labels.b", "storageClass"}

ObjectWriteable == ObjectFields

Writeable(k) == CASE k = "bucket" -> BucketWriteable
                  [] k = "object" -> ObjectWriteable
                  [] OTHER        -> NotificationFields

RemoveNonWriteable(k, json) ==
  [f \in DOMAIN json \cap Writeable(k) |-> json[f]]

(* json_api_patch                                                          *)
ApplyPatch(doc, patch) ==
  LET kept == DOMAIN doc \ DOMAIN patch
      set  == {f \in DOMAIN patch : patch[f] # Null}
  IN  [f \in kept \cup set |-> IF f \in set THEN patch[f] ELSE doc[f]]

(* An update merges the document into the one it has: a map that is there  *)
(* replaces the whole map, and what is not there stays.                    *)
UpdateFromMetadata(k, doc, json) ==
  LET kept == IF MapKeys(k) \cap DOMAIN json # {}
              THEN DOMAIN doc \ MapKeys(k) ELSE DOMAIN doc
  IN  [f \in kept \cup DOMAIN json |-> IF f \in DOMAIN json THEN json[f] ELSE doc[f]]

-----------------------------------------------------------------------------
NothingRead ==
  [pc |-> "idle", original |-> <<>>, updated |-> <<>>, meta |-> 0,
   how |-> "none", edit |-> "none", done |-> 0]

(* No resource yet, a bare one, one with a value in every field, or one    *)
(* with a single key in its map.                                           *)
StartingResources(k) ==
  {[exists |-> FALSE, doc |-> <<>>, meta |-> 0]} \cup
  {[exists |-> TRUE, doc |-> [f \in fs |-> 1], meta |-> 1] :
     fs \in {{}, Writeable(k), Writeable(k) \ {"labels.b", "metadata.b"}}}

MetadataInit ==
  /\ kind \in Kinds
  /\ resource \in StartingResources(kind)
  /\ app = [c \in Clients |-> NothingRead]

(* GetBucketMetadata, GetObjectMetadata and the like.                      *)
Read(c) ==
  /\ app[c].pc = "idle" /\ resource.exists
  /\ LET v == ParseFromJson(kind, resource.doc)
     IN  app' = [app EXCEPT ![c].pc = "read", ![c].original = v,
                            ![c].updated = v, ![c].meta = resource.meta]
  /\ UNCHANGED <<kind, resource>>

(* The application changes one field or one key of a map.                  *)
Edit(c) ==
  /\ app[c].pc = "read"
  /\ \E f \in Fields(kind) : \E x \in Values \ {app[c].original[f]} :
       /\ f \in Booleans => x < 2
       /\ app' = [app EXCEPT ![c].pc = "edited", ![c].updated[f] = x,
                             ![c].edit = f]
  /\ UNCHANGED <<kind, resource>>

Changed(doc) ==
  resource' = [exists |-> TRUE, doc |-> doc, meta |-> resource.meta + 1]

(* The service has carried out the write.                                  *)
Finish(c, how) ==
  app' = [app EXCEPT ![c].pc = "written", ![c].how = how,
                     ![c].done = resource'.meta]

(* IfMetagenerationMatch with the metageneration that was read.            *)
\* mutant: the precondition is not sent
Allowed_Always(c, guarded) == TRUE
Allowed(c, guarded) == guarded => app[c].meta = resource.meta

Refused(c) ==
  /\ app' = [app EXCEPT ![c].pc = "refused"]
  /\ UNCHANGED <<kind, resource>>

(* PatchBucket and PatchObject from two values.                            *)
Patch(c) ==
  /\ app[c].pc = "edited" /\ kind # "notification"
  /\ \E guarded \in BOOLEAN :
       IF ~Allowed(c, guarded) THEN Refused(c)
       ELSE /\ Changed(ApplyPatch(resource.doc, RemoveNonWriteable(kind,
                 PatchRequest(kind, app[c].original, app[c].updated))))
            /\ Finish(c, "patch")
            /\ UNCHANGED kind

(* UpdateBucket and UpdateObject.                                          *)
Update(c) ==
  /\ app[c].pc = "edited" /\ kind # "notification"
  /\ \E guarded \in BOOLEAN :
       IF ~Allowed(c, guarded) THEN Refused(c)
       ELSE /\ Changed(UpdateFromMetadata(kind, resource.doc,
                 RemoveNonWriteable(kind, ToJson(kind, app[c].updated))))
            /\ Finish(c, IF guarded THEN "guarded" ELSE "update")
            /\ UNCHANGED kind

(* A client that wrote without reading.                                    *)
Wrote(original, updated, how, f, meta) ==
  [pc |-> "written", original |-> original, updated |-> updated, meta |-> 0,
   how |-> how, edit |-> f, done |-> meta]

(* A patch made with a builder, without reading the metadata first.        *)
PatchWithBuilder(c) ==
  /\ app[c].pc = "idle" /\ resource.exists /\ kind # "notification"
  /\ \E f \in Fields(kind) : \E x \in Values :
       /\ f \in Booleans => x < 2
       /\ Changed(ApplyPatch(resource.doc,
            RemoveNonWriteable(kind, [g \in {f} |-> SetField(f, x)])))
       /\ app' = [app EXCEPT ![c] =
            Wrote([g \in Fields(kind) |-> IF g = f THEN Null ELSE 0],
                  [g \in Fields(kind) |-> IF g = f THEN x ELSE 0],
                  "patch", f, resource'.meta)]
       /\ UNCHANGED kind

(* CreateBucket, InsertObject with WithObjectMetadata, CreateNotification  *)
(* with one field set.                                                     *)
Create(c) ==
  /\ app[c].pc = "idle" /\ ~resource.exists
  /\ \E f \in Fields(kind) : \E x \in Values :
       LET v == [g \in Fields(kind) |-> IF g = f THEN x ELSE 0]
       IN  /\ f \in Booleans => x < 2
           /\ Changed(RemoveNonWriteable(kind, ToJson(kind, v)))
           /\ app' = [app EXCEPT ![c] =
                Wrote([g \in Fields(kind) |-> 0], v, "insert", f,
                      resource'.meta)]
           /\ UNCHANGED kind

MetadataNext ==
  \E c \in Clients :
    \/ Read(c) \/ Edit(c) \/ Patch(c) \/ Update(c)
    \/ PatchWithBuilder(c) \/ Create(c)

MetadataSpec == MetadataInit /\ [][MetadataNext]_metadataVars

-----------------------------------------------------------------------------
(* The fields a write of client c can have changed on purpose: the one it  *)
(* edited and, when the edit emptied a map, all keys of the map.           *)
Touched(c) ==
  LET v == app[c].updated
  IN  IF /\ app[c].edit \in MapKeys(kind)
         /\ \A f \in MapKeys(kind) : v[f] = 0
      THEN MapKeys(kind) ELSE {app[c].edit}

(* What a reader sees of a value that was written.                         *)
Seen(f, x) == IF f \in Hollow /\ x = 1 THEN 0 ELSE x

Reader == ParseFromJson(kind, resource.doc)

(* A full update cannot clear a field and never carries temporaryHold.     *)
Carried(c) ==
  /\ app[c].edit \in Writeable(kind)
  /\ app[c].how \in {"update", "guarded", "insert"} =>
       /\ app[c].edit # "temporaryHold"
       /\ app[c].edit \notin Hollow
       /\ app[c].updated[app[c].edit] # 0 \/ app[c].edit \in Booleans

(* PatchBucket and PatchObject change exactly the fields the application   *)
(* changed, to the values it gave them, whatever other clients wrote since *)
(* it read the metadata.                                                   *)
PatchMerges ==
  [][\A c \in Clients :
       app'[c].how = "patch" /\ app[c].how # "patch" =>
         \A f \in Writeable(kind) :
            IF f = app'[c].edit
            THEN Reader'[f] = Seen(f, app'[c].updated[f])
            ELSE Reader'[f] = Reader[f] \/ f \in Touched(c)']_metadataVars

(* No write is lost: what a client wrote is still there unless a later     *)
(* write of another one touched the same field, or was a full update that  *)
(* did not carry the metageneration its writer had read.                   *)
WritesSurvive ==
  \A c \in Clients :
     app[c].pc = "written" /\ Carried(c) =>
       \/ \E d \in Clients \ {c} :
            /\ app[d].pc = "written" /\ app[d].done > app[c].done
            /\ app[d].how = "update" \/ app[c].edit \in Touched(d)
       \/ LET x == app[c].updated[app[c].edit]
          IN  Reader[app[c].edit] = Seen(app[c].edit, x)

=============================================================================
