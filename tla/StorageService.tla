--------------------------- MODULE StorageService ---------------------------
(***************************************************************************)
(* The storage service, as the repository's own testbench implements it:   *)
(* one bucket, one object in it, one access control entry on each, and the *)
(* notifications of the bucket.  A handler is a function of the service's  *)
(* state, the preconditions of the request and the state the application   *)
(* saw when it chose their values; it returns the HTTP code and the new    *)
(* state.  The bucket has no versioning, so an object has one revision.    *)
(***************************************************************************)
EXTENDS StorageOps

NewBucket ==
  [exists |-> TRUE, meta |-> 1, acl |-> "none", dacl |-> "none",
   iam |-> 1, locked |-> FALSE, notes |-> {}, next |-> 1]

(* generation 0: there is no object.                                       *)
NoObject == [gen |-> 0, meta |-> 0, acl |-> "none"]
NewObject(gen) == [gen |-> gen, meta |-> 1, acl |-> "none"]

Answer(code, s) == [code |-> code, svc |-> s]

LookupBucket(s) == s.bucket.exists
LookupObject(s) == s.object.gen # 0

(* GcsBucket.check_preconditions                                           *)
CheckBucket(s, w, o) ==
  /\ "IfMetagenerationMatch" \in o => s.bucket.meta = w.bucket.meta
  /\ "IfMetagenerationNotMatch" \in o => s.bucket.meta # w.bucket.meta

(* GcsObject.check_preconditions_by_value                                  *)
CheckObject(s, w, o) ==
  /\ "IfGenerationMatch" \in o => s.object.gen = w.object.gen
  /\ "IfGenerationNotMatch" \in o => s.object.gen # w.object.gen
  /\ IF s.object.gen = 0
     THEN MetagenerationOptions \cap o = {}
     ELSE /\ "IfMetagenerationMatch" \in o => s.object.meta = w.object.meta
          /\ "IfMetagenerationNotMatch" \in o => s.object.meta # w.object.meta

(* GcsObject.get_revision: a request may name a generation.                *)
Revision(s, w, o) == "Generation" \in o => s.object.gen = w.object.gen

-----------------------------------------------------------------------------
(* Buckets.                                                                *)

BucketsInsert(s) ==
  IF LookupBucket(s) THEN Answer(400, s)
  ELSE Answer(200, [s EXCEPT !.bucket = NewBucket])

(* update_from_metadata and apply_patch both end by increasing the         *)
(* metageneration.                                                         *)
BucketsUpdate(s, w, o) ==
  CASE ~LookupBucket(s)     -> Answer(404, s)
    [] ~CheckBucket(s, w, o) -> Answer(412, s)
    [] OTHER -> Answer(200, [s EXCEPT !.bucket.meta = @ + 1])

BucketsGet(s, w, o) ==
  CASE ~LookupBucket(s)     -> Answer(404, s)
    [] ~CheckBucket(s, w, o) -> Answer(412, s)
    [] OTHER -> Answer(200, s)

BucketsDelete(s, w, o) ==
  CASE ~LookupBucket(s)     -> Answer(404, s)
    [] ~CheckBucket(s, w, o) -> Answer(412, s)
    [] OTHER -> Answer(200, [s EXCEPT !.bucket.exists = FALSE])

SetIamPolicy(s, w, o) ==
  CASE ~LookupBucket(s) -> Answer(404, s)
    [] "IfMatchEtag" \in o /\ s.bucket.iam # w.bucket.iam -> Answer(412, s)
    [] OTHER -> Answer(200, [s EXCEPT !.bucket.iam = @ + 1])

LockRetentionPolicy(s, w, o) ==
  CASE ~LookupBucket(s) -> Answer(404, s)
    [] "IfMetagenerationMatch" \notin o -> Answer(400, s)
    [] s.bucket.meta # w.bucket.meta -> Answer(412, s)
    [] OTHER -> Answer(200, [s EXCEPT !.bucket.locked = TRUE,
                                      !.bucket.meta = @ + 1])

(* Creating, updating and patching an entry all replace it; deleting one   *)
(* that is not there is a Python KeyError, which Flask turns into a 500.   *)
Entry(verb) == IF verb = "DELETE" THEN "none" ELSE "OWNER"

BucketAclChange(s, verb) ==
  CASE ~LookupBucket(s) -> Answer(404, s)
    [] verb = "DELETE" /\ s.bucket.acl = "none" -> Answer(500, s)
    [] OTHER -> Answer(200, [s EXCEPT !.bucket.acl = Entry(verb)])

DefaultAclChange(s, verb) ==
  CASE ~LookupBucket(s) -> Answer(404, s)
    [] verb = "DELETE" /\ s.bucket.dacl = "none" -> Answer(500, s)
    [] OTHER -> Answer(200, [s EXCEPT !.bucket.dacl = Entry(verb)])

AclGet(s, role) ==
  CASE ~LookupBucket(s) -> Answer(404, s)
    [] role = "none" -> Answer(400, s)
    [] OTHER -> Answer(200, s)

(* Every notification gets a new id.                                       *)
InsertNotification(s) ==
  IF ~LookupBucket(s) THEN Answer(404, s)
  ELSE Answer(200, [s EXCEPT !.bucket.notes = @ \cup {s.bucket.next},
                             !.bucket.next = @ + 1])

(* The application asks for the notification it saw; the message for one   *)
(* that is not there formats its id as a number, which is a TypeError.     *)
Notification(s, w, verb) ==
  CASE ~LookupBucket(s) -> Answer(404, s)
    [] w.bucket.notes \cap s.bucket.notes = {} -> Answer(500, s)
    [] verb = "GET" -> Answer(200, s)
    [] OTHER -> Answer(200, [s EXCEPT !.bucket.notes = @ \ w.bucket.notes])

-----------------------------------------------------------------------------
(* Objects.                                                                *)

(* _insert_revision needs the bucket, and replaces the only revision.      *)
InsertRevision(s) ==
  IF ~LookupBucket(s) THEN Answer(404, s)
  ELSE Answer(200, [s EXCEPT !.object = NewObject(s.object.gen + 1)])

ObjectsInsert(s, w, o) ==
  IF CheckObject(s, w, o) THEN InsertRevision(s) ELSE Answer(412, s)

(* The copy checks the preconditions of the source only.                   *)
ObjectsCopy(s) == InsertRevision(s)

ObjectsRewrite(s, w, o) ==
  IF CheckObject(s, w, o) THEN InsertRevision(s) ELSE Answer(412, s)

(* A step of a rewrite: with a token that was used before it fails, and it *)
(* copies the object or only more of it.                                   *)
RewriteStep(s, w, o, expired, more) ==
  CASE expired -> Answer(410, s)
    [] more    -> Answer(200, s)
    [] OTHER   -> ObjectsRewrite(s, w, o)

ObjectsGet(s, w, o) ==
  CASE ~LookupObject(s)      -> Answer(404, s)
    [] ~CheckObject(s, w, o)  -> Answer(412, s)
    [] ~Revision(s, w, o)     -> Answer(400, s)
    [] OTHER -> Answer(200, s)

(* Popping a generation that is not there is a KeyError, hence a 500.      *)
ObjectsDelete(s, w, o) ==
  CASE ~LookupObject(s)      -> Answer(404, s)
    [] ~CheckObject(s, w, o)  -> Answer(412, s)
    [] ~Revision(s, w, o)     -> Answer(500, s)
    [] OTHER -> Answer(200, [s EXCEPT !.object = NoObject])

ObjectsUpdate(s, w, o) ==
  CASE ~LookupObject(s)      -> Answer(404, s)
    [] ~CheckObject(s, w, o)  -> Answer(412, s)
    [] ~Revision(s, w, o)     -> Answer(400, s)
    [] OTHER -> Answer(200, [s EXCEPT !.object.meta = @ + 1])

ObjectAclChange(s, w, o, verb) ==
  CASE ~LookupObject(s)  -> Answer(404, s)
    [] ~Revision(s, w, o) -> Answer(400, s)
    [] verb = "DELETE" /\ s.object.acl = "none" -> Answer(500, s)
    [] verb = "PATCH" /\ s.object.acl = "none" -> Answer(400, s)
    [] OTHER -> Answer(200, [s EXCEPT !.object.acl = Entry(verb)])

ObjectAclGet(s, w, o) ==
  CASE ~LookupObject(s)  -> Answer(404, s)
    [] ~Revision(s, w, o) \/ s.object.acl = "none" -> Answer(400, s)
    [] OTHER -> Answer(200, s)

-----------------------------------------------------------------------------
(* The routes of the testbench.                                            *)

ProjectRoutes(verb, s) ==
  IF verb = "GET" THEN Answer(200, s) ELSE BucketsInsert(s)

BucketRoutes(verb, s, w, o) ==
  CASE verb = "GET"    -> BucketsGet(s, w, o)
    [] verb = "DELETE" -> BucketsDelete(s, w, o)
    [] OTHER           -> BucketsUpdate(s, w, o)

BucketAclRoutes(verb, at, s, w) ==
  CASE verb = "GET" /\ at = "bucketAcl" -> BucketsGet(s, w, {})
    [] verb = "GET"                     -> AclGet(s, s.bucket.acl)
    [] OTHER                            -> BucketAclChange(s, verb)

DefaultAclRoutes(verb, at, s, w) ==
  CASE verb = "GET" /\ at = "defaultAcl" -> BucketsGet(s, w, {})
    [] verb = "GET"                      -> AclGet(s, s.bucket.dacl)
    [] OTHER                             -> DefaultAclChange(s, verb)

NotificationRoutes(verb, at, s, w) ==
  CASE at = "notification" -> Notification(s, w, verb)
    [] verb = "GET"        -> BucketsGet(s, w, {})
    [] OTHER               -> InsertNotification(s)

PolicyRoutes(verb, at, s, w, o) ==
  CASE at = "lock"    -> LockRetentionPolicy(s, w, o)
    [] verb = "PUT"   -> SetIamPolicy(s, w, o)
    [] OTHER          -> BucketsGet(s, w, {})

(* Listing needs the bucket only.                                          *)
ObjectRoutes(verb, at, s, w, o) ==
  CASE at = "objects"   -> BucketsGet(s, w, {})
    [] at = "copyTo"    -> ObjectsCopy(s)
    [] at = "rewriteTo" -> ObjectsRewrite(s, w, o)
    [] verb = "GET"     -> ObjectsGet(s, w, o)
    [] verb = "DELETE"  -> ObjectsDelete(s, w, o)
    [] OTHER            -> ObjectsUpdate(s, w, o)

ObjectAclRoutes(verb, at, s, w, o) ==
  CASE verb = "GET" /\ at = "objectAcl" -> ObjectsGet(s, w, o)
    [] verb = "GET"                     -> ObjectAclGet(s, w, o)
    [] OTHER                            -> ObjectAclChange(s, w, o, verb)

Handle(request, s, w, o) ==
  LET verb == request[1]
      at   == request[2]
  IN  CASE at = "project" -> ProjectRoutes(verb, s)
        [] at = "bucket"  -> BucketRoutes(verb, s, w, o)
        [] at \in {"bucketAcl", "bucketAclEntry"} ->
                     BucketAclRoutes(verb, at, s, w)
        [] at \in {"defaultAcl", "defaultAclEntry"} ->
                     DefaultAclRoutes(verb, at, s, w)
        [] at \in {"notifications", "notification"} ->
                     NotificationRoutes(verb, at, s, w)
        [] at \in {"iam", "lock"} -> PolicyRoutes(verb, at, s, w, o)
        [] at \in {"objectAcl", "objectAclEntry"} ->
                     ObjectAclRoutes(verb, at, s, w, o)
        [] at \in {"multipart", "media", "xml", "compose"} ->
                     ObjectsInsert(s, w, o)
        [] OTHER -> ObjectRoutes(verb, at, s, w, o)

=============================================================================
