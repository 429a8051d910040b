---------------------------- MODULE StorageProofs ----------------------------
(***************************************************************************)
(* Proofs about StorageCalls, for any number of callers, any calls that    *)
(* the testbench checks and any policy that is not laxer than the strict   *)
(* one: first what each request does to the service, and that it does      *)
(* nothing when it is repeated, then the invariant of the calls.  Proofs   *)
(* about StorageMetadata, for any number of clients: patches change what   *)
(* was edited, and no write of metadata is lost.                           *)
(***************************************************************************)
EXTENDS StorageCalls, StorageMetadata, TLAPS

(* The states of the service.                                              *)
Roles == {"none", "OWNER"}
Buckets == [exists : BOOLEAN, meta : Nat, acl : Roles, dacl : Roles,
            iam : Nat, locked : BOOLEAN, notes : SUBSET Nat, next : Nat]
Objects == [gen : Nat, meta : Nat, acl : Roles]
Services == [bucket : Buckets, object : Objects]

(* The requests of the tables.                                             *)
LEMMA BucketRequest ==
  ASSUME NEW op \in DOMAIN BucketRequests, NEW o
  PROVE  Request(op, o) = BucketRequests[op] /\ op \in Ops
BY DEF Request, Sending, BucketRequests, BucketPolicyRequests, ObjectRequests,
       ObjectChangeRequests, BucketAclRequests, ObjectAclRequests,
       DefaultObjectAclRequests, NotificationRequests, Ops

LEMMA BucketPolicyRequest ==
  ASSUME NEW op \in DOMAIN BucketPolicyRequests, NEW o
  PROVE  Request(op, o) = BucketPolicyRequests[op]
BY DEF Request, Sending, BucketRequests, BucketPolicyRequests, ObjectRequests,
       ObjectChangeRequests, BucketAclRequests, ObjectAclRequests,
       DefaultObjectAclRequests, NotificationRequests

LEMMA ObjectRequest ==
  ASSUME NEW op \in DOMAIN ObjectRequests, NEW o
  PROVE  Request(op, o) = ObjectRequests[op]
BY DEF Request, Sending, BucketRequests, BucketPolicyRequests, ObjectRequests,
       ObjectChangeRequests, BucketAclRequests, ObjectAclRequests,
       DefaultObjectAclRequests, NotificationRequests

LEMMA ObjectChangeRequest ==
  ASSUME NEW op \in DOMAIN ObjectChangeRequests, NEW o
  PROVE  Request(op, o) = ObjectChangeRequests[op]
BY DEF Request, Sending, BucketRequests, BucketPolicyRequests, ObjectRequests,
       ObjectChangeRequests, BucketAclRequests, ObjectAclRequests,
       DefaultObjectAclRequests, NotificationRequests

LEMMA BucketAclRequest ==
  ASSUME NEW op \in DOMAIN BucketAclRequests, NEW o
  PROVE  Request(op, o) = BucketAclRequests[op]
BY DEF Request, Sending, BucketRequests, BucketPolicyRequests, ObjectRequests,
       ObjectChangeRequests, BucketAclRequests, ObjectAclRequests,
       DefaultObjectAclRequests, NotificationRequests

LEMMA ObjectAclRequest ==
  ASSUME NEW op \in DOMAIN ObjectAclRequests, NEW o
  PROVE  Request(op, o) = ObjectAclRequests[op]
BY DEF Request, Sending, BucketRequests, BucketPolicyRequests, ObjectRequests,
       ObjectChangeRequests, BucketAclRequests, ObjectAclRequests,
       DefaultObjectAclRequests, NotificationRequests

LEMMA DefaultObjectAclRequest ==
  ASSUME NEW op \in DOMAIN DefaultObjectAclRequests, NEW o
  PROVE  Request(op, o) = DefaultObjectAclRequests[op]
BY DEF Request, Sending, BucketRequests, BucketPolicyRequests, ObjectRequests,
       ObjectChangeRequests, BucketAclRequests, ObjectAclRequests,
       DefaultObjectAclRequests, NotificationRequests

LEMMA NotificationRequest ==
  ASSUME NEW op \in DOMAIN NotificationRequests, NEW o
  PROVE  Request(op, o) = NotificationRequests[op]
BY DEF Request, Sending, BucketRequests, BucketPolicyRequests, ObjectRequests,
       ObjectChangeRequests, BucketAclRequests, ObjectAclRequests,
       DefaultObjectAclRequests, NotificationRequests

(* What the handlers of the service do: the state after a request that     *)
(* changed something is a state in which its preconditions held, and with  *)
(* the preconditions the idempotency policy asks for, or without any, the  *)
(* same request changes nothing more.                                      *)
LEMMA Projects ==
  ASSUME NEW s \in Services
  PROVE  LET t == BucketsInsert(s).svc
         IN  t \in Services /\ (t # s => BucketsInsert(t).svc = t)
<1> DEFINE t == BucketsInsert(s).svc
<1>1. CASE s.bucket.exists
  BY <1>1 DEF BucketsInsert, LookupBucket, Answer
<1>2. CASE ~s.bucket.exists
  <2>1. t = [s EXCEPT !.bucket = NewBucket]
    BY <1>2 DEF BucketsInsert, LookupBucket, Answer
  <2>2. NewBucket \in Buckets
    BY DEF NewBucket, Buckets, Roles
  <2>3. t \in Services /\ t.bucket = NewBucket
    BY <2>1, <2>2 DEF Services
  <2>4. t.bucket.exists
    BY <2>3 DEF NewBucket
  <2> HIDE DEF t
  <2>5. BucketsInsert(t).svc = t
    BY <2>4 DEF BucketsInsert, LookupBucket, Answer
  <2> QED
    BY <2>3, <2>5 DEF t
<1> QED
  BY <1>1, <1>2

LEMMA UpdatedBucket ==
  ASSUME NEW s \in Services, NEW w \in Services, NEW o
  PROVE  LET t == BucketsUpdate(s, w, o).svc
         IN  /\ t \in Services
             /\ t # s => CheckBucket(s, w, o)
             /\ t # s /\ "IfMetagenerationMatch" \in o
                  => BucketsUpdate(t, w, o).svc = t
BY DEF BucketsUpdate, LookupBucket, CheckBucket, Answer, Services, Buckets, Roles

LEMMA DeletedBucket ==
  ASSUME NEW s \in Services, NEW w \in Services, NEW o
  PROVE  LET t == BucketsDelete(s, w, o).svc
         IN  /\ t \in Services
             /\ t # s => CheckBucket(s, w, o) /\ BucketsDelete(t, w, o).svc = t
<1> DEFINE t == BucketsDelete(s, w, o).svc
<1>1. CASE s.bucket.exists /\ CheckBucket(s, w, o)
  <2>1. t = [s EXCEPT !.bucket.exists = FALSE]
    BY <1>1 DEF BucketsDelete, LookupBucket, Answer
  <2>5. [s.bucket EXCEPT !.exists = FALSE] \in Buckets
    BY DEF Services, Buckets
  <2>2. t \in Services
    BY <2>1, <2>5 DEF Services
  <2>4. ~t.bucket.exists
    BY <2>1 DEF Services, Buckets, Roles
  <2> HIDE DEF t
  <2>3. BucketsDelete(t, w, o).svc = t
    BY <2>4 DEF BucketsDelete, LookupBucket, Answer
  <2> QED
    BY <1>1, <2>2, <2>3 DEF t
<1>2. CASE ~(s.bucket.exists /\ CheckBucket(s, w, o))
  BY <1>2 DEF BucketsDelete, LookupBucket, Answer
<1> QED
  BY <1>1, <1>2

LEMMA IamPolicySet ==
  ASSUME NEW s \in Services, NEW w \in Services, NEW o
  PROVE  LET t == SetIamPolicy(s, w, o).svc
         IN  /\ t \in Services
             /\ t # s /\ "IfMatchEtag" \in o =>
                  /\ s.bucket.iam = w.bucket.iam
                  /\ SetIamPolicy(t, w, o).svc = t
BY DEF SetIamPolicy, LookupBucket, Answer, Services, Buckets, Roles

LEMMA Locked ==
  ASSUME NEW s \in Services, NEW w \in Services, NEW o
  PROVE  LET t == LockRetentionPolicy(s, w, o).svc
         IN  /\ t \in Services
             /\ t # s => /\ s.bucket.meta = w.bucket.meta
                         /\ LockRetentionPolicy(t, w, o).svc = t
<1> DEFINE t == LockRetentionPolicy(s, w, o).svc
           u == [s EXCEPT !.bucket.locked = TRUE, !.bucket.meta = @ + 1]
<1>1. t = s \/ (t = u /\ s.bucket.meta = w.bucket.meta)
  BY DEF LockRetentionPolicy, Answer
<1>2. CASE t = u /\ s.bucket.meta = w.bucket.meta
  <2>5. [s.bucket EXCEPT !.locked = TRUE, !.meta = @ + 1] \in Buckets
    <3> DEFINE x == [s.bucket EXCEPT !.locked = TRUE]
    <3>1. s.bucket \in Buckets /\ x \in Buckets
      BY DEF Services, Buckets
    <3>2. [s.bucket EXCEPT !.locked = TRUE, !.meta = @ + 1]
            = [x EXCEPT !.meta = @ + 1]
      BY <3>1 DEF Buckets
    <3> HIDE DEF x
    <3>3. [x EXCEPT !.meta = @ + 1] \in Buckets
      BY <3>1 DEF Buckets
    <3> QED
      BY <3>2, <3>3
  <2>1. t \in Services
    BY <1>2, <2>5 DEF Services
  <2>2. t.bucket.meta = s.bucket.meta + 1
    BY <1>2, ZenonT(60) DEF Services, Buckets, Roles
  <2>3. t.bucket.meta # w.bucket.meta
    BY <1>2, <2>2 DEF Services, Buckets, Roles
  <2> HIDE DEF t
  <2>4. LockRetentionPolicy(t, w, o).svc = t
    BY <2>3 DEF LockRetentionPolicy, Answer
  <2> QED
    BY <1>2, <2>1, <2>4 DEF t
<1> QED
  BY <1>1, <1>2

LEMMA BucketAclChanged ==
  ASSUME NEW s \in Services, NEW verb
  PROVE  LET t == BucketAclChange(s, verb).svc
         IN  t \in Services /\ BucketAclChange(t, verb).svc = t
<1> DEFINE t == BucketAclChange(s, verb).svc
<1>1. t = s \/ t = [s EXCEPT !.bucket.acl = Entry(verb)]
  BY DEF BucketAclChange, Answer
<1>2. CASE t = [s EXCEPT !.bucket.acl = Entry(verb)]
  <2>1. Entry(verb) \in Roles
    BY DEF Entry, Roles
  <2>2. t \in Services /\ t.bucket.acl = Entry(verb)
    BY <1>2, <2>1 DEF Services, Buckets, Roles
  <2> HIDE DEF t
  <2>3. [t EXCEPT !.bucket.acl = Entry(verb)] = t
    BY <2>2 DEF Services, Buckets, Roles
  <2>4. BucketAclChange(t, verb).svc = t
    BY <2>3 DEF BucketAclChange, Answer
  <2> QED
    BY <2>2, <2>4 DEF t
<1> QED
  BY <1>1, <1>2

LEMMA DefaultAclChanged ==
  ASSUME NEW s \in Services, NEW verb
  PROVE  LET t == DefaultAclChange(s, verb).svc
         IN  t \in Services /\ DefaultAclChange(t, verb).svc = t
<1> DEFINE t == DefaultAclChange(s, verb).svc
<1>1. t = s \/ t = [s EXCEPT !.bucket.dacl = Entry(verb)]
  BY DEF DefaultAclChange, Answer
<1>2. CASE t = [s EXCEPT !.bucket.dacl = Entry(verb)]
  <2>1. Entry(verb) \in Roles
    BY DEF Entry, Roles
  <2>2. t \in Services /\ t.bucket.dacl = Entry(verb)
    BY <1>2, <2>1 DEF Services, Buckets, Roles
  <2> HIDE DEF t
  <2>3. [t EXCEPT !.bucket.dacl = Entry(verb)] = t
    BY <2>2 DEF Services, Buckets, Roles
  <2>4. DefaultAclChange(t, verb).svc = t
    BY <2>3 DEF DefaultAclChange, Answer
  <2> QED
    BY <2>2, <2>4 DEF t
<1> QED
  BY <1>1, <1>2

LEMMA NotificationDeleted ==
  ASSUME NEW s \in Services, NEW w \in Services
  PROVE  LET t == Notification(s, w, "DELETE").svc
         IN  t \in Services /\ (t # s => Notification(t, w, "DELETE").svc = t)
<1> DEFINE t == Notification(s, w, "DELETE").svc
<1>1. t = s \/ t = [s EXCEPT !.bucket.notes = @ \ w.bucket.notes]
  BY DEF Notification, Answer
<1>2. CASE t = [s EXCEPT !.bucket.notes = @ \ w.bucket.notes]
  <2>1. t \in Services /\ t.bucket.notes = s.bucket.notes \ w.bucket.notes
    BY <1>2 DEF Services, Buckets, Roles
  <2>2. w.bucket.notes \cap t.bucket.notes = {}
    BY <2>1
  <2> HIDE DEF t
  <2>3. Notification(t, w, "DELETE").svc = t
    BY <2>2 DEF Notification, Answer
  <2> QED
    BY <2>1, <2>3 DEF t
<1> QED
  BY <1>1, <1>2

LEMMA ObjectInserted ==
  ASSUME NEW s \in Services, NEW w \in Services, NEW o
  PROVE  LET t == ObjectsInsert(s, w, o).svc
         IN  /\ t \in Services
             /\ t # s => CheckObject(s, w, o)
             /\ t # s /\ "IfGenerationMatch" \in o
                  => ObjectsInsert(t, w, o).svc = t
<1> DEFINE t == ObjectsInsert(s, w, o).svc
<1>1. CASE CheckObject(s, w, o) /\ s.bucket.exists
  <2>1. t = [s EXCEPT !.object = NewObject(s.object.gen + 1)]
    BY <1>1 DEF ObjectsInsert, InsertRevision, LookupBucket, Answer
  <2>2. NewObject(s.object.gen + 1) \in Objects
    BY DEF NewObject, Services, Objects, Roles
  <2>3. t \in Services /\ t.object = NewObject(s.object.gen + 1)
    BY <2>1, <2>2 DEF Services
  <2>4. t.object.gen = s.object.gen + 1
    BY <2>3 DEF NewObject
  <2>5. ASSUME "IfGenerationMatch" \in o
        PROVE  s.object.gen = w.object.gen /\ ~CheckObject(t, w, o)
    <3>1. s.object.gen = w.object.gen
      BY <1>1, <2>5 DEF CheckObject
    <3>2. t.object.gen # w.object.gen
      BY <2>4, <3>1 DEF Services, Objects, Roles
    <3> QED
      BY <2>5, <3>1, <3>2 DEF CheckObject
  <2> HIDE DEF t
  <2>6. "IfGenerationMatch" \in o => ObjectsInsert(t, w, o).svc = t
    BY <2>5 DEF ObjectsInsert, Answer
  <2> QED
    BY <1>1, <2>3, <2>6 DEF t
<1>2. CASE ~(CheckObject(s, w, o) /\ s.bucket.exists)
  <2>1. t = s
    BY <1>2 DEF ObjectsInsert, InsertRevision, LookupBucket, Answer
  <2> QED
    BY <2>1
<1> QED
  BY <1>1, <1>2

LEMMA ObjectRewritten ==
  ASSUME NEW s, NEW w, NEW o
  PROVE  ObjectsRewrite(s, w, o) = ObjectsInsert(s, w, o)
BY DEF ObjectsRewrite, ObjectsInsert

LEMMA ObjectDeleted ==
  ASSUME NEW s \in Services, NEW w \in Services, NEW o
  PROVE  LET t == ObjectsDelete(s, w, o).svc
         IN  /\ t \in Services
             /\ t # s => /\ CheckObject(s, w, o) /\ Revision(s, w, o)
                         /\ ObjectsDelete(t, w, o).svc = t
<1> DEFINE t == ObjectsDelete(s, w, o).svc
<1>1. CASE LookupObject(s) /\ CheckObject(s, w, o) /\ Revision(s, w, o)
  <2>1. t = [s EXCEPT !.object = NoObject]
    BY <1>1 DEF ObjectsDelete, Answer
  <2>2. t \in Services /\ t.object = NoObject
    BY <2>1 DEF Services, Objects, NoObject, Roles
  <2>3. ~LookupObject(t)
    BY <2>2 DEF LookupObject, NoObject
  <2> HIDE DEF t
  <2>4. ObjectsDelete(t, w, o).svc = t
    BY <2>3 DEF ObjectsDelete, Answer
  <2> QED
    BY <1>1, <2>2, <2>4 DEF t
<1>2. CASE ~(LookupObject(s) /\ CheckObject(s, w, o) /\ Revision(s, w, o))
  <2>1. t = s
    BY <1>2 DEF ObjectsDelete, Answer
  <2> QED
    BY <2>1
<1> QED
  BY <1>1, <1>2

LEMMA ObjectUpdated ==
  ASSUME NEW s \in Services, NEW w \in Services, NEW o
  PROVE  LET t == ObjectsUpdate(s, w, o).svc
         IN  /\ t \in Services
             /\ t # s => CheckObject(s, w, o) /\ Revision(s, w, o)
             /\ t # s /\ "IfMetagenerationMatch" \in o
                  => ObjectsUpdate(t, w, o).svc = t
BY DEF ObjectsUpdate, LookupObject, CheckObject, Revision,
       Answer, Services, Objects, Roles

LEMMA ObjectAclChanged ==
  ASSUME NEW s \in Services, NEW w \in Services, NEW o, NEW verb
  PROVE  LET t == ObjectAclChange(s, w, o, verb).svc
         IN  /\ t \in Services
             /\ t # s => Revision(s, w, o)
             /\ t # s => ObjectAclChange(t, w, o, verb).svc = t
<1> DEFINE t == ObjectAclChange(s, w, o, verb).svc
<1>1. t = s \/ t = [s EXCEPT !.object.acl = Entry(verb)]
  BY DEF ObjectAclChange, Answer
<1>2. t # s => Revision(s, w, o)
  BY DEF ObjectAclChange, Answer
<1>3. CASE t = [s EXCEPT !.object.acl = Entry(verb)]
  <2>1. Entry(verb) \in Roles
    BY DEF Entry, Roles
  <2>2. t \in Services /\ t.object.acl = Entry(verb)
    BY <1>3, <2>1 DEF Services, Objects, Roles
  <2> HIDE DEF t
  <2>3. [t EXCEPT !.object.acl = Entry(verb)] = t
    BY <2>2 DEF Services, Objects, Roles
  <2>4. ObjectAclChange(t, w, o, verb).svc = t
    BY <2>3 DEF ObjectAclChange, Answer
  <2> QED
    BY <1>2, <2>2, <2>4 DEF t
<1> QED
  BY <1>1, <1>2, <1>3

(* A request that reads changes nothing.                                   *)
LEMMA ReadsChangeNothing ==
  ASSUME NEW at \in {"project", "bucket", "bucketAcl", "bucketAclEntry",
                     "defaultAcl", "defaultAclEntry", "notifications",
                     "notification", "iam", "objectAcl", "objectAclEntry",
                     "object", "objects"},
         NEW s, NEW w, NEW o
  PROVE  Handle(<<"GET", at>>, s, w, o).svc = s
<1>1. /\ BucketsGet(s, w, o).svc = s /\ BucketsGet(s, w, {}).svc = s
      /\ \A role : AclGet(s, role).svc = s
      /\ ObjectsGet(s, w, o).svc = s /\ ObjectAclGet(s, w, o).svc = s
      /\ Notification(s, w, "GET").svc = s
  BY DEF BucketsGet, AclGet, ObjectsGet, ObjectAclGet, Notification, Answer
<1>2. CASE at \in {"project", "bucket"}
  BY <1>1, <1>2 DEF Handle, ProjectRoutes, BucketRoutes, Answer
<1>3. CASE at \in {"bucketAcl", "bucketAclEntry"}
  BY <1>1, <1>3 DEF Handle, BucketAclRoutes
<1>4. CASE at \in {"defaultAcl", "defaultAclEntry"}
  BY <1>1, <1>4 DEF Handle, DefaultAclRoutes
<1>5. CASE at \in {"notifications", "notification"}
  BY <1>1, <1>5 DEF Handle, NotificationRoutes
<1>6. CASE at = "iam"
  BY <1>1, <1>6 DEF Handle, PolicyRoutes
<1>7. CASE at \in {"objectAcl", "objectAclEntry"}
  BY <1>1, <1>7 DEF Handle, ObjectAclRoutes
<1>8. CASE at \in {"object", "objects"}
  BY <1>1, <1>8 DEF Handle, ObjectRoutes
<1> QED
  BY <1>2, <1>3, <1>4, <1>5, <1>6, <1>7, <1>8

(* The state after a request.                                              *)
After(op, o, s, w) == Handle(Request(op, o), s, w, Wire(op, o)).svc

Proper(op, o) ==
  \A s \in Services, w \in Services :
     /\ After(op, o, s, w) \in Services
     /\ After(op, o, s, w) # s => Holds(op, o, s, w)
     /\ After(op, o, s, w) # s /\ Strict(op, o)
          => After(op, o, After(op, o, s, w), w) = After(op, o, s, w)

LEMMA ReadIsProper ==
  ASSUME NEW op, NEW o,
         NEW at \in {"project", "bucket", "bucketAcl", "bucketAclEntry",
                     "defaultAcl", "defaultAclEntry", "notifications",
                     "notification", "iam", "objectAcl", "objectAclEntry",
                     "object", "objects"},
         Request(op, o) = <<"GET", at>>
  PROVE  Proper(op, o)
BY ReadsChangeNothing DEF Proper, After

(* The preconditions that reach the service are those of the request.      *)
LEMMA WireIsAll ==
  ASSUME NEW op, NEW o, Checked(op, o),
         Request(op, o) \notin {<<"POST", "lock">>, <<"GET", "xml">>}
  PROVE  Wire(op, o) = o
<1>1. CASE Request(op, o) = <<"PUT", "xml">>
  <2>1. "IfMetagenerationMatch" \notin o
    BY <1>1 DEF Checked
  <2>2. Wire(op, o) = o \ {"IfMetagenerationMatch"}
    BY <1>1 DEF Wire, InsertObjectMediaXmlWire
  <2> QED
    BY <2>1, <2>2
<1>2. CASE Request(op, o) # <<"PUT", "xml">>
  BY <1>2 DEF Wire, JsonWire
<1> QED
  BY <1>1, <1>2

LEMMA BucketIsProper ==
  ASSUME NEW op \in DOMAIN BucketRequests, NEW o, Checked(op, o),
         o \subseteq Accepts(op)
  PROVE  Proper(op, o)
<1>1. Request(op, o) = BucketRequests[op]
  BY BucketRequest
<1>2. op \in {"ListBuckets", "CreateBucket", "GetBucketMetadata", "DeleteBucket",
              "UpdateBucket", "PatchBucket"}
  BY DEF BucketRequests
<1>3. Request(op, o) \notin {<<"POST", "lock">>, <<"GET", "xml">>}
  BY <1>1, <1>2 DEF BucketRequests
<1>4. Wire(op, o) = o
  BY <1>3, WireIsAll
<1>5. "IfMatchEtag" \notin o /\ op # "SetBucketIamPolicy" /\ op # "LockBucketRetentionPolicy"
  BY <1>2 DEF Checked
<1>6. \A s, w : CheckBucket(s, w, o) => Holds(op, o, s, w)
  BY <1>5 DEF Holds
<1>7. CASE op \in {"ListBuckets", "GetBucketMetadata"}
  <2>1. Request(op, o) = <<"GET", "project">> \/ Request(op, o) = <<"GET", "bucket">>
    BY <1>1, <1>7 DEF BucketRequests
  <2> QED
    BY <2>1, ReadIsProper
<1>8. CASE op = "CreateBucket"
  <2>1. Request(op, o) = <<"POST", "project">>
    BY <1>1, <1>8 DEF BucketRequests
  <2>2. ASSUME NEW s, NEW w PROVE After(op, o, s, w) = BucketsInsert(s).svc
    BY <2>1 DEF After, Handle, ProjectRoutes
  <2>3. Accepts(op) = {"IfMatchEtag"}
    BY <1>8 DEF Accepts, GenericOptions, OwnOptions, BucketOptions,
                BucketPolicyOptions, ObjectOptions, ObjectChangeOptions,
                BucketAclOptions, ObjectAclOptions, DefaultObjectAclOptions,
                BucketAclRequests, ObjectAclRequests, DefaultObjectAclRequests
  <2>4. ASSUME NEW s, NEW w PROVE CheckBucket(s, w, o)
    BY <2>3 DEF CheckBucket
  <2> QED
    BY <1>6, <2>2, <2>4, Projects DEF Proper
<1>9. CASE op = "DeleteBucket"
  <2>1. Request(op, o) = <<"DELETE", "bucket">>
    BY <1>1, <1>9 DEF BucketRequests
  <2>2. ASSUME NEW s, NEW w PROVE After(op, o, s, w) = BucketsDelete(s, w, o).svc
    BY <1>4, <2>1 DEF After, Handle, BucketRoutes
  <2> QED
    BY <1>6, <2>2, DeletedBucket DEF Proper
<1>10. CASE op \in {"UpdateBucket", "PatchBucket"}
  <2>1. Request(op, o) = <<"PUT", "bucket">> \/ Request(op, o) = <<"PATCH", "bucket">>
    BY <1>1, <1>10 DEF BucketRequests
  <2>2. ASSUME NEW s, NEW w PROVE After(op, o, s, w) = BucketsUpdate(s, w, o).svc
    BY <1>4, <2>1 DEF After, Handle, BucketRoutes
  <2>3. Strict(op, o) => "IfMetagenerationMatch" \in o
    <3>1. Strict(op, o) => StrictBuckets(op, o)
      BY <1>2 DEF Strict, BucketRequests, BucketPolicyRequests, NotificationRequests,
                  BucketAclRequests, ObjectAclRequests, DefaultObjectAclRequests
    <3>2. StrictBuckets(op, o) => "IfMetagenerationMatch" \in o
      BY <1>5, <1>10 DEF StrictBuckets
    <3> QED
      BY <3>1, <3>2
  <2> QED
    BY <1>6, <2>2, <2>3, UpdatedBucket DEF Proper
<1> QED
  BY <1>2, <1>7, <1>8, <1>9, <1>10

(* A request without options of objects has no precondition to fail.       *)
LEMMA NoObjectOptions ==
  ASSUME NEW o, o \subseteq {"IfMatchEtag", "Generation"}, NEW s, NEW w
  PROVE  CheckObject(s, w, o) /\ ("Generation" \notin o => Revision(s, w, o))
BY DEF CheckObject, Revision, MetagenerationOptions

LEMMA BucketPolicyIsProper ==
  ASSUME NEW op \in DOMAIN BucketPolicyRequests, NEW o, Checked(op, o),
         o \subseteq Accepts(op)
  PROVE  Proper(op, o)
<1>1. Request(op, o) = BucketPolicyRequests[op]
  BY BucketPolicyRequest
<1>2. op \in {"GetBucketIamPolicy", "SetBucketIamPolicy",
              "TestBucketIamPermissions", "LockBucketRetentionPolicy"}
  BY DEF BucketPolicyRequests
<1>3. o \subseteq {"IfMatchEtag"}
  BY <1>2 DEF Accepts, GenericOptions, OwnOptions, BucketOptions, BucketPolicyOptions,
              ObjectOptions, ObjectChangeOptions, BucketAclOptions,
              ObjectAclOptions, DefaultObjectAclOptions, NotificationOptions,
              BucketRequests, BucketPolicyRequests, BucketAclRequests,
              ObjectAclRequests, DefaultObjectAclRequests, NotificationRequests
<1>4. \A s, w : CheckObject(s, w, o) /\ Revision(s, w, o)
  BY <1>3, NoObjectOptions
<1>5. op \notin DOMAIN BucketRequests
  BY <1>2 DEF BucketRequests
<1>6. CASE op \in {"GetBucketIamPolicy", "TestBucketIamPermissions"}
  <2>1. Request(op, o) = <<"GET", "iam">>
    BY <1>1, <1>6 DEF BucketPolicyRequests
  <2> QED
    BY <2>1, ReadIsProper
<1>7. CASE op = "SetBucketIamPolicy"
  <2>1. Request(op, o) = <<"PUT", "iam">>
    BY <1>1, <1>7 DEF BucketPolicyRequests
  <2>2. Wire(op, o) = o
    BY <2>1, WireIsAll
  <2>3. ASSUME NEW s, NEW w PROVE After(op, o, s, w) = SetIamPolicy(s, w, o).svc
    BY <2>1, <2>2 DEF After, Handle, PolicyRoutes
  <2>4. Strict(op, o) => "IfMatchEtag" \in o
    BY <1>7 DEF Strict, StrictBuckets, BucketRequests, BucketPolicyRequests,
                NotificationRequests, BucketAclRequests, ObjectAclRequests,
                DefaultObjectAclRequests
  <2>5. ASSUME NEW s \in Services, NEW w \in Services, After(op, o, s, w) # s
        PROVE  Holds(op, o, s, w)
    BY <1>4, <1>5, <1>7, <2>3, <2>5, IamPolicySet DEF Holds
  <2> QED
    BY <2>3, <2>4, <2>5, IamPolicySet, SMTT(40) DEF Proper
<1>8. CASE op = "LockBucketRetentionPolicy"
  <2>1. Request(op, o) = <<"POST", "lock">>
    BY <1>1, <1>8 DEF BucketPolicyRequests
  <2>2. ASSUME NEW s, NEW w
        PROVE  After(op, o, s, w) = LockRetentionPolicy(s, w, Wire(op, o)).svc
    BY <2>1 DEF After, Handle, PolicyRoutes
  <2>3. "IfMatchEtag" \notin o
    BY <1>8 DEF Checked
  <2>4. ASSUME NEW s \in Services, NEW w \in Services, After(op, o, s, w) # s
        PROVE  Holds(op, o, s, w)
    BY <1>4, <1>5, <2>2, <2>3, <2>4, Locked DEF Holds
  <2> QED
    BY <2>2, <2>4, Locked DEF Proper
<1> QED
  BY <1>2, <1>6, <1>7, <1>8

LEMMA BucketAclIsProper ==
  ASSUME NEW op \in DOMAIN BucketAclRequests, NEW o, Checked(op, o),
         o \subseteq Accepts(op)
  PROVE  Proper(op, o)
<1>1. Request(op, o) = BucketAclRequests[op]
  BY BucketAclRequest
<1>2. op \in {"ListBucketAcl", "GetBucketAcl", "CreateBucketAcl", "DeleteBucketAcl",
              "UpdateBucketAcl", "PatchBucketAcl"}
  BY DEF BucketAclRequests
<1>3. o \subseteq {"IfMatchEtag"} /\ "IfMatchEtag" \notin o
  BY <1>2 DEF Checked, Accepts, GenericOptions, OwnOptions, BucketOptions, BucketPolicyOptions,
              ObjectOptions, ObjectChangeOptions, BucketAclOptions,
              ObjectAclOptions, DefaultObjectAclOptions, NotificationOptions,
              BucketRequests, BucketPolicyRequests, BucketAclRequests,
              ObjectAclRequests, DefaultObjectAclRequests, NotificationRequests
<1>4. \A s, w : CheckObject(s, w, o) /\ Revision(s, w, o)
  BY <1>3, NoObjectOptions
<1>5. \A s, w : Holds(op, o, s, w)
  BY <1>2, <1>3, <1>4 DEF Holds, BucketRequests
<1>6. CASE op \in {"ListBucketAcl", "GetBucketAcl"}
  <2>1. Request(op, o) = <<"GET", "bucketAcl">> \/ Request(op, o) = <<"GET", "bucketAclEntry">>
    BY <1>1, <1>6 DEF BucketAclRequests
  <2> QED
    BY <2>1, ReadIsProper
<1>7. CASE op \notin {"ListBucketAcl", "GetBucketAcl"}
  <2>1. PICK verb \in {"POST", "PUT", "PATCH", "DELETE"},
             at \in {"bucketAcl", "bucketAclEntry"} : Request(op, o) = <<verb, at>>
    BY <1>1, <1>2, <1>7 DEF BucketAclRequests
  <2>2. ASSUME NEW s, NEW w PROVE After(op, o, s, w) = BucketAclChange(s, verb).svc
    BY <2>1 DEF After, Handle, BucketAclRoutes
  <2> QED
    BY <1>5, <2>2, BucketAclChanged DEF Proper
<1> QED
  BY <1>6, <1>7

LEMMA DefaultObjectAclIsProper ==
  ASSUME NEW op \in DOMAIN DefaultObjectAclRequests, NEW o, Checked(op, o),
         o \subseteq Accepts(op)
  PROVE  Proper(op, o)
<1>1. Request(op, o) = DefaultObjectAclRequests[op]
  BY DefaultObjectAclRequest
<1>2. op \in {"ListDefaultObjectAcl", "GetDefaultObjectAcl", "CreateDefaultObjectAcl",
              "DeleteDefaultObjectAcl", "UpdateDefaultObjectAcl", "PatchDefaultObjectAcl"}
  BY DEF DefaultObjectAclRequests
<1>3. o \subseteq {"IfMatchEtag"} /\ "IfMatchEtag" \notin o
  BY <1>2 DEF Checked, Accepts, GenericOptions, OwnOptions, BucketOptions, BucketPolicyOptions,
              ObjectOptions, ObjectChangeOptions, BucketAclOptions,
              ObjectAclOptions, DefaultObjectAclOptions, NotificationOptions,
              BucketRequests, BucketPolicyRequests, BucketAclRequests,
              ObjectAclRequests, DefaultObjectAclRequests, NotificationRequests
<1>4. \A s, w : CheckObject(s, w, o) /\ Revision(s, w, o)
  BY <1>3, NoObjectOptions
<1>5. \A s, w : Holds(op, o, s, w)
  BY <1>2, <1>3, <1>4 DEF Holds, BucketRequests
<1>6. CASE op \in {"ListDefaultObjectAcl", "GetDefaultObjectAcl"}
  <2>1. \/ Request(op, o) = <<"GET", "defaultAcl">>
        \/ Request(op, o) = <<"GET", "defaultAclEntry">>
    BY <1>1, <1>6 DEF DefaultObjectAclRequests
  <2> QED
    BY <2>1, ReadIsProper
<1>7. CASE op \notin {"ListDefaultObjectAcl", "GetDefaultObjectAcl"}
  <2>1. PICK verb \in {"POST", "PUT", "PATCH", "DELETE"},
             at \in {"defaultAcl", "defaultAclEntry"} : Request(op, o) = <<verb, at>>
    BY <1>1, <1>2, <1>7 DEF DefaultObjectAclRequests
  <2>2. ASSUME NEW s, NEW w PROVE After(op, o, s, w) = DefaultAclChange(s, verb).svc
    BY <2>1 DEF After, Handle, DefaultAclRoutes
  <2> QED
    BY <1>5, <2>2, DefaultAclChanged DEF Proper
<1> QED
  BY <1>6, <1>7

LEMMA ObjectAclIsProper ==
  ASSUME NEW op \in DOMAIN ObjectAclRequests, NEW o, Checked(op, o),
         o \subseteq Accepts(op)
  PROVE  Proper(op, o)
<1>1. Request(op, o) = ObjectAclRequests[op]
  BY ObjectAclRequest
<1>2. op \in {"ListObjectAcl", "GetObjectAcl", "CreateObjectAcl", "DeleteObjectAcl",
              "UpdateObjectAcl", "PatchObjectAcl"}
  BY DEF ObjectAclRequests
<1>3. o \subseteq {"IfMatchEtag", "Generation"} /\ "IfMatchEtag" \notin o
  BY <1>2 DEF Checked, Accepts, GenericOptions, OwnOptions, BucketOptions, BucketPolicyOptions,
              ObjectOptions, ObjectChangeOptions, BucketAclOptions,
              ObjectAclOptions, DefaultObjectAclOptions, NotificationOptions,
              BucketRequests, BucketPolicyRequests, BucketAclRequests,
              ObjectAclRequests, DefaultObjectAclRequests, NotificationRequests
<1>4. \A s, w : CheckObject(s, w, o)
  BY <1>3, NoObjectOptions
<1>5. \A s, w : Revision(s, w, o) => Holds(op, o, s, w)
  BY <1>2, <1>3, <1>4 DEF Holds, BucketRequests
<1>6. CASE op \in {"ListObjectAcl", "GetObjectAcl"}
  <2>1. Request(op, o) = <<"GET", "objectAcl">> \/ Request(op, o) = <<"GET", "objectAclEntry">>
    BY <1>1, <1>6 DEF ObjectAclRequests
  <2> QED
    BY <2>1, ReadIsProper
<1>7. CASE op \notin {"ListObjectAcl", "GetObjectAcl"}
  <2>1. PICK verb \in {"POST", "PUT", "PATCH", "DELETE"},
             at \in {"objectAcl", "objectAclEntry"} : Request(op, o) = <<verb, at>>
    BY <1>1, <1>2, <1>7 DEF ObjectAclRequests
  <2>2. Wire(op, o) = o
    BY <2>1, WireIsAll
  <2>3. ASSUME NEW s, NEW w PROVE After(op, o, s, w) = ObjectAclChange(s, w, o, verb).svc
    BY <2>1, <2>2 DEF After, Handle, ObjectAclRoutes
  <2> QED
    BY <1>5, <2>3, ObjectAclChanged DEF Proper
<1> QED
  BY <1>6, <1>7

LEMMA NotificationIsProper ==
  ASSUME NEW op \in DOMAIN NotificationRequests, NEW o, Checked(op, o),
         o \subseteq Accepts(op)
  PROVE  Proper(op, o)
<1>1. Request(op, o) = NotificationRequests[op]
  BY NotificationRequest
<1>2. op \in {"GetServiceAccount", "ListNotifications", "GetNotification",
              "DeleteNotification"}
  BY DEF NotificationRequests, Checked
<1>3. CASE op # "DeleteNotification"
  <2>1. \/ Request(op, o) = <<"GET", "project">>
        \/ Request(op, o) = <<"GET", "notifications">>
        \/ Request(op, o) = <<"GET", "notification">>
    BY <1>1, <1>2, <1>3 DEF NotificationRequests
  <2> QED
    BY <2>1, ReadIsProper
<1>4. CASE op = "DeleteNotification"
  <2>1. Request(op, o) = <<"DELETE", "notification">>
    BY <1>1, <1>4 DEF NotificationRequests
  <2>2. o \subseteq {"IfMatchEtag"} /\ "IfMatchEtag" \notin o
    BY <1>4 DEF Checked, Accepts, GenericOptions, OwnOptions, BucketOptions, BucketPolicyOptions,
              ObjectOptions, ObjectChangeOptions, BucketAclOptions,
              ObjectAclOptions, DefaultObjectAclOptions, NotificationOptions,
              BucketRequests, BucketPolicyRequests, BucketAclRequests,
              ObjectAclRequests, DefaultObjectAclRequests, NotificationRequests
  <2>3. \A s, w : CheckObject(s, w, o) /\ Revision(s, w, o)
    BY <2>2, NoObjectOptions
  <2>4. \A s, w : Holds(op, o, s, w)
    BY <1>4, <2>2, <2>3 DEF Holds, BucketRequests
  <2>5. ASSUME NEW s, NEW w
        PROVE  After(op, o, s, w) = Notification(s, w, "DELETE").svc
    BY <2>1 DEF After, Handle, NotificationRoutes
  <2> QED
    BY <2>4, <2>5, NotificationDeleted DEF Proper
<1> QED
  BY <1>3, <1>4

(* The requests that make a new generation of the object.                  *)
LEMMA InsertIsProper ==
  ASSUME NEW op \in {"InsertObjectMedia", "ComposeObject", "RewriteObject"}, NEW o,
         Checked(op, o), o \subseteq Accepts(op)
  PROVE  /\ Proper(op, o)
         /\ \A s, w : ObjectsRewrite(s, w, Wire(op, o)).svc = After(op, o, s, w)
<1>1. Request(op, o) \in {<<"POST", "multipart">>, <<"PUT", "xml">>, <<"POST", "media">>,
                          <<"POST", "compose">>, <<"POST", "rewriteTo">>}
  <2>1. CASE op = "InsertObjectMedia"
    BY <2>1 DEF Request, InsertObjectMediaRequest
  <2>2. CASE op \in {"ComposeObject", "RewriteObject"}
    <3>1. op \in DOMAIN ObjectChangeRequests
      BY <2>2 DEF ObjectChangeRequests
    <3>2. Request(op, o) = ObjectChangeRequests[op]
      BY <3>1, ObjectChangeRequest
    <3> QED
      BY <2>2, <3>2 DEF ObjectChangeRequests
  <2> QED
    BY <2>1, <2>2
<1>2. Wire(op, o) = o
  BY <1>1, WireIsAll
<1>3. ASSUME NEW s, NEW w PROVE After(op, o, s, w) = ObjectsInsert(s, w, o).svc
  <2>1. CASE Request(op, o) = <<"POST", "rewriteTo">>
    <3>1. Handle(Request(op, o), s, w, o) = ObjectsRewrite(s, w, o)
      BY <2>1 DEF Handle, ObjectRoutes
    <3> QED
      BY <1>2, <3>1, ObjectRewritten DEF After
  <2>2. CASE Request(op, o) # <<"POST", "rewriteTo">>
    <3>1. Handle(Request(op, o), s, w, o) = ObjectsInsert(s, w, o)
      BY <1>1, <2>2 DEF Handle
    <3> QED
      BY <1>2, <3>1 DEF After
  <2> QED
    BY <2>1, <2>2
<1>4. "Generation" \notin o
  BY DEF Accepts, GenericOptions, OwnOptions, BucketOptions, BucketPolicyOptions,
              ObjectOptions, ObjectChangeOptions, BucketAclOptions,
              ObjectAclOptions, DefaultObjectAclOptions, NotificationOptions,
              BucketRequests, BucketPolicyRequests, BucketAclRequests,
              ObjectAclRequests, DefaultObjectAclRequests, NotificationRequests,
              GenerationOptions, MetagenerationOptions
<1>5. "IfMatchEtag" \notin o
  BY DEF Checked
<1>6. \A s, w : CheckObject(s, w, o) => Holds(op, o, s, w)
  BY <1>4, <1>5 DEF Holds, Revision, BucketRequests
<1>7. Strict(op, o) => "IfGenerationMatch" \in o
  BY DEF Strict, StrictObjects, BucketRequests, BucketPolicyRequests,
         NotificationRequests, BucketAclRequests, ObjectAclRequests,
         DefaultObjectAclRequests
<1>8. Proper(op, o)
  BY <1>3, <1>6, <1>7, ObjectInserted DEF Proper
<1> QED
  BY <1>2, <1>3, <1>8, ObjectRewritten

LEMMA ObjectIsProper ==
  ASSUME NEW op \in {"GetObjectMetadata", "ListObjects", "DeleteObject",
                     "UpdateObject", "PatchObject"},
         NEW o, Checked(op, o), o \subseteq Accepts(op)
  PROVE  Proper(op, o)
<1>1. /\ op = "GetObjectMetadata" => Request(op, o) = <<"GET", "object">>
      /\ op = "ListObjects" => Request(op, o) = <<"GET", "objects">>
      /\ op = "DeleteObject" => Request(op, o) = <<"DELETE", "object">>
      /\ op = "UpdateObject" => Request(op, o) = <<"PUT", "object">>
      /\ op = "PatchObject" => Request(op, o) = <<"PATCH", "object">>
  <2>1. CASE op = "PatchObject"
    BY <2>1, ObjectChangeRequest DEF ObjectChangeRequests
  <2>2. CASE op # "PatchObject"
    <3>1. op \in DOMAIN ObjectRequests
      BY <2>2 DEF ObjectRequests
    <3>2. Request(op, o) = ObjectRequests[op]
      BY <3>1, ObjectRequest
    <3> QED
      BY <2>2, <3>2 DEF ObjectRequests
  <2> QED
    BY <2>1, <2>2
<1>2. "IfMatchEtag" \notin o
  BY DEF Checked
<1>3. \A s, w : CheckObject(s, w, o) /\ Revision(s, w, o) => Holds(op, o, s, w)
  BY <1>2 DEF Holds, BucketRequests
<1>4. CASE op \in {"GetObjectMetadata", "ListObjects"}
  BY <1>1, <1>4, ReadIsProper
<1>5. CASE op = "DeleteObject"
  <2>1. Wire(op, o) = o
    BY <1>1, <1>5, WireIsAll
  <2>2. ASSUME NEW s, NEW w PROVE After(op, o, s, w) = ObjectsDelete(s, w, o).svc
    BY <1>1, <1>5, <2>1 DEF After, Handle, ObjectRoutes
  <2> QED
    BY <1>3, <2>2, ObjectDeleted DEF Proper
<1>6. CASE op \in {"UpdateObject", "PatchObject"}
  <2>1. Wire(op, o) = o
    BY <1>1, <1>6, WireIsAll
  <2>2. ASSUME NEW s, NEW w PROVE After(op, o, s, w) = ObjectsUpdate(s, w, o).svc
    BY <1>1, <1>6, <2>1 DEF After, Handle, ObjectRoutes
  <2>3. Strict(op, o) => "IfMetagenerationMatch" \in o
    <3>1. Strict(op, o) => StrictObjects(op, o)
      BY <1>6 DEF Strict, BucketRequests, BucketPolicyRequests, NotificationRequests,
                  BucketAclRequests, ObjectAclRequests, DefaultObjectAclRequests
    <3>2. StrictObjects(op, o) => "IfMetagenerationMatch" \in o
      BY <1>2, <1>6 DEF StrictObjects
    <3> QED
      BY <3>1, <3>2
  <2> QED
    BY <1>3, <2>2, <2>3, ObjectUpdated DEF Proper
<1> QED
  BY <1>4, <1>5, <1>6

(* Every request of a call that the testbench checks is proper.            *)
LEMMA CheckedIsProper ==
  ASSUME NEW op, NEW o, Checked(op, o), o \subseteq Accepts(op)
  PROVE  Proper(op, o)
<1>1. \/ op \in DOMAIN BucketRequests \/ op \in DOMAIN BucketPolicyRequests
      \/ op \in DOMAIN BucketAclRequests \/ op \in DOMAIN ObjectAclRequests
      \/ op \in DOMAIN DefaultObjectAclRequests \/ op \in DOMAIN NotificationRequests
      \/ op \in {"InsertObjectMedia", "ComposeObject", "RewriteObject"}
      \/ op \in {"GetObjectMetadata", "ListObjects", "DeleteObject",
                 "UpdateObject", "PatchObject"}
  BY DEF Checked, Ops, ObjectRequests, ObjectChangeRequests
<1> QED
  BY <1>1, BucketIsProper, BucketPolicyIsProper, BucketAclIsProper, ObjectAclIsProper,
     DefaultObjectAclIsProper, NotificationIsProper, InsertIsProper, ObjectIsProper

(* A listing changes nothing.                                              *)
LEMMA ListingsRead ==
  ASSUME NEW op \in Listings, NEW o, NEW s, NEW w
  PROVE  After(op, o, s, w) = s
<1>1. Request(op, o) = <<"GET", "project">> \/ Request(op, o) = <<"GET", "objects">>
  BY BucketRequest, ObjectRequest DEF Listings, BucketRequests, ObjectRequests
<1> QED
  BY <1>1, ReadsChangeNothing DEF After

-----------------------------------------------------------------------------
(* The calls.                                                              *)

Open == {"ready", "sent", "answered", "sleeping"}

Statuses == {"kOk", "kUnknown", "kFailedPrecondition", "kUnauthenticated",
             "kPermissionDenied", "kNotFound", "kAborted", "kOutOfRange",
             "kUnavailable", "kInvalidArgument", "kInternal"}

Calls == [pc : Open \cup {"idle", "returned"}, op : Ops \cup {"none"},
          o : SUBSET UNION {Accepts(op) : op \in Ops}, saw : Services,
          failures : Nat, attempts : Nat, status : Statuses,
          outcome : {"none", "value", "status", "exception"}, changes : Nat,
          stirred : BOOLEAN, stale : BOOLEAN, part : Nat, more : BOOLEAN,
          empty : BOOLEAN, expired : BOOLEAN]

CallsTypeInv == svc \in Services /\ call \in [Callers -> Calls]

(* What the call would do to the service once more: nothing.               *)
Inert(k, s) == After(k.op, k.o, s, k.saw) = s

(* The call may not be repeated and has no part left.                      *)
Leaving(k) ==
  /\ k.pc = "answered" /\ ~Policy(k.op, k.o)
  /\ k.status = "kOk" => k.op \notin Listings /\ (k.op = "RewriteObject" => ~k.more)

IdleInv(k) == k.pc = "idle" => k.changes = 0 /\ ~k.stirred
AskedInv(k) == k.pc \in Open => Checked(k.op, k.o) /\ k.o \subseteq Accepts(k.op)
OnceInv(k, s) ==
  k.pc \in Open /\ k.changes > 0 /\ ~k.stirred => Inert(k, s) \/ Leaving(k)

(* The inductive invariant: a call that is under way is one of those that  *)
(* the testbench checks, its attempts have changed nothing that it did not *)
(* want changed, and once it has changed the service another attempt would *)
(* change nothing, or there is none, unless somebody else has changed the  *)
(* service since.                                                          *)
CallsInv ==
  /\ CallsTypeInv
  /\ \A c \in Callers : /\ IdleInv(call[c]) /\ AskedInv(call[c])
                        /\ OnceInv(call[c], svc) /\ ~call[c].stale

(* The idle call, and the services to start with.                          *)
LEMMA Beginnings ==
  /\ StartingServices \subseteq Services
  /\ Idle \in Calls
  /\ Idle.pc = "idle" /\ Idle.changes = 0 /\ ~Idle.stirred /\ ~Idle.stale
<1>1. NewBucket \in Buckets /\ [NewBucket EXCEPT !.notes = {1}, !.next = 2] \in Buckets
  <2>1. NewBucket \in Buckets
    BY DEF NewBucket, Buckets, Roles
  <2>2. ASSUME NEW b \in Buckets, NEW n \in SUBSET Nat, NEW i \in Nat
        PROVE  [b EXCEPT !.notes = n, !.next = i] \in Buckets
    BY DEF Buckets
  <2>3. {1} \in SUBSET Nat /\ 2 \in Nat
    OBVIOUS
  <2> QED
    BY <2>1, <2>2, <2>3, Zenon
<1>2. NoObject \in Objects /\ NewObject(1) \in Objects
  BY DEF NoObject, NewObject, Objects, Roles
<1>3. StartingServices \subseteq Services
  BY <1>1, <1>2 DEF StartingServices, Services
<1>4. [bucket |-> NewBucket, object |-> NoObject] \in Services
  BY <1>1, <1>2 DEF Services
<1> DEFINE w == [bucket |-> NewBucket, object |-> NoObject]
<1> HIDE DEF w
<1>5. Idle = [pc |-> "idle", op |-> "none", o |-> {}, saw |-> w, failures |-> 0,
              attempts |-> 0, status |-> "kOk", outcome |-> "none", changes |-> 0,
              stirred |-> FALSE, stale |-> FALSE, part |-> 1, more |-> FALSE,
              empty |-> FALSE, expired |-> FALSE]
  BY DEF Idle, w
<1>6. w \in Services
  BY <1>4 DEF w
<1>7. Idle \in Calls
  BY <1>5, <1>6 DEF Calls, Open, Statuses
<1>8. Idle.pc = "idle" /\ Idle.changes = 0 /\ ~Idle.stirred /\ ~Idle.stale
  BY <1>5
<1> QED
  BY <1>3, <1>7, <1>8

LEMMA StatusType ==
  ASSUME NEW op, NEW code, NEW garbled
  PROVE  Parsed(op, code, garbled) \in Statuses
<1>1. AsStatus(code) \in Statuses
  BY DEF AsStatus, Statuses
<1> QED
  BY <1>1 DEF Parsed, Statuses

LEMMA CallsInit == Init => CallsInv
<1> SUFFICES ASSUME Init PROVE CallsInv
  OBVIOUS
<1>1. CallsTypeInv
  BY Beginnings DEF Init, CallsTypeInv
<1>2. ASSUME NEW c \in Callers
      PROVE  /\ IdleInv(call[c]) /\ AskedInv(call[c])
             /\ OnceInv(call[c], svc) /\ ~call[c].stale
  <2>1. call[c] = Idle
    BY DEF Init
  <2> QED
    BY <2>1, Beginnings DEF IdleInv, AskedInv, OnceInv, Open
<1> QED
  BY <1>1, <1>2 DEF CallsInv

(* What the service makes of the request of a call.                        *)
LEMMA HandledIs ==
  ASSUME CallsInv, NEW c \in Callers, call[c].pc = "sent", NEW more
  PROVE  LET k == call[c]
             t == Handled(c, more).svc
         IN  /\ t = svc \/ t = After(k.op, k.o, svc, k.saw)
             /\ k.op = "RewriteObject" /\ more => t = svc
<1> DEFINE k == call[c]
<1>1. Checked(k.op, k.o) /\ k.o \subseteq Accepts(k.op)
  BY DEF CallsInv, AskedInv, Open
<1>2. CASE k.op # "RewriteObject"
  BY <1>2 DEF Handled, After
<1>3. CASE k.op = "RewriteObject"
  <2>1. Handled(c, more) = RewriteStep(svc, k.saw, Wire(k.op, k.o), k.expired, more)
    BY <1>3 DEF Handled
  <2>2. ObjectsRewrite(svc, k.saw, Wire(k.op, k.o)).svc = After(k.op, k.o, svc, k.saw)
    BY <1>1, <1>3, InsertIsProper
  <2> QED
    BY <2>1, <2>2 DEF RewriteStep, Answer
<1> QED
  BY <1>2, <1>3

(* An answer.                                                              *)
LEMMA AnsweredRecords ==
  ASSUME CallsInv, NEW c \in Callers, NEW after \in Services, NEW code, NEW garbled,
         NEW says \in [more : BOOLEAN, empty : BOOLEAN, expired : BOOLEAN],
         Answered(c, after, code, garbled, says)
  PROVE  LET k == call[c]
             n == call'[c]
         IN  /\ n \in Calls
             /\ n.pc = "answered" /\ n.op = k.op /\ n.o = k.o /\ n.saw = k.saw
             /\ n.more = says.more
             /\ n.changes = IF after = svc THEN k.changes ELSE k.changes + 1
             /\ n.stirred <=> k.stirred /\ after = svc
             /\ n.stale <=> k.stale \/ (after # svc /\ ~Holds(k.op, k.o, svc, k.saw))
<1> DEFINE k  == call[c]
           st == Parsed(k.op, code, garbled)
           ch == IF after = svc THEN k.changes ELSE k.changes + 1
           si == k.stirred /\ after = svc
           sa == k.stale \/ (after # svc /\ ~Holds(k.op, k.o, svc, k.saw))
           n  == [k EXCEPT !.pc = "answered", !.more = says.more, !.empty = says.empty,
                           !.expired = says.expired, !.status = st, !.changes = ch,
                           !.stirred = si, !.stale = sa]
<1>1. k \in Calls
  BY DEF CallsInv, CallsTypeInv
<1>2. st \in Statuses
  BY StatusType
<1>3. ch \in Nat
  BY <1>1 DEF Calls
<1>4. si \in BOOLEAN /\ sa \in BOOLEAN
  OBVIOUS
<1>5. says.more \in BOOLEAN /\ says.empty \in BOOLEAN /\ says.expired \in BOOLEAN
  OBVIOUS
<1>6. call'[c] = n
  BY DEF Answered
<1> HIDE DEF k, st, ch, si, sa
<1>7. /\ n.pc = "answered" /\ n.op = k.op /\ n.o = k.o /\ n.saw = k.saw
      /\ n.more = says.more /\ n.changes = ch /\ n.stirred = si /\ n.stale = sa
  BY <1>1 DEF Calls
<1>8. n \in Calls
  BY <1>1, <1>2, <1>3, <1>4, <1>5 DEF Calls, Open
<1> HIDE DEF n
<1> QED
  BY <1>6, <1>7, <1>8 DEF k, ch, si, sa

LEMMA OtherRecords ==
  ASSUME CallsInv, NEW c \in Callers, NEW after, NEW code, NEW garbled, NEW says,
         Answered(c, after, code, garbled, says), NEW d \in Callers, d # c
  PROVE  LET k == call[d]
             n == call'[d]
         IN  /\ n \in Calls
             /\ n.pc = k.pc /\ n.op = k.op /\ n.o = k.o /\ n.saw = k.saw
             /\ n.more = k.more /\ n.status = k.status /\ n.changes = k.changes
             /\ n.stirred <=> k.stirred \/ (k.changes > 0 /\ after # svc)
             /\ n.stale <=> k.stale
<1> DEFINE k  == call[d]
           si == k.stirred \/ (k.changes > 0 /\ after # svc)
           n  == [k EXCEPT !.stirred = si]
<1>1. k \in Calls
  BY DEF CallsInv, CallsTypeInv
<1>2. si \in BOOLEAN
  OBVIOUS
<1>3. call'[d] = n
  BY DEF Answered
<1> HIDE DEF k, si
<1>4. /\ n.pc = k.pc /\ n.op = k.op /\ n.o = k.o /\ n.saw = k.saw
      /\ n.more = k.more /\ n.status = k.status /\ n.changes = k.changes
      /\ n.stirred = si /\ n.stale = k.stale
  BY <1>1 DEF Calls
<1>5. n \in Calls
  BY <1>1, <1>2 DEF Calls
<1> HIDE DEF n
<1> QED
  BY <1>3, <1>4, <1>5 DEF k, si

LEMMA AnsweredKeepsInv ==
  ASSUME CallsInv, NEW c \in Callers, call[c].pc = "sent",
         NEW after, NEW code, NEW garbled,
         NEW says \in [more : BOOLEAN, empty : BOOLEAN, expired : BOOLEAN],
         after = svc \/ after = After(call[c].op, call[c].o, svc, call[c].saw),
         call[c].op = "RewriteObject" /\ says.more => after = svc,
         Answered(c, after, code, garbled, says)
  PROVE  /\ after \in Services /\ CallsInv'
         /\ call[c].changes > 0 /\ ~call[c].stirred => after = svc
<1> DEFINE k == call[c]
           n == call'[c]
<1>1. k \in Calls /\ svc \in Services
  BY DEF CallsInv, CallsTypeInv
<1>2. Checked(k.op, k.o) /\ k.o \subseteq Accepts(k.op)
  BY DEF CallsInv, AskedInv, Open
<1>3. Proper(k.op, k.o)
  BY <1>2, CheckedIsProper
<1>4. k.saw \in Services
  BY <1>1 DEF Calls
<1>5. after \in Services
  BY <1>1, <1>3, <1>4 DEF Proper
<1>6. svc' = after /\ call' \in [Callers -> Calls]
  <2>1. \A d \in Callers : call'[d] \in Calls
    BY <1>5, AnsweredRecords, OtherRecords
  <2>2. svc' = after /\ call' = [d \in Callers |-> call'[d]]
    BY DEF Answered
  <2> QED
    BY <2>1, <2>2
<1>7. /\ n.pc = "answered" /\ n.op = k.op /\ n.o = k.o /\ n.saw = k.saw
      /\ n.more = says.more
      /\ n.changes = IF after = svc THEN k.changes ELSE k.changes + 1
      /\ n.stirred <=> k.stirred /\ after = svc
      /\ n.stale <=> k.stale \/ (after # svc /\ ~Holds(k.op, k.o, svc, k.saw))
  BY <1>5, AnsweredRecords
<1>8. ~k.stale /\ (k.changes > 0 /\ ~k.stirred => Inert(k, svc))
  BY DEF CallsInv, OnceInv, Open, Leaving
<1> HIDE DEF k, n
<1>9. IdleInv(n) /\ AskedInv(n)
  BY <1>2, <1>7 DEF IdleInv, AskedInv
<1>10. after # svc => Holds(k.op, k.o, svc, k.saw)
  BY <1>1, <1>3, <1>4 DEF Proper, k
<1>11. ~n.stale
  BY <1>7, <1>8, <1>10
<1>12. OnceInv(n, after)
  <2>1. CASE after = svc
    BY <1>7, <1>8, <2>1 DEF OnceInv, Inert
  <2>2. CASE after # svc
    <3>1. after = After(k.op, k.o, svc, k.saw)
      BY <2>2 DEF k
    <3>2. CASE Policy(k.op, k.o)
      <4>1. Strict(k.op, k.o)
        BY <1>2, <3>2, PolicyAssumption DEF Checked
      <4>2. After(k.op, k.o, after, k.saw) = after
        BY <1>1, <1>3, <1>4, <2>2, <3>1, <4>1 DEF Proper
      <4> QED
        BY <1>7, <4>2 DEF OnceInv, Inert
    <3>3. CASE ~Policy(k.op, k.o)
      <4>1. k.op \notin Listings
        BY <2>2, <3>1, ListingsRead
      <4>2. k.op = "RewriteObject" => ~n.more
        BY <1>7, <2>2 DEF k
      <4> QED
        BY <1>7, <3>3, <4>1, <4>2 DEF OnceInv, Leaving
    <3> QED
      BY <3>2, <3>3
  <2> QED
    BY <2>1, <2>2
<1>13. ASSUME NEW d \in Callers, d # c
       PROVE  /\ IdleInv(call'[d]) /\ AskedInv(call'[d])
              /\ OnceInv(call'[d], after) /\ ~call'[d].stale
  <2> DEFINE j == call[d]
             i == call'[d]
  <2>1. /\ i.pc = j.pc /\ i.op = j.op /\ i.o = j.o /\ i.saw = j.saw
        /\ i.more = j.more /\ i.status = j.status /\ i.changes = j.changes
        /\ i.stirred <=> j.stirred \/ (j.changes > 0 /\ after # svc)
        /\ i.stale <=> j.stale
    BY <1>13, OtherRecords
  <2>2. IdleInv(j) /\ AskedInv(j) /\ OnceInv(j, svc) /\ ~j.stale
    BY DEF CallsInv
  <2>3. j.changes \in Nat
    BY DEF CallsInv, CallsTypeInv, Calls
  <2> HIDE DEF i, j
  <2>4. IdleInv(i) /\ AskedInv(i) /\ ~i.stale
    BY <2>1, <2>2, <2>3 DEF IdleInv, AskedInv
  <2>5. OnceInv(i, after)
    <3>1. CASE after = svc
      BY <2>1, <2>2, <3>1 DEF OnceInv, Inert, Leaving
    <3>2. CASE after # svc
      BY <2>1, <3>2 DEF OnceInv
    <3> QED
      BY <3>1, <3>2
  <2> QED
    BY <2>4, <2>5 DEF i
<1>14. \A d \in Callers : /\ IdleInv(call'[d]) /\ AskedInv(call'[d])
                         /\ OnceInv(call'[d], svc') /\ ~call'[d].stale
  BY <1>6, <1>9, <1>11, <1>12, <1>13 DEF n
<1>15. CallsInv'
  BY <1>5, <1>6, <1>14 DEF CallsInv, CallsTypeInv, IdleInv, AskedInv, OnceInv, Inert, Leaving
<1>16. k.changes > 0 /\ ~k.stirred => after = svc
  BY <1>8 DEF Inert, k
<1> QED
  BY <1>5, <1>15, <1>16 DEF k

(* What a request does to a call, seen from AtMostOnce.                    *)
Phase(k) == IF k.pc \in {"idle", "returned"}
            THEN [idle |-> "idle", returned |-> "closed"][k.pc] ELSE "open"

LEMMA PhaseIs ==
  ASSUME NEW k, k.pc \in Open \cup {"idle", "returned"}
  PROVE  /\ k.pc = "idle" => Phase(k) = "idle"
         /\ k.pc = "returned" => Phase(k) = "closed"
         /\ k.pc \in Open => Phase(k) = "open"
BY DEF Phase, Open

LEMMA AnsweredIsPromised ==
  ASSUME CallsInv, NEW c \in Callers, call[c].pc = "sent",
         NEW after, NEW code, NEW garbled,
         NEW says \in [more : BOOLEAN, empty : BOOLEAN, expired : BOOLEAN],
         after = svc \/ after = After(call[c].op, call[c].o, svc, call[c].saw),
         call[c].op = "RewriteObject" /\ says.more => after = svc,
         Answered(c, after, code, garbled, says)
  PROVE  [Promise!Next]_(Promise!vars)
<1> DEFINE phase   == [d \in Callers |-> Phase(call[d])]
           changes == [d \in Callers |-> call[d].changes]
           stirred == [d \in Callers |-> call[d].stirred]
<1>1. after \in Services /\ (call[c].changes > 0 /\ ~call[c].stirred => after = svc)
  BY AnsweredKeepsInv
<1>2. \A d \in Callers : call[d] \in Calls
  BY DEF CallsInv, CallsTypeInv
<1>3. phase' = phase
  <2>1. \A d \in Callers : Phase(call'[d]) = Phase(call[d])
    <3> TAKE d \in Callers
    <3>1. CASE d = c
      <4>1. call'[c].pc = "answered"
        BY <1>1, AnsweredRecords
      <4> QED
        BY <3>1, <4>1 DEF Phase
    <3>2. CASE d # c
      <4>1. call'[d].pc = call[d].pc
        BY <3>2, OtherRecords
      <4> QED
        BY <4>1 DEF Phase
    <3> QED
      BY <3>1, <3>2
  <2> QED
    BY <2>1 DEF Phase
<1>4. CASE after = svc
  <2>1. \A d \in Callers : call'[d].changes = call[d].changes
    BY <1>1, <1>4, AnsweredRecords, OtherRecords
  <2>2. \A d \in Callers : call'[d].stirred = call[d].stirred
    <3> TAKE d \in Callers
    <3>1. call'[d].stirred <=> call[d].stirred
      BY <1>1, <1>4, AnsweredRecords, OtherRecords
    <3>2. call'[d].stirred \in BOOLEAN /\ call[d].stirred \in BOOLEAN
      BY <1>1, <1>2, AnsweredRecords, OtherRecords DEF Calls
    <3> QED
      BY <3>1, <3>2
  <2> QED
    BY <1>3, <2>1, <2>2 DEF Promise!vars, Phase
<1>5. CASE after # svc
  <2>1. changes' = [changes EXCEPT ![c] = @ + 1]
    <3>1. call'[c].changes = call[c].changes + 1
      BY <1>1, <1>5, AnsweredRecords
    <3>2. \A d \in Callers : d # c => call'[d].changes = call[d].changes
      BY OtherRecords
    <3> QED
      BY <3>1, <3>2
  <2>2. stirred' = [d \in Callers |-> d # c /\ (stirred[d] \/ changes[d] > 0)]
    <3>1. ASSUME NEW d \in Callers
          PROVE  call'[d].stirred = (d # c /\ (call[d].stirred \/ call[d].changes > 0))
      <4>1. call'[d].stirred <=> (d # c /\ (call[d].stirred \/ call[d].changes > 0))
        BY <1>1, <1>5, AnsweredRecords, OtherRecords
      <4>2. call'[d].stirred \in BOOLEAN
        BY <1>1, AnsweredRecords, OtherRecords DEF Calls
      <4> QED
        BY <4>1, <4>2
    <3> QED
      BY <3>1
  <2>3. phase[c] = "open" /\ (changes[c] = 0 \/ stirred[c])
    BY <1>1, <1>2, <1>5 DEF Phase, Calls
  <2>4. Promise!Change(c)
    BY <1>3, <2>1, <2>2, <2>3 DEF Promise!Change, Phase
  <2> QED
    BY <2>4 DEF Promise!Next
<1> QED
  BY <1>4, <1>5

(* A step that only concerns one call and leaves the service alone.        *)
LEMMA OwnStep ==
  ASSUME CallsInv, NEW c \in Callers, NEW n \in Calls,
         UNCHANGED svc, call' = [call EXCEPT ![c] = n],
         IdleInv(n), AskedInv(n), OnceInv(n, svc), ~n.stale,
         n.changes = call[c].changes, n.stirred = call[c].stirred,
         \/ n.pc \in Open /\ call[c].pc \in Open \cup {"idle"}
         \/ n.pc = "returned" /\ call[c].pc \in Open
  PROVE  CallsInv' /\ [Promise!Next]_(Promise!vars)
<1> DEFINE phase   == [d \in Callers |-> Phase(call[d])]
           changes == [d \in Callers |-> call[d].changes]
           stirred == [d \in Callers |-> call[d].stirred]
<1>1. call \in [Callers -> Calls]
  BY DEF CallsInv, CallsTypeInv
<1>2. call'[c] = n /\ \A d \in Callers : d # c => call'[d] = call[d]
  BY <1>1
<1>3. CallsTypeInv'
  BY <1>1 DEF CallsInv, CallsTypeInv
<1>4. \A d \in Callers : /\ IdleInv(call'[d]) /\ AskedInv(call'[d])
                        /\ OnceInv(call'[d], svc') /\ ~call'[d].stale
  <2> TAKE d \in Callers
  <2>1. CASE d = c
    BY <1>2, <2>1
  <2>2. CASE d # c
    BY <1>2, <2>2 DEF CallsInv
  <2> QED
    BY <2>1, <2>2
<1>5. CallsInv'
  BY <1>3, <1>4 DEF CallsInv, IdleInv, AskedInv, OnceInv, Inert, Leaving
<1>6. changes' = changes /\ stirred' = stirred
  BY <1>2
<1>7. phase' = [phase EXCEPT ![c] = Phase(n)]
  <2>1. \A d \in Callers : Phase(call'[d]) = IF d = c THEN Phase(n) ELSE Phase(call[d])
    BY <1>2
  <2>2. phase' = [d \in Callers |-> Phase(call'[d])]
    BY DEF Phase
  <2> QED
    BY <2>1, <2>2
<1>8. n.pc \in Open \cup {"idle", "returned"} /\ call[c].pc \in Open \cup {"idle", "returned"}
  BY <1>1 DEF Calls
<1>9. CASE n.pc \in Open /\ call[c].pc \in Open
  <2>1. Phase(n) = phase[c]
    BY <1>8, <1>9, PhaseIs
  <2>2. phase' = phase
    BY <1>7, <2>1
  <2> QED
    BY <1>5, <1>6, <2>2 DEF Promise!vars, Phase
<1>10. CASE n.pc \in Open /\ call[c].pc = "idle"
  <2>1. Phase(n) = "open" /\ phase[c] = "idle"
    BY <1>8, <1>10, PhaseIs
  <2>2. Promise!Begin(c)
    BY <1>6, <1>7, <2>1 DEF Promise!Begin, Phase
  <2> QED
    BY <1>5, <2>2 DEF Promise!Next
<1>11. CASE n.pc = "returned" /\ call[c].pc \in Open
  <2>1. Phase(n) = "closed" /\ phase[c] = "open"
    BY <1>8, <1>11, PhaseIs
  <2>2. Promise!End(c)
    BY <1>6, <1>7, <2>1 DEF Promise!End, Phase
  <2> QED
    BY <1>5, <2>2 DEF Promise!Next
<1> QED
  BY <1>9, <1>10, <1>11

LEMMA StartStep ==
  ASSUME CallsInv, NEW c \in Callers, Start(c)
  PROVE  CallsInv' /\ [Promise!Next]_(Promise!vars)
<1>1. PICK ask \in Asked[c] :
        /\ ask[1] \in Retried /\ ask[2] \subseteq Accepts(ask[1])
        /\ call' = [call EXCEPT ![c] = [Idle EXCEPT !.pc = "ready",
                      !.op = ask[1], !.o = ask[2], !.saw = svc]]
  BY DEF Start
<1>2. Checked(ask[1], ask[2])
  BY AskedAssumption
<1> DEFINE op == ask[1]
           o  == ask[2]
           n  == [Idle EXCEPT !.pc = "ready", !.op = op, !.o = o, !.saw = svc]
<1>3. op \in Ops /\ o \in SUBSET UNION {Accepts(x) : x \in Ops} /\ svc \in Services
  BY <1>1, <1>2 DEF Checked, CallsInv, CallsTypeInv
<1>4. call' = [call EXCEPT ![c] = n]
  BY <1>1
<1>5. Checked(op, o) /\ o \subseteq Accepts(op)
  BY <1>1, <1>2
<1> HIDE DEF op, o
<1>6. n \in Calls
  BY <1>3, Beginnings DEF Calls, Open
<1>7. /\ n.pc = "ready" /\ n.op = op /\ n.o = o /\ n.changes = Idle.changes
      /\ n.stirred = Idle.stirred /\ n.stale = Idle.stale
  BY Beginnings DEF Calls
<1>8. call[c].pc = "idle" /\ UNCHANGED svc
  BY DEF Start
<1>9. call[c].changes = 0 /\ ~call[c].stirred /\ call[c].stirred \in BOOLEAN
  BY <1>8 DEF CallsInv, CallsTypeInv, IdleInv, Calls
<1> HIDE DEF n
<1>10. Idle.stirred \in BOOLEAN
  BY Beginnings DEF Calls
<1>11. n.changes = call[c].changes /\ n.stirred = call[c].stirred
  BY <1>7, <1>9, <1>10, Beginnings
<1>12. IdleInv(n) /\ AskedInv(n) /\ OnceInv(n, svc) /\ ~n.stale
  BY <1>5, <1>7, Beginnings DEF IdleInv, AskedInv, OnceInv
<1>13. n.pc \in Open /\ call[c].pc \in Open \cup {"idle"}
  BY <1>7, <1>8 DEF Open
<1> QED
  BY <1>4, <1>6, <1>8, <1>11, <1>12, <1>13, OwnStep

(* A call goes on without an answer of the service.                        *)
LEMMA GoesOn ==
  ASSUME CallsInv, NEW c \in Callers, NEW n \in Calls,
         UNCHANGED svc, call' = [call EXCEPT ![c] = n],
         call[c].pc \in Open, n.pc \in Open,
         n.op = call[c].op, n.o = call[c].o, n.saw = call[c].saw,
         n.changes = call[c].changes, n.stirred = call[c].stirred,
         n.stale = call[c].stale, ~Leaving(call[c])
  PROVE  CallsInv' /\ [Promise!Next]_(Promise!vars)
<1>1. /\ AskedInv(call[c]) /\ OnceInv(call[c], svc) /\ ~call[c].stale
  BY DEF CallsInv
<1>2. IdleInv(n) /\ AskedInv(n) /\ OnceInv(n, svc) /\ ~n.stale
  BY <1>1 DEF IdleInv, AskedInv, OnceInv, Inert, Open
<1> QED
  BY <1>2, OwnStep

(* A call ends.                                                            *)
LEMMA Ends ==
  ASSUME CallsInv, NEW c \in Callers, NEW n \in Calls,
         UNCHANGED svc, call' = [call EXCEPT ![c] = n],
         call[c].pc \in Open, n.pc = "returned",
         n.changes = call[c].changes, n.stirred = call[c].stirred,
         n.stale = call[c].stale
  PROVE  CallsInv' /\ [Promise!Next]_(Promise!vars)
<1>1. ~call[c].stale
  BY DEF CallsInv
<1>2. IdleInv(n) /\ AskedInv(n) /\ OnceInv(n, svc) /\ ~n.stale
  BY <1>1 DEF IdleInv, AskedInv, OnceInv, Open
<1> QED
  BY <1>2, OwnStep

LEMMA ReadyStep ==
  ASSUME CallsInv, NEW c \in Callers, Unauthorized(c) \/ Send(c)
  PROVE  CallsInv' /\ [Promise!Next]_(Promise!vars)
<1> DEFINE k == call[c]
<1>1. k \in Calls /\ call \in [Callers -> Calls]
  BY DEF CallsInv, CallsTypeInv
<1>2. k.pc = "ready" /\ UNCHANGED svc
  BY DEF Unauthorized, Send
<1>3. ~Leaving(k) /\ k.pc \in Open
  BY <1>2 DEF Leaving, Open
<1>4. PICK p \in {"answered", "sent"}, s \in Statuses :
        call' = [call EXCEPT ![c] = [k EXCEPT !.pc = p, !.status = s, !.attempts = @ + 1]]
  <2>1. CASE Unauthorized(c)
    <3>1. PICK s \in AuthFailures :
            call' = [call EXCEPT ![c].pc = "answered", ![c].status = s,
                                 ![c].attempts = @ + 1]
      BY <2>1 DEF Unauthorized
    <3>2. s \in Statuses
      BY DEF AuthFailures, Statuses
    <3>3. call' = [call EXCEPT ![c] = [k EXCEPT !.pc = "answered", !.status = s,
                                               !.attempts = @ + 1]]
      BY <1>1, <3>1 DEF Calls
    <3> QED
      BY <3>2, <3>3
  <2>2. CASE Send(c)
    <3>1. call' = [call EXCEPT ![c].pc = "sent", ![c].attempts = @ + 1]
      BY <2>2 DEF Send
    <3>2. k.status \in Statuses
      BY <1>1 DEF Calls
    <3>3. call' = [call EXCEPT ![c] = [k EXCEPT !.pc = "sent", !.status = k.status,
                                               !.attempts = @ + 1]]
      BY <1>1, <3>1 DEF Calls
    <3> QED
      BY <3>2, <3>3
  <2> QED
    BY <2>1, <2>2
<1> DEFINE a == k.attempts + 1
           n == [k EXCEPT !.pc = p, !.status = s, !.attempts = a]
<1>9. a \in Nat
  BY <1>1 DEF Calls
<1> HIDE DEF k, a
<1>5. n \in Calls
  BY <1>1, <1>9 DEF Calls, Open
<1>6. /\ n.pc = p /\ n.op = k.op /\ n.o = k.o /\ n.saw = k.saw
      /\ n.changes = k.changes /\ n.stirred = k.stirred /\ n.stale = k.stale
  BY <1>1 DEF Calls
<1>7. n.pc \in Open
  BY <1>6 DEF Open
<1>8. call' = [call EXCEPT ![c] = n]
  BY <1>4 DEF a
<1> HIDE DEF n
<1> QED
  BY <1>2, <1>3, <1>5, <1>6, <1>7, <1>8, GoesOn DEF k

LEMMA WakeStep ==
  ASSUME CallsInv, NEW c \in Callers, Wake(c)
  PROVE  CallsInv' /\ [Promise!Next]_(Promise!vars)
<1> DEFINE k == call[c]
           n == [k EXCEPT !.pc = "ready"]
<1>1. k \in Calls /\ call \in [Callers -> Calls]
  BY DEF CallsInv, CallsTypeInv
<1>2. k.pc = "sleeping" /\ UNCHANGED svc
  BY DEF Wake
<1>3. ~Leaving(k) /\ k.pc \in Open
  BY <1>2 DEF Leaving, Open
<1>4. call' = [call EXCEPT ![c] = n]
  BY <1>1 DEF Wake, Calls
<1> HIDE DEF k
<1>5. n \in Calls
  BY <1>1 DEF Calls, Open
<1>6. /\ n.pc \in Open /\ n.op = k.op /\ n.o = k.o /\ n.saw = k.saw
      /\ n.changes = k.changes /\ n.stirred = k.stirred /\ n.stale = k.stale
  BY <1>1 DEF Calls, Open
<1> HIDE DEF n
<1> QED
  BY <1>2, <1>3, <1>4, <1>5, <1>6, GoesOn DEF k

LEMMA ReturnStep ==
  ASSUME CallsInv, NEW c \in Callers, Return(c)
  PROVE  CallsInv' /\ [Promise!Next]_(Promise!vars)
<1> DEFINE k == call[c]
           over(x)  == [k EXCEPT !.pc = "returned", !.saw = Idle.saw, !.outcome = x]
           tired(x) == [over(x) EXCEPT !.failures = @ + 1]
           part     == k.part + 1
           failures == k.failures + 1
           next     == [k EXCEPT !.pc = "ready", !.part = part, !.failures = 0,
                                 !.attempts = 0, !.more = FALSE, !.expired = FALSE]
           again    == [k EXCEPT !.pc = "sleeping", !.failures = failures]
<1>1. k \in Calls /\ k.pc = "answered" /\ UNCHANGED svc
  BY DEF CallsInv, CallsTypeInv, Return
<1>2. FailureOf(k.op) \in {"status", "exception"}
  BY DEF FailureOf, PageFailure
<1>3. k.pc \in Open /\ Idle.saw \in Services
  BY <1>1, Beginnings DEF Open, Calls
<1>4. \/ \E x \in {"value", "status", "exception"} :
           \/ call' = [call EXCEPT ![c] = over(x)]
           \/ call' = [call EXCEPT ![c] = tired(x)]
      \/ call' = [call EXCEPT ![c] = next] /\ ~Leaving(k)
      \/ call' = [call EXCEPT ![c] = again] /\ ~Leaving(k)
  <2>1. CASE k.status = "kOk"
    <3>1. call' = [call EXCEPT ![c] = Succeed(k)]
      BY <2>1 DEF Return
    <3>2. Succeed(k) = over("value") \/ (Succeed(k) = next /\ ~Leaving(k))
      <4>1. CASE k.op \in Listings
        <5>1. Succeed(k) = GetNext(k)
          BY <4>1 DEF Succeed, Listings
        <5>2. ~Leaving(k)
          BY <2>1, <4>1 DEF Leaving
        <5> QED
          BY <5>1, <5>2 DEF GetNext, NextPart, Ended
      <4>2. CASE k.op = "RewriteObject"
        <5>1. Succeed(k) = Iterate(k)
          BY <4>2 DEF Succeed, Listings
        <5>2. k.more => ~Leaving(k)
          BY <2>1, <4>2 DEF Leaving
        <5> QED
          BY <5>1, <5>2 DEF Iterate, NextPart, Ended
      <4>3. CASE k.op \notin Listings /\ k.op # "RewriteObject"
        BY <4>3 DEF Succeed, Ended
      <4> QED
        BY <4>1, <4>2, <4>3
    <3> QED
      BY <3>1, <3>2
  <2>2. CASE k.status # "kOk" /\ Policy(k.op, k.o)
    <3>1. ~Leaving(k)
      BY <2>2 DEF Leaving
    <3>2. \/ call' = [call EXCEPT ![c] = over(FailureOf(k.op))]
          \/ call' = [call EXCEPT ![c] = tired(FailureOf(k.op))]
          \/ call' = [call EXCEPT ![c] = again]
      BY <2>2 DEF Return, Ended
    <3> QED
      BY <1>2, <3>1, <3>2
  <2>3. CASE k.status # "kOk" /\ ~Policy(k.op, k.o)
    <3>1. call' = [call EXCEPT ![c] = over(FailureOf(k.op))]
      BY <2>3 DEF Return, Ended
    <3> QED
      BY <1>2, <3>1
  <2> QED
    BY <2>1, <2>2, <2>3
<1>12. part \in Nat /\ failures \in Nat
  BY <1>1 DEF Calls
<1> HIDE DEF k, part, failures
<1>5. ASSUME NEW x \in {"value", "status", "exception"}
      PROVE  /\ over(x) \in Calls /\ over(x).pc = "returned"
             /\ over(x).changes = k.changes /\ over(x).stirred = k.stirred
             /\ over(x).stale = k.stale
  BY <1>1, <1>3 DEF Calls
<1>6. ASSUME NEW x \in {"value", "status", "exception"}
      PROVE  /\ tired(x) \in Calls /\ tired(x).pc = "returned"
             /\ tired(x).changes = k.changes /\ tired(x).stirred = k.stirred
             /\ tired(x).stale = k.stale
  <2> HIDE DEF over
  <2> QED
    BY <1>5 DEF Calls
<1>7. /\ next \in Calls /\ next.pc \in Open /\ next.op = k.op /\ next.o = k.o
      /\ next.saw = k.saw /\ next.changes = k.changes /\ next.stirred = k.stirred
      /\ next.stale = k.stale
  <2>1. next \in Calls
    BY <1>1, <1>12 DEF Calls, Open
  <2> QED
    BY <1>1, <2>1 DEF Calls, Open
<1>8. /\ again \in Calls /\ again.pc \in Open /\ again.op = k.op /\ again.o = k.o
      /\ again.saw = k.saw /\ again.changes = k.changes /\ again.stirred = k.stirred
      /\ again.stale = k.stale
  <2>1. again \in Calls
    BY <1>1, <1>12 DEF Calls, Open
  <2> QED
    BY <1>1, <2>1 DEF Calls, Open
<1> HIDE DEF over, tired, next, again
<1>9. CASE \E x \in {"value", "status", "exception"} :
             \/ call' = [call EXCEPT ![c] = over(x)]
             \/ call' = [call EXCEPT ![c] = tired(x)]
  BY <1>1, <1>3, <1>5, <1>6, <1>9, Ends DEF k
<1>10. CASE call' = [call EXCEPT ![c] = next] /\ ~Leaving(k)
  BY <1>1, <1>3, <1>7, <1>10, GoesOn DEF k
<1>11. CASE call' = [call EXCEPT ![c] = again] /\ ~Leaving(k)
  BY <1>1, <1>3, <1>8, <1>11, GoesOn DEF k
<1> QED
  BY <1>4, <1>9, <1>10, <1>11

LEMMA SentStep ==
  ASSUME CallsInv, NEW c \in Callers, Serve(c) \/ Lose(c) \/ ServeAndLose(c)
  PROVE  CallsInv' /\ [Promise!Next]_(Promise!vars)
<1>1. call[c].pc = "sent"
  BY DEF Serve, Lose, ServeAndLose
<1>2. call[c] \in Calls
  BY DEF CallsInv, CallsTypeInv
<1>3. PICK after, code, garbled, says :
        /\ says \in [more : BOOLEAN, empty : BOOLEAN, expired : BOOLEAN]
        /\ after = svc \/ after = After(call[c].op, call[c].o, svc, call[c].saw)
        /\ call[c].op = "RewriteObject" /\ says.more => after = svc
        /\ Answered(c, after, code, garbled, says)
  <2>1. CASE Serve(c)
    <3>1. PICK garbled \in BOOLEAN, s \in Says(c, FALSE) :
            Answered(c, Handled(c, s.more).svc, Handled(c, s.more).code, garbled, s)
      BY <2>1 DEF Serve
    <3>2. s \in [more : BOOLEAN, empty : BOOLEAN, expired : BOOLEAN]
      BY DEF Says
    <3> QED
      BY <1>1, <3>1, <3>2, HandledIs
  <2>2. CASE Lose(c)
    <3>1. PICK code \in FaultCodes : Answered(c, svc, code, FALSE, Silence(c))
      BY <2>2 DEF Lose
    <3>2. Silence(c) \in [more : BOOLEAN, empty : BOOLEAN, expired : BOOLEAN]
      BY <1>2 DEF Silence, Calls
    <3> QED
      BY <3>1, <3>2
  <2>3. CASE ServeAndLose(c)
    <3>1. PICK code \in FaultCodes, s \in Says(c, TRUE) :
            Answered(c, Handled(c, s.more).svc, code, FALSE,
                     [Silence(c) EXCEPT !.expired = s.expired])
      BY <2>3 DEF ServeAndLose
    <3> DEFINE says == [Silence(c) EXCEPT !.expired = s.expired]
    <3>2. s.expired \in BOOLEAN
      BY DEF Says
    <3>3. says \in [more : BOOLEAN, empty : BOOLEAN, expired : BOOLEAN] /\ ~says.more
      BY <1>2, <3>2 DEF Silence, Calls
    <3>4. \/ Handled(c, s.more).svc = svc
          \/ Handled(c, s.more).svc = After(call[c].op, call[c].o, svc, call[c].saw)
      BY <1>1, HandledIs
    <3>5. Answered(c, Handled(c, s.more).svc, code, FALSE, says)
      BY <3>1
    <3> HIDE DEF says
    <3> QED
      BY <3>3, <3>4, <3>5
  <2> QED
    BY <2>1, <2>2, <2>3
<1>4. CallsInv'
  BY <1>1, <1>3, AnsweredKeepsInv
<1>5. [Promise!Next]_(Promise!vars)
  BY <1>1, <1>3, AnsweredIsPromised
<1> QED
  BY <1>4, <1>5

LEMMA CallsStep ==
  ASSUME CallsInv, [Next]_vars
  PROVE  CallsInv' /\ [Promise!Next]_(Promise!vars)
<1>1. CASE UNCHANGED vars
  BY <1>1 DEF vars, CallsInv, CallsTypeInv, IdleInv, AskedInv, OnceInv, Inert, Leaving,
              Promise!vars
<1>2. ASSUME NEW c \in Callers,
             \/ Start(c) \/ Unauthorized(c) \/ Send(c) \/ Serve(c) \/ Lose(c)
             \/ ServeAndLose(c) \/ Return(c) \/ Wake(c)
      PROVE  CallsInv' /\ [Promise!Next]_(Promise!vars)
  BY <1>2, StartStep, ReadyStep, SentStep, ReturnStep, WakeStep
<1> QED
  BY <1>1, <1>2 DEF Next

(* Every reachable state has the inductive invariant, the types of the     *)
(* service and of the calls of RetryClient included.                       *)
THEOREM CallsInvHolds == Spec => []CallsInv
<1>1. CallsInv /\ [Next]_vars => CallsInv'
  BY CallsStep
<1> QED
  BY <1>1, CallsInit, PTL DEF Spec

(* A request that carries preconditions changes the service only in a      *)
(* state in which they hold, through the JSON and the XML API and with any *)
(* number of callers, attempts and lost answers (InsertObjectMediaXml and  *)
(* the other requests of CurlClient, MakeCall of RetryClient).             *)
THEOREM PreconditionsHonoured == Spec => []PreconditionHonoured
<1>1. CallsInv => PreconditionHonoured
  BY DEF CallsInv, PreconditionHonoured
<1> QED
  BY <1>1, CallsInvHolds, PTL

(* Under StrictIdempotencyPolicy or a stricter policy the calls of         *)
(* RetryClient implement calls that change the service at most once, also  *)
(* when answers are lost and other callers change the service meanwhile.   *)
THEOREM CallsImplementPromise == Spec => RetriesChangeOnce
<1>1. Init => Promise!Init
  <2> SUFFICES ASSUME Init PROVE Promise!Init
    OBVIOUS
  <2>1. \A c \in Callers : call[c] = Idle
    BY DEF Init
  <2>2. Phase(Idle) = "idle"
    BY Beginnings DEF Phase
  <2>3. Idle.stirred = FALSE
    BY DEF Idle
  <2> QED
    BY <2>1, <2>2, <2>3, Beginnings DEF Promise!Init, Phase
<1>2. CallsInv /\ [Next]_vars => [Promise!Next]_(Promise!vars)
  BY CallsStep
<1> QED
  BY <1>1, <1>2, CallsInvHolds, PTL DEF Spec, RetriesChangeOnce, Promise!Spec

-----------------------------------------------------------------------------
(* Metadata.  Every write is one of two functions on the document of the    *)
(* service, and the lemmas say what a reader sees of the result; Client    *)
(* adds what the precondition of an update rests on.                       *)


Kind == {"bucket", "object", "notification"}

(* Documents of the service have writeable fields only.                    *)
Docs(k) == UNION {[D -> Values] : D \in SUBSET Writeable(k)}

Exists(s) == s.exists

Resource(k) == [exists : BOOLEAN, doc : Docs(k), meta : Nat]

PCs == {"idle", "read", "edited", "refused", "written"}
Ways == {"none", "patch", "update", "guarded", "insert"}
Held(k) == {<<>>} \cup [Fields(k) -> Values \cup {Null}]

ClientRecord(k) ==
  [pc : PCs, original : Held(k), updated : Held(k), meta : Nat, how : Ways,
   edit : Fields(k) \cup {"none"}, done : Nat]

(* What a client has read is what a reader would see, unless the           *)
(* metageneration has changed since.                                       *)
Fresh(k, s, a) ==
  /\ a.meta <= s.meta
  /\ a.meta = s.meta => \A f \in Fields(k) : a.original[f] = ParseField(s.doc, f)

(* One field is edited.                                                    *)
Edited(k, a) ==
  /\ a.edit \in Fields(k)
  /\ a.updated \in [Fields(k) -> Values]
  /\ \A f \in Fields(k) : a.updated[f] # a.original[f] <=> f = a.edit

Client(k, s, a) ==
  /\ a \in ClientRecord(k)
  /\ a.done <= s.meta
  /\ a.pc = "read" => a.updated = a.original /\ a.updated \in [Fields(k) -> Values]
  /\ a.pc = "edited" => Edited(k, a)
  /\ a.pc \in {"read", "edited"} => Fresh(k, s, a)

MetadataInv ==
  /\ kind \in Kind
  /\ resource \in Resource(kind)
  /\ DOMAIN app = Clients
  /\ \A c \in Clients : Client(kind, resource, app[c])
  /\ ~Exists(resource) => resource.meta = 0 /\ \A c \in Clients : app[c].pc = "idle"

(* Touched and Carried for the record of a client.                         *)
TouchedBy(k, a) ==
  IF a.edit \in MapKeys(k) /\ \A f \in MapKeys(k) : a.updated[f] = 0
    THEN MapKeys(k) ELSE {a.edit}

CarriedBy(k, a) ==
  /\ a.edit \in Writeable(k)
  /\ a.how \in {"update", "guarded", "insert"} =>
       /\ a.edit # "temporaryHold"
       /\ a.edit \notin Hollow
       /\ a.updated[a.edit] # 0 \/ a.edit \in Booleans

(* The write of a is still there, or a later one of d is to blame.         *)
There(doc, a) == ParseField(doc, a.edit) = Seen(a.edit, a.updated[a.edit])

Blames(k, a, d) ==
  /\ d.pc = "written" /\ d.done > a.done
  /\ d.how = "update" \/ a.edit \in TouchedBy(k, d)

(* What a step of one client may do: its record a becomes b, and the        *)
(* service s becomes t.                                                     *)
Effect(k, s, t, a, b) ==
  /\ t \in Resource(k) /\ Exists(t) /\ (t = s \/ t.meta = s.meta + 1)
  /\ Client(k, t, b)
  /\ a.pc # "written"
  /\ b.pc = "written" => b.done = s.meta + 1
  /\ b.pc = "written" /\ CarriedBy(k, b) => There(t.doc, b)
  /\ \A f \in Writeable(k) :
       \/ ParseField(t.doc, f) = ParseField(s.doc, f)
       \/ b.pc = "written" /\ (b.how = "update" \/ f \in TouchedBy(k, b))
  /\ b.how = "patch" /\ a.how # "patch" =>
       \A f \in Writeable(k) :
         IF f = b.edit THEN ParseField(t.doc, f) = Seen(f, b.updated[f])
         ELSE ParseField(t.doc, f) = ParseField(s.doc, f) \/ f \in TouchedBy(k, b)

------------------------------------------------------------------------------
(* Fields and documents.                                                    *)

(* What a reader sees of a field, and which fields there are.               *)
LEMMA KindFields ==
  ASSUME NEW k \in Kind
  PROVE  /\ Writeable(k) \subseteq Fields(k) /\ MapKeys(k) \subseteq Writeable(k)
         /\ \A doc : \A f \in Fields(k) : ParseFromJson(k, doc)[f] = ParseField(doc, f)
<1>1. CASE k = "bucket"
  BY <1>1 DEF Writeable, BucketWriteable, MapKeys, Fields, BucketFields, ParseFromJson, ParseBucket
<1>2. CASE k = "object"
  BY <1>2 DEF Writeable, ObjectWriteable, MapKeys, Fields, ObjectFields, ParseFromJson, ParseObject
<1>3. CASE k = "notification"
  BY <1>3 DEF Writeable, MapKeys, Fields, NotificationFields, ParseFromJson, ParseNotification
<1>4. QED
  BY <1>1, <1>2, <1>3 DEF Kind

(* The value of a read.                                                     *)
LEMMA ParseIs ==
  ASSUME NEW k \in Kind, NEW doc \in Docs(k)
  PROVE  /\ ParseFromJson(k, doc) \in [Fields(k) -> Values]
         /\ \A f \in Fields(k) : ParseField(doc, f) \in Values
<1>1. \A f : ParseField(doc, f) \in Values
  BY DEF ParseField, Docs, Values
<1>2. CASE k = "bucket"
  BY <1>1, <1>2 DEF Fields, ParseFromJson, ParseBucket
<1>3. CASE k = "object"
  BY <1>1, <1>3 DEF Fields, ParseFromJson, ParseObject
<1>4. CASE k = "notification"
  BY <1>1, <1>4 DEF Fields, ParseFromJson, ParseNotification
<1>5. QED
  BY <1>1, <1>2, <1>3, <1>4 DEF Kind

(* The patch builders send what a reader is to see, or erase the field.     *)
LEMMA SetFieldIs ==
  ASSUME NEW f, NEW x \in Values
  PROVE  /\ SetField(f, x) \in Values \cup {Null}
         /\ Seen(f, x) = IF SetField(f, x) = Null THEN 0 ELSE SetField(f, x)
<1> DEFINE keys == {"labels.a", "labels.b", "metadata.a", "metadata.b"}
           others == BucketLists \cup BucketStructs \cup keys
<1>1. x \in Int /\ x # Null /\ 0 \in Values
  BY DEF Values, Null
<1>2. /\ f \in Booleans => f \notin Hollow /\ f \notin others
      /\ f \in Hollow <=> (f = Lifecycle \/ f = IamConfiguration)
      /\ f = Lifecycle => f # IamConfiguration
      /\ f \in Hollow => f \notin others
  BY DEF Hollow, Booleans, Lifecycle, IamConfiguration, BucketLists, BucketStructs
<1>3. SetField(f, x) = IF f \in Booleans THEN x
                       ELSE IF f \in Hollow THEN IF x \in {0, 1} THEN Null ELSE x
                       ELSE IF x = 0 THEN Null ELSE x
  BY <1>2 DEF SetField, SetBool, SetLifecycle, SetIamConfiguration, SetList, SetStruct,
              SetKey, SetString
<1>4. QED
  BY <1>1, <1>2, <1>3 DEF Seen

(* What a patch of the fields in D, with the values of u, does to doc.      *)
PatchOf(D, u) == [f \in D |-> SetField(f, u[f])]

Patched(k, doc, D, u) == ApplyPatch(doc, RemoveNonWriteable(k, PatchOf(D, u)))

(* What a reader sees after it.                                             *)
LEMMA PatchDoc ==
  ASSUME NEW k \in Kind, NEW doc \in Docs(k), NEW D, NEW u,
         D \subseteq Fields(k), \A f \in D : u[f] \in Values
  PROVE  /\ Patched(k, doc, D, u) \in Docs(k)
         /\ \A f \in Writeable(k) : ParseField(Patched(k, doc, D, u), f)
              = IF f \in D THEN Seen(f, u[f]) ELSE ParseField(doc, f)
<1> PICK patch : patch = PatchOf(D, u)
  OBVIOUS
<1> PICK new : new = ApplyPatch(doc, RemoveNonWriteable(k, patch))
  OBVIOUS
<1> DEFINE W == D \cap Writeable(k)
           set == {f \in W : SetField(f, u[f]) # Null}
           kept == DOMAIN doc \ W
           val(f) == IF f \in set THEN SetField(f, u[f]) ELSE doc[f]
<1>1. RemoveNonWriteable(k, patch) = [f \in W |-> SetField(f, u[f])]
  BY DEF RemoveNonWriteable, PatchOf
<1>2. PICK p : p = RemoveNonWriteable(k, patch)
  OBVIOUS
<1>3. DOMAIN p = W /\ \A f \in W : p[f] = SetField(f, u[f])
  BY <1>1, <1>2
<1>4. {f \in DOMAIN p : p[f] # Null} = set
  BY <1>3
<1>5. new = [f \in kept \cup set |-> IF f \in set THEN p[f] ELSE doc[f]]
  BY <1>2, <1>3, <1>4 DEF ApplyPatch
<1>6. DOMAIN new = kept \cup set
  BY <1>5
<1>7. \A f \in kept \cup set : new[f] = val(f)
  BY <1>3, <1>5
<1>8. DOMAIN doc \subseteq Writeable(k) /\ \A f \in DOMAIN doc : doc[f] \in Values
  BY DEF Docs
<1>9. \A f \in D : /\ SetField(f, u[f]) \in Values \cup {Null}
                   /\ Seen(f, u[f]) = IF SetField(f, u[f]) = Null THEN 0 ELSE SetField(f, u[f])
  BY SetFieldIs
<1>10. \A f \in kept \cup set : val(f) \in Values
  BY <1>8, <1>9
<1>11. new \in Docs(k)
  <2>1. new \in [kept \cup set -> Values]
    BY <1>5, <1>7, <1>10
  <2>2. kept \cup set \in SUBSET Writeable(k)
    BY <1>8
  <2>3. QED
    BY <2>1, <2>2 DEF Docs
<1>12. ASSUME NEW f \in Writeable(k)
       PROVE  ParseField(new, f) = IF f \in D THEN Seen(f, u[f]) ELSE ParseField(doc, f)
  <2>1. CASE f \in set
    BY <1>6, <1>7, <1>9, <2>1 DEF ParseField
  <2>2. CASE f \in D /\ f \notin set
    BY <1>6, <1>9, <1>12, <2>2 DEF ParseField
  <2>3. CASE f \notin D
    BY <1>6, <1>7, <2>3 DEF ParseField
  <2>4. QED
    BY <2>1, <2>2, <2>3
<1>13. QED
  BY <1>11, <1>12 DEF Patched

(* PatchRequest of a value in which one field is edited.                    *)
LEMMA PatchFields ==
  ASSUME NEW k \in {"bucket", "object"}, NEW a, Edited(k, a)
  PROVE  \E D : /\ D \subseteq Fields(k) /\ a.edit \in D /\ D \subseteq TouchedBy(k, a) \cup {a.edit}
               /\ PatchRequest(k, a.original, a.updated) = PatchOf(D, a.updated)
<1> DEFINE fp == FieldsPatch(k, a.original, a.updated)
           mp == MapPatch(k, a.original, a.updated)
           changed == {f \in MapKeys(k) : a.original[f] # a.updated[f]}
<1>1. MapKeys(k) \subseteq Fields(k)
  BY KindFields DEF Kind
<1>2. \A f \in Fields(k) : a.original[f] # a.updated[f] <=> f = a.edit
  BY DEF Edited
<1>3. a.edit \in Fields(k)
  BY DEF Edited
<1>4. fp = IF a.edit \in MapKeys(k) THEN {} ELSE {a.edit}
  BY <1>1, <1>2, <1>3 DEF FieldsPatch
<1>5. changed = IF a.edit \in MapKeys(k) THEN {a.edit} ELSE {}
  BY <1>1, <1>2
<1>6. mp = IF changed # {} /\ \A f \in MapKeys(k) : a.updated[f] = 0
             THEN MapKeys(k) ELSE changed
  BY Zenon DEF MapPatch
<1>7. fp \cup mp \subseteq Fields(k) /\ a.edit \in fp \cup mp
      /\ fp \cup mp \subseteq TouchedBy(k, a) \cup {a.edit}
  BY <1>1, <1>3, <1>4, <1>5, <1>6 DEF TouchedBy
<1>8. PatchRequest(k, a.original, a.updated) = PatchOf(fp \cup mp, a.updated)
  BY Zenon DEF PatchRequest, PatchOf
<1>9. QED
  BY <1>7, <1>8

(* The document that is sent of a value.                                    *)
LEMMA JsonIs ==
  ASSUME NEW k \in Kind, NEW v \in [Fields(k) -> Values],
         NEW json, json = RemoveNonWriteable(k, ToJson(k, v))
  PROVE  /\ json = [f \in DOMAIN json |-> v[f]]
         /\ \A f : f \in DOMAIN json <=>
              /\ f \in Writeable(k) /\ f # "temporaryHold"
              /\ v[f] # 0 \/ f \in {"eventBasedHold", "topic", "payload_format"}
<1>1. PICK j : j = ToJson(k, v)
  OBVIOUS
<1>2. json = [f \in DOMAIN j \cap Writeable(k) |-> j[f]]
  BY <1>1 DEF RemoveNonWriteable
<1>3. CASE k = "bucket"
  <2>1. j = [f \in {g \in DOMAIN v : v[g] # 0 \/ g \in {"defaultEventBasedHold"}} |-> v[f]]
    BY <1>1, <1>3 DEF ToJson, BucketToJson, Written
  <2>2. /\ "temporaryHold" \notin Writeable(k) /\ "defaultEventBasedHold" \notin Writeable(k)
        /\ "eventBasedHold" \notin Writeable(k) /\ "topic" \notin Writeable(k)
        /\ "payload_format" \notin Writeable(k)
    BY <1>3 DEF Writeable, BucketWriteable, BucketLists, BucketStructs, Lifecycle
  <2>3. DOMAIN v = Fields(k) /\ Writeable(k) \subseteq Fields(k)
    BY KindFields
  <2>4. \A f : f \in DOMAIN j \cap Writeable(k) <=> f \in Writeable(k) /\ v[f] # 0
    BY <2>1, <2>2, <2>3
  <2>5. \A f \in DOMAIN j : j[f] = v[f]
    BY <2>1
  <2>6. QED
    BY <1>2, <2>2, <2>4, <2>5
<1>4. CASE k = "object"
  <2> DEFINE O == ObjectFields \ {"temporaryHold"}
  <2>1. PICK sent : sent = [f \in O |-> v[f]]
    OBVIOUS
  <2>2. j = [f \in {g \in DOMAIN sent : sent[g] # 0 \/ g \in {"eventBasedHold"}} |-> sent[f]]
    BY <1>1, <1>4, <2>1 DEF ToJson, ObjectToJson, Written
  <2>3. Writeable(k) = ObjectFields /\ "topic" \notin ObjectFields /\ "payload_format" \notin ObjectFields
    BY <1>4 DEF Writeable, ObjectWriteable, ObjectFields
  <2>4. \A f : f \in DOMAIN j <=> f \in O /\ (v[f] # 0 \/ f = "eventBasedHold")
    BY <2>1, <2>2
  <2>5. \A f \in DOMAIN j : j[f] = v[f]
    BY <2>1, <2>2
  <2>6. QED
    BY <1>2, <2>3, <2>4, <2>5
<1>5. CASE k = "notification"
  <2>1. j = [f \in {g \in DOMAIN v : v[g] # 0 \/ g \in {"topic", "payload_format"}} |-> v[f]]
    BY <1>1, <1>5 DEF ToJson, NotificationToJson, Written
  <2>2. /\ Writeable(k) = NotificationFields /\ DOMAIN v = NotificationFields
        /\ "temporaryHold" \notin NotificationFields /\ "eventBasedHold" \notin NotificationFields
    BY <1>5 DEF Writeable, Fields, NotificationFields
  <2>3. \A f : f \in DOMAIN j <=> /\ f \in NotificationFields
                                  /\ v[f] # 0 \/ f \in {"topic", "payload_format"}
    BY <2>1, <2>2
  <2>4. \A f \in DOMAIN j : j[f] = v[f]
    BY <2>1
  <2>5. QED
    BY <1>2, <2>2, <2>3, <2>4
<1>6. QED
  BY <1>3, <1>4, <1>5 DEF Kind

(* What a full update with the value v does to doc: a field that is sent    *)
(* has its value, and one that v has from doc keeps it.                     *)
LEMMA UpdateDoc ==
  ASSUME NEW k \in {"bucket", "object"}, NEW doc \in Docs(k),
         NEW v \in [Fields(k) -> Values],
         NEW new, new = UpdateFromMetadata(k, doc, RemoveNonWriteable(k, ToJson(k, v)))
  PROVE  /\ new \in Docs(k)
         /\ \A f \in Writeable(k) :
              /\ f # "temporaryHold" /\ (v[f] # 0 \/ f \in Booleans) => ParseField(new, f) = v[f]
              /\ v[f] = ParseField(doc, f) => ParseField(new, f) = v[f]
<1>1. PICK json : json = RemoveNonWriteable(k, ToJson(k, v))
  OBVIOUS
<1>2. k \in Kind
  BY DEF Kind
<1>3. /\ json = [f \in DOMAIN json |-> v[f]]
      /\ \A f : f \in DOMAIN json <=>
              /\ f \in Writeable(k) /\ f # "temporaryHold"
              /\ v[f] # 0 \/ f \in {"eventBasedHold", "topic", "payload_format"}
  BY <1>1, <1>2, JsonIs
<1>4. Writeable(k) \subseteq Fields(k)
  BY <1>2, KindFields
<1>5. DOMAIN doc \subseteq Writeable(k) /\ \A f \in DOMAIN doc : doc[f] \in Values
  BY DEF Docs
<1>6. PICK kept : /\ kept = IF MapKeys(k) \cap DOMAIN json # {}
                              THEN DOMAIN doc \ MapKeys(k) ELSE DOMAIN doc
  OBVIOUS
<1>7. new = [f \in kept \cup DOMAIN json |-> IF f \in DOMAIN json THEN json[f] ELSE doc[f]]
  BY <1>1, <1>6, Zenon DEF UpdateFromMetadata
<1>8. kept \subseteq DOMAIN doc /\ \A f \in DOMAIN doc : f \notin kept => f \in MapKeys(k)
  BY <1>6
<1>9. /\ DOMAIN new = kept \cup DOMAIN json
      /\ \A f \in DOMAIN json : new[f] = v[f]
      /\ \A f \in kept \ DOMAIN json : new[f] = doc[f]
  BY <1>3, <1>7
<1>10. DOMAIN json \subseteq Writeable(k)
  BY <1>3
<1>11. \A f \in Writeable(k) : v[f] \in Values
  BY <1>4
<1>12. new \in Docs(k)
  <2>1. DOMAIN new \in SUBSET Writeable(k)
    BY <1>5, <1>8, <1>9, <1>10
  <2>2. \A f \in DOMAIN new : new[f] \in Values
    BY <1>5, <1>8, <1>9, <1>10, <1>11
  <2>3. new \in [DOMAIN new -> Values]
    BY <1>7, <2>2
  <2>4. QED
    BY <2>1, <2>3 DEF Docs
<1>13. ASSUME NEW f \in Writeable(k)
       PROVE  /\ f # "temporaryHold" /\ (v[f] # 0 \/ f \in Booleans) => ParseField(new, f) = v[f]
              /\ v[f] = ParseField(doc, f) => ParseField(new, f) = v[f]
  <2>1. f \in Booleans => f \in {"eventBasedHold", "temporaryHold"}
    BY <1>13 DEF Booleans, Writeable, BucketWriteable, BucketLists, BucketStructs, Lifecycle, ObjectWriteable, ObjectFields
  <2>2. CASE f \in DOMAIN json
    BY <1>9, <2>2 DEF ParseField
  <2>3. CASE f \notin DOMAIN json
    <3>1. f = "temporaryHold" \/ (v[f] = 0 /\ f # "eventBasedHold")
      BY <1>3, <1>13, <2>3
    <3>2. "temporaryHold" \notin MapKeys(k)
      BY DEF MapKeys
    <3>3. v[f] = ParseField(doc, f) => ParseField(new, f) = v[f]
      BY <1>5, <1>8, <1>9, <2>3, <3>1, <3>2 DEF ParseField
    <3>4. QED
      BY <2>1, <3>1, <3>3
  <2>4. QED
    BY <2>2, <2>3
<1>14. QED
  BY <1>12, <1>13

------------------------------------------------------------------------------
(* Steps.                                                                   *)

(* The properties in terms of the records of the clients.                   *)
StillThere ==
  \A c \in Clients :
    app[c].pc = "written" /\ CarriedBy(kind, app[c]) =>
      \/ \E d \in Clients \ {c} : Blames(kind, app[c], app[d])
      \/ There(resource.doc, app[c])

(* WritesSurvive says the same.                                             *)
LEMMA SurviveIs == MetadataInv => (WritesSurvive <=> StillThere)
<1> SUFFICES ASSUME MetadataInv PROVE WritesSurvive <=> StillThere
  OBVIOUS
<1>1. \A c : Carried(c) <=> CarriedBy(kind, app[c])
  BY DEF Carried, CarriedBy
<1>2. \A c : Touched(c) = TouchedBy(kind, app[c])
  BY DEF Touched, TouchedBy
<1>3. \A f \in Writeable(kind) : Reader[f] = ParseField(resource.doc, f)
  BY KindFields DEF MetadataInv, Reader
<1>4. \A c : CarriedBy(kind, app[c]) => app[c].edit \in Writeable(kind)
  BY DEF CarriedBy
<1>5. \A c : CarriedBy(kind, app[c]) =>
             (Reader[app[c].edit] = Seen(app[c].edit, app[c].updated[app[c].edit])
                <=> There(resource.doc, app[c]))
  BY <1>3, <1>4 DEF There
<1>6. \A c, d : Blames(kind, app[c], app[d]) <=>
                 /\ app[d].pc = "written" /\ app[d].done > app[c].done
                 /\ app[d].how = "update" \/ app[c].edit \in Touched(d)
  BY <1>2 DEF Blames
<1>7. QED
  BY <1>1, <1>5, <1>6 DEF WritesSurvive, StillThere

(* A client that does nothing while another one writes.                     *)
LEMMA ClientKept ==
  ASSUME NEW k, NEW s \in Resource(k), NEW t \in Resource(k), NEW a, Client(k, s, a),
         t = s \/ t.meta = s.meta + 1
  PROVE  Client(k, t, a)
<1>1. s.meta \in Nat /\ t.meta \in Nat
  BY DEF Resource
<1>2. a.meta \in Nat /\ a.done \in Nat
  BY DEF Client, ClientRecord
<1>3. CASE t = s
  BY <1>3
<1>4. CASE t.meta = s.meta + 1
  <2>1. Fresh(k, s, a) => Fresh(k, t, a)
    BY <1>1, <1>2, <1>4 DEF Fresh
  <2>2. a.done <= t.meta
    BY <1>1, <1>2, <1>4 DEF Client
  <2>3. QED
    BY <2>1, <2>2 DEF Client
<1>5. QED
  BY <1>3, <1>4

(* A step in which client c gets the record b and the service becomes s.    *)
LEMMA StepInv ==
  ASSUME MetadataInv, NEW c \in Clients, NEW b, NEW s \in Resource(kind),
         kind' = kind, resource' = s, app' = [app EXCEPT ![c] = b],
         Client(kind, s, b), Exists(s), s = resource \/ s.meta = resource.meta + 1
  PROVE  MetadataInv'
<1>1. DOMAIN app' = Clients /\ app'[c] = b /\ \A d \in Clients \ {c} : app'[d] = app[d]
  BY DEF MetadataInv
<1>2. \A d \in Clients : Client(kind, s, app[d])
  BY ClientKept DEF MetadataInv
<1>3. \A d \in Clients : Client(kind, s, app'[d])
  BY <1>1, <1>2
<1>4. QED
  BY <1>1, <1>3 DEF MetadataInv

(* Such a step loses no write if it changes only the fields that client c   *)
(* touches, or is an update without a precondition.                         *)
LEMMA StepSurvive ==
  ASSUME MetadataInv, MetadataInv', WritesSurvive, NEW c \in Clients, NEW b, NEW s,
         kind' = kind, resource' = s, app' = [app EXCEPT ![c] = b],
         app[c].pc # "written",
         b.pc = "written" => b.done = resource.meta + 1,
         \A f \in Writeable(kind) :
           \/ ParseField(s.doc, f) = ParseField(resource.doc, f)
           \/ b.pc = "written" /\ (b.how = "update" \/ f \in TouchedBy(kind, b)),
         b.pc = "written" /\ CarriedBy(kind, b) => There(s.doc, b)
  PROVE  WritesSurvive'
<1> DEFINE Safe(e) ==
      app'[e].pc = "written" /\ CarriedBy(kind, app'[e]) =>
        \/ \E d \in Clients \ {e} : Blames(kind, app'[e], app'[d])
        \/ There(s.doc, app'[e])
<1>1. DOMAIN app = Clients /\ app'[c] = b /\ \A d \in Clients \ {c} : app'[d] = app[d]
  BY DEF MetadataInv
<1>2. \A e \in Clients : Safe(e)
  <2> SUFFICES ASSUME NEW e \in Clients, e # c, app[e].pc = "written", CarriedBy(kind, app[e])
               PROVE  \/ \E d \in Clients \ {e} : Blames(kind, app[e], app'[d])
                      \/ There(s.doc, app[e])
    BY <1>1
  <2>1. CASE \E d \in Clients \ {e} : Blames(kind, app[e], app[d])
    <3>1. PICK d \in Clients \ {e} : Blames(kind, app[e], app[d])
      BY <2>1
    <3>2. d # c
      BY <3>1 DEF Blames
    <3>3. QED
      BY <1>1, <3>1, <3>2
  <2>2. CASE There(resource.doc, app[e])
    <3>1. CASE ParseField(s.doc, app[e].edit) = ParseField(resource.doc, app[e].edit)
      BY <2>2, <3>1 DEF There
    <3>2. CASE b.pc = "written" /\ (b.how = "update" \/ app[e].edit \in TouchedBy(kind, b))
      <4>1. app[e].done <= resource.meta /\ app[e].done \in Nat /\ resource.meta \in Nat
        BY DEF MetadataInv, Client, ClientRecord, Resource
      <4>2. b.done > app[e].done
        BY <3>2, <4>1
      <4>3. Blames(kind, app[e], b)
        BY <3>2, <4>2 DEF Blames
      <4>4. QED
        BY <1>1, <4>3
    <3>3. app[e].edit \in Writeable(kind)
      BY DEF CarriedBy
    <3>4. QED
      BY <3>1, <3>2, <3>3
  <2>3. QED
    BY <2>1, <2>2, SurviveIs DEF StillThere
<1>3. (WritesSurvive <=> StillThere)'
  BY SurviveIs, PTL
<1>4. QED
  BY <1>2, <1>3 DEF StillThere

(* Nothing is written.                                                      *)
LEMMA QuietEffect ==
  ASSUME NEW k, NEW s \in Resource(k), Exists(s), NEW a, a.pc # "written",
         NEW b, Client(k, s, b), b.pc # "written", b.how = a.how
  PROVE  Effect(k, s, s, a, b)
  BY DEF Effect

(* Reading the metadata.                                                    *)
LEMMA ReadEffect ==
  ASSUME NEW k \in Kind, NEW s \in Resource(k), Exists(s),
         NEW a, Client(k, s, a), a.pc = "idle",
         NEW v, v = ParseFromJson(k, s.doc),
         NEW b, b = [a EXCEPT !.pc = "read", !.original = v, !.updated = v, !.meta = s.meta]
  PROVE  Effect(k, s, s, a, b)
<1>1. a \in ClientRecord(k) /\ s.meta \in Nat /\ s.doc \in Docs(k)
  BY DEF Client, Resource
<1>2. v \in [Fields(k) -> Values] /\ v \in Held(k)
  BY <1>1, ParseIs DEF Held
<1>3. b \in ClientRecord(k)
  BY <1>1, <1>2 DEF ClientRecord, PCs
<1>4. /\ b.pc = "read" /\ b.original = v /\ b.updated = v /\ b.meta = s.meta
      /\ b.done = a.done /\ b.how = a.how
  BY <1>1 DEF ClientRecord
<1>5. Fresh(k, s, b)
  BY <1>1, <1>4, KindFields DEF Fresh
<1>6. Client(k, s, b)
  BY <1>2, <1>3, <1>4, <1>5 DEF Client
<1>7. QED
  BY <1>4, <1>6, QuietEffect

(* Editing one field of what was read.                                      *)
LEMMA EditEffect ==
  ASSUME NEW k \in Kind, NEW s \in Resource(k), Exists(s),
         NEW a, Client(k, s, a), a.pc = "read",
         NEW f \in Fields(k), NEW x \in Values, x # a.original[f],
         NEW b, b = [a EXCEPT !.pc = "edited", !.updated[f] = x, !.edit = f]
  PROVE  Effect(k, s, s, a, b)
<1>1. a \in ClientRecord(k)
  BY DEF Client
<1>2. PICK u : u = [a.updated EXCEPT ![f] = x]
  OBVIOUS
<1>3. a.updated = a.original /\ a.updated \in [Fields(k) -> Values]
  BY DEF Client
<1>4. u \in [Fields(k) -> Values] /\ u \in Held(k)
  BY <1>2, <1>3 DEF Held
<1>5. b \in ClientRecord(k)
  BY <1>1, <1>2, <1>4 DEF ClientRecord, PCs
<1>6. /\ b.pc = "edited" /\ b.original = a.original /\ b.updated = u /\ b.meta = a.meta
      /\ b.done = a.done /\ b.how = a.how /\ b.edit = f
  BY <1>1, <1>2 DEF ClientRecord
<1>7. Edited(k, b)
  BY <1>2, <1>3, <1>4, <1>6 DEF Edited
<1>8. Fresh(k, s, b)
  BY <1>6 DEF Fresh, Client
<1>9. Client(k, s, b)
  BY <1>5, <1>6, <1>7, <1>8 DEF Client
<1>10. QED
  BY <1>6, <1>9, QuietEffect

(* A precondition that fails.                                               *)
LEMMA RefusedEffect ==
  ASSUME NEW k \in Kind, NEW s \in Resource(k), Exists(s),
         NEW a, Client(k, s, a), a.pc = "edited",
         NEW b, b = [a EXCEPT !.pc = "refused"]
  PROVE  Effect(k, s, s, a, b)
<1>1. a \in ClientRecord(k)
  BY DEF Client
<1>2. b \in ClientRecord(k)
  BY <1>1 DEF ClientRecord, PCs
<1>3. b.pc = "refused" /\ b.done = a.done /\ b.how = a.how
  BY <1>1 DEF ClientRecord
<1>4. Client(k, s, b)
  BY <1>2, <1>3 DEF Client
<1>5. QED
  BY <1>3, <1>4, QuietEffect

(* Changed().                                                               *)
Stored(doc, meta) == [exists |-> TRUE, doc |-> doc, meta |-> meta]

(* The service after a write.                                               *)
LEMMA ChangedIs ==
  ASSUME NEW k, NEW s \in Resource(k), NEW doc \in Docs(k),
         NEW t, t = Stored(doc, s.meta + 1)
  PROVE  /\ t \in Resource(k) /\ Exists(t) /\ t.doc = doc
         /\ t.meta = s.meta + 1 /\ s.meta \in Nat /\ t.meta \in Nat
<1>1. s.meta \in Nat
  BY DEF Resource
<1>2. t.doc = doc /\ t.meta = s.meta + 1
  BY DEF Stored
<1>3. Exists(t)
  BY DEF Stored, Exists
<1>4. t \in Resource(k)
  BY <1>1 DEF Resource, Stored
<1>5. QED
  BY <1>1, <1>2, <1>3, <1>4

(* The record of a client whose write was carried out.                      *)
Finished(a, how, n) == [a EXCEPT !.pc = "written", !.how = how, !.done = n]

(* Only these fields of the record change.                                  *)
LEMMA FinishIs ==
  ASSUME NEW k, NEW a \in ClientRecord(k), NEW how \in Ways, NEW n \in Nat
  PROVE  /\ Finished(a, how, n) \in ClientRecord(k)
         /\ Finished(a, how, n).pc = "written" /\ Finished(a, how, n).how = how
         /\ Finished(a, how, n).done = n /\ Finished(a, how, n).edit = a.edit
         /\ Finished(a, how, n).updated = a.updated
<1>1. Finished(a, how, n) \in ClientRecord(k)
  BY DEF ClientRecord, PCs, Finished
<1>2. QED
  BY <1>1 DEF ClientRecord, Finished

(* The record of a client that wrote without reading.                       *)
LEMMA RecordIs ==
  ASSUME NEW k, NEW o \in Held(k), NEW u \in Held(k), NEW how \in {"patch", "insert"},
         NEW f \in Fields(k), NEW n \in Nat, NEW b, b = Wrote(o, u, how, f, n)
  PROVE  /\ b \in ClientRecord(k)
         /\ b.pc = "written" /\ b.updated = u /\ b.how = how /\ b.edit = f /\ b.done = n
<1>1. "written" \in PCs /\ how \in Ways /\ 0 \in Nat
  BY DEF PCs, Ways
<1>2. b \in ClientRecord(k)
  BY <1>1 DEF ClientRecord, Wrote
<1>3. b.pc = "written" /\ b.updated = u /\ b.how = how /\ b.edit = f /\ b.done = n
  BY DEF Wrote
<1>4. QED
  BY <1>2, <1>3

(* A write whose document is a patch of the fields in D.                    *)
LEMMA PatchedEffect ==
  ASSUME NEW k \in Kind, NEW s \in Resource(k), NEW t \in Resource(k), Exists(t),
         t.meta = s.meta + 1, NEW a, a.pc # "written",
         NEW b, Client(k, t, b), b.pc = "written", b.done = t.meta,
         NEW D, b.edit \in D, D \subseteq TouchedBy(k, b) \cup {b.edit},
         \A f \in Writeable(k) : ParseField(t.doc, f)
           = IF f \in D THEN Seen(f, b.updated[f]) ELSE ParseField(s.doc, f)
  PROVE  Effect(k, s, t, a, b)
<1>1. b.edit \in TouchedBy(k, b)
  BY DEF TouchedBy
<1>2. CarriedBy(k, b) => There(t.doc, b)
  BY DEF CarriedBy, There
<1>3. \A f \in Writeable(k) :
        \/ ParseField(t.doc, f) = ParseField(s.doc, f)
        \/ f \in TouchedBy(k, b)
  BY <1>1
<1>4. \A f \in Writeable(k) : f = b.edit => ParseField(t.doc, f) = Seen(f, b.updated[f])
  OBVIOUS
<1>5. QED
  BY <1>2, <1>3, <1>4 DEF Effect

(* PatchBucket() and PatchObject().                                         *)
LEMMA PatchEffect ==
  ASSUME NEW k \in {"bucket", "object"}, NEW s \in Resource(k), Exists(s),
         NEW a, Client(k, s, a), a.pc = "edited",
         NEW doc, doc = ApplyPatch(s.doc, RemoveNonWriteable(k,
                          PatchRequest(k, a.original, a.updated))),
         NEW t, t = Stored(doc, s.meta + 1),
         NEW b, b = Finished(a, "patch", t.meta)
  PROVE  Effect(k, s, t, a, b)
<1>1. Edited(k, a) /\ s.doc \in Docs(k) /\ k \in Kind
  BY DEF Client, Resource, Kind
<1>2. PICK D : /\ D \subseteq Fields(k) /\ a.edit \in D /\ D \subseteq TouchedBy(k, a) \cup {a.edit}
               /\ PatchRequest(k, a.original, a.updated) = PatchOf(D, a.updated)
  BY <1>1, PatchFields
<1>3. \A f \in D : a.updated[f] \in Values
  BY <1>1, <1>2 DEF Edited
<1>4. /\ doc \in Docs(k)
      /\ \A f \in Writeable(k) : ParseField(doc, f)
           = IF f \in D THEN Seen(f, a.updated[f]) ELSE ParseField(s.doc, f)
  <2>1. doc = Patched(k, s.doc, D, a.updated)
    BY <1>2 DEF Patched
  <2>2. QED
    BY <1>1, <1>2, <1>3, <2>1, PatchDoc
<1>5. /\ t \in Resource(k) /\ Exists(t) /\ t.doc = doc /\ t.meta = s.meta + 1
  BY <1>4, ChangedIs
<1>6. /\ Client(k, t, b)
      /\ b.pc = "written" /\ b.done = t.meta /\ b.edit = a.edit /\ b.updated = a.updated
  <2>1. "patch" \in Ways /\ a \in ClientRecord(k) /\ t.meta \in Nat
    BY <1>5 DEF Ways, Client, Resource
  <2>2. /\ b \in ClientRecord(k)
        /\ b.pc = "written" /\ b.done = t.meta /\ b.edit = a.edit /\ b.updated = a.updated
    BY <2>1, FinishIs
  <2>3. QED
    BY <2>1, <2>2 DEF Client
<1>7. TouchedBy(k, b) = TouchedBy(k, a)
  BY <1>6 DEF TouchedBy
<1>8. \A f \in Writeable(k) : ParseField(t.doc, f)
           = IF f \in D THEN Seen(f, b.updated[f]) ELSE ParseField(s.doc, f)
  BY <1>4, <1>5, <1>6
<1>9. b.edit \in D /\ D \subseteq TouchedBy(k, b) \cup {b.edit}
  BY <1>2, <1>6, <1>7
<1>10. QED
  BY <1>1, <1>5, <1>6, <1>8, <1>9, PatchedEffect

(* UpdateBucket() and UpdateObject(): with a precondition that holds, the   *)
(* fields that were not edited have the values of the service.              *)
LEMMA UpdateEffect ==
  ASSUME NEW k \in {"bucket", "object"}, NEW s \in Resource(k), Exists(s),
         NEW a, Client(k, s, a), a.pc = "edited",
         NEW how \in {"update", "guarded"}, how = "guarded" => a.meta = s.meta,
         NEW doc, doc = UpdateFromMetadata(k, s.doc,
                          RemoveNonWriteable(k, ToJson(k, a.updated))),
         NEW t, t = Stored(doc, s.meta + 1),
         NEW b, b = Finished(a, how, t.meta)
  PROVE  Effect(k, s, t, a, b)
<1>1. Edited(k, a) /\ s.doc \in Docs(k) /\ k \in Kind /\ a.updated \in [Fields(k) -> Values]
  BY DEF Client, Resource, Kind, Edited
<1>2. /\ doc \in Docs(k)
      /\ \A f \in Writeable(k) :
           /\ f # "temporaryHold" /\ (a.updated[f] # 0 \/ f \in Booleans)
                => ParseField(doc, f) = a.updated[f]
           /\ a.updated[f] = ParseField(s.doc, f) => ParseField(doc, f) = a.updated[f]
  BY <1>1, UpdateDoc
<1>3. /\ t \in Resource(k) /\ Exists(t) /\ t.doc = doc /\ t.meta = s.meta + 1
  BY <1>2, ChangedIs
<1>4. /\ Client(k, t, b)
      /\ b.pc = "written" /\ b.how = how /\ b.done = t.meta /\ b.edit = a.edit
      /\ b.updated = a.updated
  <2>1. how \in Ways /\ a \in ClientRecord(k) /\ t.meta \in Nat
    BY <1>3 DEF Ways, Client, Resource
  <2>2. /\ b \in ClientRecord(k)
        /\ b.pc = "written" /\ b.how = how /\ b.done = t.meta /\ b.edit = a.edit
        /\ b.updated = a.updated
    BY <2>1, FinishIs
  <2>3. QED
    BY <2>1, <2>2 DEF Client
<1>5. Writeable(k) \subseteq Fields(k)
  BY <1>1, KindFields
<1>6. CarriedBy(k, b) => There(t.doc, b)
  BY <1>2, <1>3, <1>4 DEF CarriedBy, There, Seen
<1>7. b.edit \in TouchedBy(k, b)
  BY DEF TouchedBy
<1>8. ASSUME NEW f \in Writeable(k), how = "guarded", f # a.edit
      PROVE  ParseField(t.doc, f) = ParseField(s.doc, f)
  <2>1. a.original[f] = ParseField(s.doc, f)
    BY <1>5, <1>8 DEF Client, Fresh
  <2>2. a.updated[f] = a.original[f]
    BY <1>1, <1>5, <1>8 DEF Edited
  <2>3. QED
    BY <1>2, <1>3, <2>1, <2>2
<1>9. \A f \in Writeable(k) :
        \/ ParseField(t.doc, f) = ParseField(s.doc, f)
        \/ b.how = "update" \/ f \in TouchedBy(k, b)
  BY <1>4, <1>7, <1>8
<1>10. QED
  BY <1>3, <1>4, <1>6, <1>9 DEF Effect

(* A patch made with a builder.                                             *)
LEMMA BuilderEffect ==
  ASSUME NEW k \in Kind, NEW s \in Resource(k), Exists(s),
         NEW a, Client(k, s, a), a.pc = "idle",
         NEW f \in Fields(k), NEW x \in Values,
         NEW doc, doc = ApplyPatch(s.doc,
                          RemoveNonWriteable(k, [g \in {f} |-> SetField(f, x)])),
         NEW t, t = Stored(doc, s.meta + 1),
         NEW o, o = [g \in Fields(k) |-> IF g = f THEN Null ELSE 0],
         NEW u, u = [g \in Fields(k) |-> IF g = f THEN x ELSE 0],
         NEW b, b = Wrote(o, u, "patch", f, t.meta)
  PROVE  Effect(k, s, t, a, b)
<1>3. o \in Held(k) /\ u \in Held(k) /\ u[f] = x
  BY DEF Held, Values
<1>4. /\ doc \in Docs(k)
      /\ \A g \in Writeable(k) : ParseField(doc, g)
           = IF g \in {f} THEN Seen(g, u[g]) ELSE ParseField(s.doc, g)
  <2>1. PatchOf({f}, u) = [g \in {f} |-> SetField(f, x)]
    BY <1>3 DEF PatchOf
  <2>3. s.doc \in Docs(k) /\ {f} \subseteq Fields(k) /\ \A g \in {f} : u[g] \in Values
    BY <1>3 DEF Resource
  <2>4. doc = Patched(k, s.doc, {f}, u)
    BY <2>1 DEF Patched
  <2>5. QED
    BY <2>3, <2>4, PatchDoc
<1>5. /\ t \in Resource(k) /\ Exists(t) /\ t.doc = doc /\ t.meta = s.meta + 1 /\ t.meta \in Nat
  BY <1>4, ChangedIs
<1>6. "patch" \in {"patch", "insert"}
  OBVIOUS
<1>7. b \in ClientRecord(k)
  BY <1>3, <1>5, <1>6, RecordIs
<1>8. b.pc = "written" /\ b.done = t.meta /\ b.edit = f /\ b.updated = u
  BY <1>3, <1>5, <1>6, RecordIs
<1>9. Client(k, t, b)
  BY <1>5, <1>7, <1>8 DEF Client
<1>10. PICK D : D = {f}
  OBVIOUS
<1>11. \A g \in Writeable(k) : ParseField(t.doc, g)
           = IF g \in D THEN Seen(g, b.updated[g]) ELSE ParseField(s.doc, g)
  BY <1>4, <1>5, <1>8, <1>10
<1>12. b.edit \in D /\ D \subseteq TouchedBy(k, b) \cup {b.edit} /\ a.pc # "written"
  BY <1>8, <1>10
<1>13. QED
  BY <1>5, <1>8, <1>9, <1>11, <1>12, PatchedEffect

(* The creation of the resource.                                            *)
LEMMA CreateEffect ==
  ASSUME NEW k \in Kind, NEW s \in Resource(k), s.meta = 0,
         NEW a, Client(k, s, a), a.pc = "idle",
         NEW f \in Fields(k), NEW x \in Values,
         NEW v, v = [g \in Fields(k) |-> IF g = f THEN x ELSE 0],
         NEW doc, doc = RemoveNonWriteable(k, ToJson(k, v)),
         NEW t, t = Stored(doc, s.meta + 1),
         NEW o, o = [g \in Fields(k) |-> 0],
         NEW b, b = Wrote(o, v, "insert", f, t.meta)
  PROVE  /\ t \in Resource(k) /\ Exists(t) /\ t.meta = 1
         /\ Client(k, t, b)
         /\ b.pc = "written" /\ b.done = 1 /\ b.how = "insert"
         /\ CarriedBy(k, b) => There(t.doc, b)
<1>2. v \in [Fields(k) -> Values] /\ o \in Held(k) /\ v \in Held(k) /\ v[f] = x
  BY DEF Held, Values
<1>3. /\ doc = [g \in DOMAIN doc |-> v[g]]
      /\ \A g : g \in DOMAIN doc <=>
              /\ g \in Writeable(k) /\ g # "temporaryHold"
              /\ v[g] # 0 \/ g \in {"eventBasedHold", "topic", "payload_format"}
  BY <1>2, JsonIs
<1>4. doc \in Docs(k)
  <2>1. DOMAIN doc \in SUBSET Writeable(k)
    BY <1>3
  <2>2. \A g \in DOMAIN doc : v[g] \in Values
    BY <1>2, <2>1, KindFields
  <2>3. doc \in [DOMAIN doc -> Values]
    BY <1>3, <2>2
  <2>4. QED
    BY <2>1, <2>3 DEF Docs
<1>5. t \in Resource(k) /\ Exists(t) /\ t.meta = 1 /\ t.doc = doc
  BY <1>4, ChangedIs
<1>6. "insert" \in {"patch", "insert"} /\ 1 \in Nat
  OBVIOUS
<1>7. /\ b \in ClientRecord(k)
      /\ b.pc = "written" /\ b.updated = v /\ b.how = "insert" /\ b.edit = f /\ b.done = 1
  BY <1>2, <1>5, <1>6, RecordIs
<1>8. Client(k, t, b)
  BY <1>5, <1>7 DEF Client
<1>9. ASSUME CarriedBy(k, b) PROVE There(t.doc, b)
  <2>1. f \in Writeable(k) /\ f # "temporaryHold" /\ f \notin Hollow /\ (x # 0 \/ f \in Booleans)
    BY <1>2, <1>7, <1>9 DEF CarriedBy
  <2>2. f \in Booleans => f = "eventBasedHold"
    BY <2>1 DEF Kind, Booleans, Writeable, BucketWriteable, BucketLists, BucketStructs, Lifecycle,
                ObjectWriteable, ObjectFields, NotificationFields
  <2>3. f \in DOMAIN doc /\ doc[f] = x
    BY <1>2, <1>3, <2>1, <2>2
  <2>4. QED
    BY <1>2, <1>5, <1>7, <2>1, <2>3 DEF There, ParseField, Seen
<1>10. QED
  BY <1>5, <1>7, <1>8, <1>9

(* Every step is that of one client, and has the effect above, or creates   *)
(* the resource.                                                            *)
Created(k, s, t, b) ==
  /\ t \in Resource(k) /\ Exists(t) /\ s.meta = 0 /\ t.meta = 1
  /\ Client(k, t, b)
  /\ b.pc = "written" /\ b.done = 1 /\ b.how = "insert"
  /\ CarriedBy(k, b) => There(t.doc, b)

StepOf(c, b) ==
  /\ kind' = kind /\ app' = [app EXCEPT ![c] = b]
  /\ \/ Effect(kind, resource, resource', app[c], b)
     \/ ~Exists(resource) /\ Created(kind, resource, resource', b)

(* One case for each action.                                                *)
LEMMA NextIs ==
  ASSUME MetadataInv, NEW c \in Clients,
         Read(c) \/ Edit(c) \/ Patch(c) \/ Update(c) \/ PatchWithBuilder(c) \/ Create(c)
  PROVE  \E b : StepOf(c, b)
<1> PICK k : k = kind
  OBVIOUS
<1> PICK s : s = resource
  OBVIOUS
<1> PICK a : a = app[c]
  OBVIOUS
<1>1. /\ k \in Kind /\ s \in Resource(k) /\ Client(k, s, a) /\ DOMAIN app = Clients
      /\ a.pc # "idle" => Exists(s)
      /\ ~Exists(s) => s.meta = 0
  BY DEF MetadataInv
<1>2. k # "notification" => k \in {"bucket", "object"}
  BY <1>1 DEF Kind
<1>3. ASSUME NEW b, kind' = kind, app' = [app EXCEPT ![c] = b], Effect(k, s, resource', a, b)
      PROVE  StepOf(c, b)
  BY <1>3 DEF StepOf
<1>4. CASE Read(c)
  <2>1. PICK v : v = ParseFromJson(k, s.doc)
    OBVIOUS
  <2>2. PICK b : b = [a EXCEPT !.pc = "read", !.original = v, !.updated = v, !.meta = s.meta]
    OBVIOUS
  <2>3. /\ a.pc = "idle" /\ Exists(s) /\ kind' = kind /\ resource' = s
        /\ app' = [app EXCEPT ![c] = b]
    BY <1>4, <2>1, <2>2 DEF Read, Exists
  <2>4. Effect(k, s, s, a, b)
    BY <1>1, <2>1, <2>2, <2>3, ReadEffect
  <2>5. QED
    BY <1>3, <2>3, <2>4
<1>5. CASE Edit(c)
  <2>1. PICK f \in Fields(k), x \in Values :
          /\ x # a.original[f]
          /\ app' = [app EXCEPT ![c].pc = "edited", ![c].updated[f] = x, ![c].edit = f]
    BY <1>5 DEF Edit
  <2>2. PICK b : b = [a EXCEPT !.pc = "edited", !.updated[f] = x, !.edit = f]
    OBVIOUS
  <2>3. a.pc = "read" /\ kind' = kind /\ resource' = s
    BY <1>5 DEF Edit
  <2>4. app' = [app EXCEPT ![c] = b]
    BY <2>1, <2>2
  <2>5. Effect(k, s, s, a, b)
    BY <1>1, <2>1, <2>2, <2>3, EditEffect
  <2>6. QED
    BY <1>3, <2>3, <2>4, <2>5
<1>6. ASSUME Refused(c), a.pc = "edited" PROVE \E b : StepOf(c, b)
  <2>1. PICK b : b = [a EXCEPT !.pc = "refused"]
    OBVIOUS
  <2>2. kind' = kind /\ resource' = s /\ app' = [app EXCEPT ![c] = b]
    BY <1>6, <2>1 DEF Refused
  <2>3. Effect(k, s, s, a, b)
    BY <1>1, <1>6, <2>1, RefusedEffect
  <2>4. QED
    BY <1>3, <2>2, <2>3
<1>7. CASE Patch(c)
  <2>1. a.pc = "edited" /\ k \in {"bucket", "object"}
    BY <1>2, <1>7 DEF Patch
  <2>2. CASE Refused(c)
    BY <1>6, <2>1, <2>2
  <2>3. CASE ~Refused(c)
    <3>1. PICK doc : doc = ApplyPatch(s.doc, RemoveNonWriteable(k,
                             PatchRequest(k, a.original, a.updated)))
      OBVIOUS
    <3>2. Changed(doc) /\ Finish(c, "patch") /\ kind' = kind
      BY <1>7, <2>3, <3>1 DEF Patch
    <3>3. resource' = Stored(doc, s.meta + 1)
      BY <3>2 DEF Changed, Stored
    <3>4. PICK t : t = resource'
      OBVIOUS
    <3>5. PICK b : b = Finished(a, "patch", t.meta)
      OBVIOUS
    <3>6. app' = [app EXCEPT ![c] = b]
      BY <3>2, <3>4, <3>5 DEF Finish, Finished
    <3>7. Effect(k, s, t, a, b)
      BY <1>1, <2>1, <3>1, <3>3, <3>4, <3>5, PatchEffect
    <3>8. QED
      BY <1>3, <3>2, <3>4, <3>6, <3>7
  <2>4. QED
    BY <2>2, <2>3
<1>8. CASE Update(c)
  <2>1. a.pc = "edited" /\ k \in {"bucket", "object"}
    BY <1>2, <1>8 DEF Update
  <2>2. CASE Refused(c)
    BY <1>6, <2>1, <2>2
  <2>3. CASE ~Refused(c)
    <3>1. PICK doc : doc = UpdateFromMetadata(k, s.doc,
                             RemoveNonWriteable(k, ToJson(k, a.updated)))
      OBVIOUS
    <3>2. PICK guarded \in BOOLEAN :
            /\ guarded => a.meta = s.meta
            /\ Changed(doc) /\ Finish(c, IF guarded THEN "guarded" ELSE "update")
            /\ kind' = kind
      BY <1>8, <2>3, <3>1 DEF Update, Allowed
    <3>3. PICK how \in {"update", "guarded"} :
            (how = "guarded" => a.meta = s.meta) /\ Finish(c, how)
      BY <3>2
    <3>4. resource' = Stored(doc, s.meta + 1)
      BY <3>2 DEF Changed, Stored
    <3>5. PICK t : t = resource'
      OBVIOUS
    <3>6. PICK b : b = Finished(a, how, t.meta)
      OBVIOUS
    <3>7. app' = [app EXCEPT ![c] = b]
      BY <3>3, <3>5, <3>6 DEF Finish, Finished
    <3>8. Effect(k, s, t, a, b)
      BY <1>1, <2>1, <3>1, <3>3, <3>4, <3>5, <3>6, UpdateEffect
    <3>9. QED
      BY <1>3, <3>2, <3>5, <3>7, <3>8
  <2>4. QED
    BY <2>2, <2>3
<1>9. CASE PatchWithBuilder(c)
  <2>1. PICK f \in Fields(k), x \in Values :
          /\ Changed(ApplyPatch(s.doc,
               RemoveNonWriteable(k, [g \in {f} |-> SetField(f, x)])))
          /\ app' = [app EXCEPT ![c] =
               Wrote([g \in Fields(k) |-> IF g = f THEN Null ELSE 0],
                     [g \in Fields(k) |-> IF g = f THEN x ELSE 0], "patch", f, resource'.meta)]
          /\ kind' = kind
    BY <1>9 DEF PatchWithBuilder
  <2>2. a.pc = "idle" /\ Exists(s)
    BY <1>9 DEF PatchWithBuilder, Exists
  <2>3. PICK doc : doc = ApplyPatch(s.doc,
                           RemoveNonWriteable(k, [g \in {f} |-> SetField(f, x)]))
    OBVIOUS
  <2>4. PICK o : o = [g \in Fields(k) |-> IF g = f THEN Null ELSE 0]
    OBVIOUS
  <2>5. PICK u : u = [g \in Fields(k) |-> IF g = f THEN x ELSE 0]
    OBVIOUS
  <2>6. PICK t : t = resource'
    OBVIOUS
  <2>7. PICK b : b = Wrote(o, u, "patch", f, t.meta)
    OBVIOUS
  <2>8. t = Stored(doc, s.meta + 1)
    BY <2>1, <2>3, <2>6 DEF Changed, Stored
  <2>9. app' = [app EXCEPT ![c] = b]
    BY <2>1, <2>4, <2>5, <2>6, <2>7
  <2>10. Effect(k, s, t, a, b)
    BY <1>1, <2>2, <2>3, <2>4, <2>5, <2>7, <2>8, BuilderEffect
  <2>11. QED
    BY <1>3, <2>1, <2>6, <2>9, <2>10
<1>10. CASE Create(c)
  <2>1. PICK f \in Fields(k), x \in Values :
          LET v == [g \in Fields(k) |-> IF g = f THEN x ELSE 0]
          IN  /\ Changed(RemoveNonWriteable(k, ToJson(k, v)))
              /\ app' = [app EXCEPT ![c] =
                   Wrote([g \in Fields(k) |-> 0], v, "insert", f, resource'.meta)]
              /\ kind' = kind
    BY <1>10 DEF Create
  <2>2. a.pc = "idle" /\ ~Exists(s)
    BY <1>10 DEF Create, Exists
  <2>3. PICK v : v = [g \in Fields(k) |-> IF g = f THEN x ELSE 0]
    OBVIOUS
  <2>4. PICK o : o = [g \in Fields(k) |-> 0]
    OBVIOUS
  <2>5. PICK doc : doc = RemoveNonWriteable(k, ToJson(k, v))
    OBVIOUS
  <2>6. PICK t : t = resource'
    OBVIOUS
  <2>7. PICK b : b = Wrote(o, v, "insert", f, t.meta)
    OBVIOUS
  <2>8. t = Stored(doc, s.meta + 1)
    BY <2>1, <2>3, <2>5, <2>6 DEF Changed, Stored
  <2>9. app' = [app EXCEPT ![c] = b]
    BY <2>1, <2>3, <2>4, <2>6, <2>7
  <2>10. s.meta = 0
    BY <1>1, <2>2
  <2>11. Created(k, s, t, b)
    BY <1>1, <2>2, <2>3, <2>4, <2>5, <2>7, <2>8, <2>10, CreateEffect DEF Created
  <2>12. QED
    BY <2>1, <2>2, <2>6, <2>9, <2>11 DEF StepOf
<1>11. QED
  BY <1>4, <1>5, <1>7, <1>8, <1>9, <1>10

(* The invariant is preserved.                                              *)
LEMMA NextKeeps ==
  ASSUME MetadataInv, WritesSurvive, NEW c \in Clients, NEW b, StepOf(c, b)
  PROVE  MetadataInv' /\ WritesSurvive'
<1>1. PICK s : s = resource'
  OBVIOUS
<1>2. kind' = kind /\ resource' = s /\ app' = [app EXCEPT ![c] = b]
  BY <1>1 DEF StepOf
<1>3. CASE Effect(kind, resource, s, app[c], b)
  <2>1. /\ s \in Resource(kind) /\ Exists(s) /\ (s = resource \/ s.meta = resource.meta + 1)
        /\ Client(kind, s, b)
        /\ app[c].pc # "written"
        /\ b.pc = "written" => b.done = resource.meta + 1
        /\ b.pc = "written" /\ CarriedBy(kind, b) => There(s.doc, b)
        /\ \A f \in Writeable(kind) :
             \/ ParseField(s.doc, f) = ParseField(resource.doc, f)
             \/ b.pc = "written" /\ (b.how = "update" \/ f \in TouchedBy(kind, b))
    BY <1>3 DEF Effect
  <2>2. MetadataInv'
    BY <1>2, <2>1, StepInv
  <2>3. WritesSurvive'
    BY <1>2, <2>1, <2>2, StepSurvive
  <2>4. QED
    BY <2>2, <2>3
<1>4. CASE ~Exists(resource) /\ Created(kind, resource, s, b)
  <2>1. /\ s \in Resource(kind) /\ Exists(s) /\ s.meta = resource.meta + 1
        /\ Client(kind, s, b)
        /\ CarriedBy(kind, b) => There(s.doc, b)
    BY <1>4 DEF Created
  <2>2. MetadataInv'
    BY <1>2, <2>1, StepInv
  <2>3. /\ app'[c] = b
        /\ \A d \in Clients \ {c} : app'[d] = app[d] /\ app[d].pc = "idle"
    BY <1>2, <1>4 DEF MetadataInv
  <2>4. StillThere'
    BY <1>2, <2>1, <2>3 DEF StillThere
  <2>5. (WritesSurvive <=> StillThere)'
    BY <2>2, SurviveIs, PTL
  <2>6. QED
    BY <2>2, <2>4, <2>5
<1>5. QED
  BY <1>1, <1>3, <1>4 DEF StepOf

(* At the start nothing has been written.                                   *)
LEMMA InitHolds ==
  ASSUME MetadataInit
  PROVE  MetadataInv /\ WritesSurvive
<1>1. kind \in Kind
  BY KindsAssumption DEF MetadataInit, Kind
<1>2. \A c \in Clients : app[c] = NothingRead
  BY DEF MetadataInit
<1>3. resource \in Resource(kind) /\ (~Exists(resource) => resource.meta = 0)
  <2>1. CASE resource = [exists |-> FALSE, doc |-> <<>>, meta |-> 0]
    <3>1. <<>> \in [{} -> Values] /\ {} \in SUBSET Writeable(kind)
      OBVIOUS
    <3>2. <<>> \in Docs(kind)
      BY <3>1 DEF Docs
    <3>3. QED
      BY <2>1, <3>2 DEF Resource
  <2>2. ASSUME NEW fs \in SUBSET Writeable(kind),
               resource = [exists |-> TRUE, doc |-> [f \in fs |-> 1], meta |-> 1]
        PROVE  resource \in Resource(kind) /\ Exists(resource)
    <3>1. [f \in fs |-> 1] \in [fs -> Values]
      BY DEF Values
    <3>2. [f \in fs |-> 1] \in Docs(kind)
      BY <3>1 DEF Docs
    <3>3. resource \in Resource(kind)
      BY <2>2, <3>2 DEF Resource
    <3>4. Exists(resource)
      BY <2>2 DEF Exists
    <3>5. QED
      BY <3>3, <3>4
  <2>3. QED
    BY <2>1, <2>2 DEF MetadataInit, StartingResources
<1>4. Client(kind, resource, NothingRead)
  <2>1. NothingRead \in ClientRecord(kind)
    BY DEF NothingRead, ClientRecord, PCs, Ways, Held
  <2>2. NothingRead.pc = "idle" /\ NothingRead.done = 0
    BY DEF NothingRead
  <2>3. resource.meta \in Nat
    BY <1>3 DEF Resource
  <2>4. QED
    BY <2>1, <2>2, <2>3 DEF Client
<1>5. \A c \in Clients : app[c].pc = "idle"
  <2>1. NothingRead.pc = "idle"
    BY DEF NothingRead
  <2>2. QED
    BY <1>2, <2>1
<1>6. MetadataInv
  BY <1>1, <1>2, <1>3, <1>4, <1>5 DEF MetadataInv, MetadataInit
<1>7. WritesSurvive
  BY <1>5 DEF WritesSurvive
<1>8. QED
  BY <1>6, <1>7

(* A step that does nothing.                                                *)
LEMMA StutterKeeps ==
  ASSUME MetadataInv, WritesSurvive, UNCHANGED metadataVars
  PROVE  MetadataInv' /\ WritesSurvive'
<1>1. kind' = kind /\ resource' = resource /\ app' = app
  BY DEF metadataVars
<1>2. MetadataInv'
  BY <1>1 DEF MetadataInv
<1>3. StillThere'
  BY <1>1, SurviveIs DEF StillThere
<1>4. (WritesSurvive <=> StillThere)'
  BY <1>2, SurviveIs, PTL
<1>5. QED
  BY <1>2, <1>3, <1>4

(* Records, documents and metagenerations are what MetadataInv says in      *)
(* every reachable state, and no write is lost.                             *)
THEOREM MetadataInvHolds == MetadataSpec => [](MetadataInv /\ WritesSurvive)
<1>1. MetadataInit => MetadataInv /\ WritesSurvive
  BY InitHolds
<1>2. MetadataInv /\ WritesSurvive /\ [MetadataNext]_metadataVars => (MetadataInv /\ WritesSurvive)'
  BY NextIs, NextKeeps, StutterKeeps DEF MetadataNext
<1>3. QED
  BY <1>1, <1>2, PTL DEF MetadataSpec

(* What a client wrote stays until a later write touches the same field or  *)
(* is an update without a precondition, for any number of clients           *)
(* (internal/bucket_requests.cc: PatchBucketRequest).                       *)
THEOREM NoWriteLost == MetadataSpec => []WritesSurvive
  BY MetadataInvHolds, PTL

(* A patch changes exactly what its client edited, whatever the others      *)
(* wrote meanwhile.                                                         *)
THEOREM PatchesMerge == MetadataSpec => PatchMerges
<1> DEFINE Merges ==
      \A c \in Clients :
       app'[c].how = "patch" /\ app[c].how # "patch" =>
         \A f \in Writeable(kind) :
            IF f = app'[c].edit
            THEN Reader'[f] = Seen(f, app'[c].updated[f])
            ELSE Reader'[f] = Reader[f] \/ f \in Touched(c)'
<1>1. ASSUME MetadataInv, MetadataInv', NEW d \in Clients, NEW b, StepOf(d, b), NEW c \in Clients,
             app'[c].how = "patch", app[c].how # "patch", NEW f \in Writeable(kind)
      PROVE  IF f = app'[c].edit
             THEN Reader'[f] = Seen(f, app'[c].updated[f])
             ELSE Reader'[f] = Reader[f] \/ f \in Touched(c)'
  <2>1. kind' = kind /\ app' = [app EXCEPT ![d] = b] /\ DOMAIN app = Clients /\ kind \in Kind
    BY <1>1 DEF StepOf, MetadataInv
  <2>2. c = d /\ app'[c] = b
    BY <1>1, <2>1
  <2>3. b.how = "patch"
    BY <1>1, <2>2
  <2>4. Effect(kind, resource, resource', app[c], b)
    BY <1>1, <2>2, <2>3 DEF StepOf, Created
  <2>5. IF f = b.edit THEN ParseField(resource'.doc, f) = Seen(f, b.updated[f])
        ELSE ParseField(resource'.doc, f) = ParseField(resource.doc, f) \/ f \in TouchedBy(kind, b)
    BY <1>1, <2>3, <2>4 DEF Effect
  <2>6. Reader[f] = ParseField(resource.doc, f)
    BY <1>1, <2>1, KindFields DEF Reader
  <2>7. Reader'[f] = ParseField(resource'.doc, f)
    BY <1>1, <2>1, KindFields DEF Reader
  <2>8. Touched(c)' = TouchedBy(kind, b)
    BY <2>1, <2>2 DEF Touched, TouchedBy
  <2>9. QED
    BY <2>2, <2>5, <2>6, <2>7, <2>8
<1>2. MetadataInv /\ MetadataInv' /\ [MetadataNext]_metadataVars => [Merges]_metadataVars
  BY <1>1, NextIs DEF MetadataNext
<1>3. QED
  BY <1>2, MetadataInvHolds, PTL DEF MetadataSpec, PatchMerges

=============================================================================
