---------------------------- MODULE StorageCalls ----------------------------
(***************************************************************************)
(* Calls of the storage library against the service.  Every caller is a    *)
(* thread of the application that makes one call through the same Client:  *)
(* the request carries preconditions whose values the application took     *)
(* from the state it saw, RetryClient's MakeCall repeats it while the      *)
(* policies allow, and every attempt goes to CurlClient, which may fail to *)
(* get an authorization header, lose the request or lose the answer.  The  *)
(* service may fail a request before or after it carried it out.           *)
(*                                                                         *)
(* A listing is read to its end through ListBucketsReader or               *)
(* ListObjectsReader, and a rewrite is an ObjectRewriter of which the      *)
(* application takes the Result(): they make one such call after another,  *)
(* each for a part, with the token that came with the part before it.      *)
(***************************************************************************)
EXTENDS StorageLayers

CONSTANTS Callers,      \* the threads
          Asked,        \* Asked[c]: the <<operation, options>> it may ask for
          Policy(_, _), \* the idempotency policy of the client
          MaxFailures,  \* the bound of its LimitedErrorCountRetryPolicy
          FaultCodes,   \* HTTP codes of failures, 0: curl failed
          MaxParts      \* bound: the pages of a listing, the steps of a rewrite

ASSUME CallsAssumption == MaxFailures \in Nat /\ MaxParts \in Nat \ {0}

(* The calls whose preconditions the testbench gets and checks.  It checks *)
(* If-Match for the policy of a bucket only, and no precondition of the    *)
(* destination of a copy, and an upload through the XML API does not send  *)
(* its metageneration precondition.  Creating a notification is left out   *)
(* too: it is repeated although every attempt makes another notification.  *)
Checked(op, o) ==
  /\ op \in Ops \ {"CreateNotification", "CopyObject"}
  /\ "IfMatchEtag" \in o => op = "SetBucketIamPolicy"
  /\ ~(Request(op, o)[2] = "xml" /\ "IfMetagenerationMatch" \in o)

ASSUME AskedAssumption ==
  \A c \in Callers : \A ask \in Asked[c] : Checked(ask[1], ask[2])

(* The policy is StrictIdempotencyPolicy or a stricter one: under          *)
(* AlwaysRetryIdempotencyPolicy a call may change the service again.       *)
ASSUME PolicyAssumption ==
  \A op \in Ops : \A o \in SUBSET Accepts(op) : Policy(op, o) => Strict(op, o)

VARIABLES svc,          \* the service
          call          \* call[c]: the call of caller c

vars == <<svc, call>>

Idle == [pc |-> "idle", op |-> "none", o |-> {}, saw |-> [bucket |-> NewBucket,
         object |-> NoObject], failures |-> 0, attempts |-> 0, status |-> "kOk",
         outcome |-> "none", changes |-> 0, stirred |-> FALSE,
         stale |-> FALSE, part |-> 1, more |-> FALSE, empty |-> FALSE,
         expired |-> FALSE]

(* A bucket with a notification; an object or none.                        *)
StartingServices ==
  {[bucket |-> [NewBucket EXCEPT !.notes = {1}, !.next = 2], object |-> obj] :
     obj \in {NoObject, NewObject(1)}}

Init == /\ svc \in StartingServices
        /\ call = [c \in Callers |-> Idle]

-----------------------------------------------------------------------------
(* A method of Client makes the request and calls RetryClient, which       *)
(* clones its policies: the call starts with no failures of its own.       *)
Start(c) ==
  /\ call[c].pc = "idle"
  /\ \E ask \in Asked[c] :
       /\ ask[1] \in Retried /\ ask[2] \subseteq Accepts(ask[1])
       /\ call' = [call EXCEPT ![c] = [Idle EXCEPT !.pc = "ready",
                     !.op = ask[1], !.o = ask[2], !.saw = svc]]
  /\ UNCHANGED svc

(* SetupBuilderCommon: without an authorization header nothing is sent.    *)
Unauthorized(c) ==
  /\ call[c].pc = "ready"
  /\ \E s \in AuthFailures :
       call' = [call EXCEPT ![c].pc = "answered", ![c].status = s,
                            ![c].attempts = @ + 1]
  /\ UNCHANGED svc

Send(c) ==
  /\ call[c].pc = "ready"
  /\ call[c].op \in Logged
  /\ call' = [call EXCEPT ![c].pc = "sent", ![c].attempts = @ + 1]
  /\ UNCHANGED svc

(* The precondition the application asked for holds.                       *)
Holds(op, o, s, w) ==
  /\ "IfMatchEtag" \in o => s.bucket.iam = w.bucket.iam
  /\ op = "LockBucketRetentionPolicy" => s.bucket.meta = w.bucket.meta
  /\ IF op \in DOMAIN BucketRequests THEN CheckBucket(s, w, o)
     ELSE CheckObject(s, w, o) /\ Revision(s, w, o)

(* A request, carried out or not, comes back with a code, and with what    *)
(* the answer says of the next part.                                       *)
Answered(c, after, code, garbled, says) ==
  LET k == call[c]
  IN  /\ svc' = after
      /\ call' = [d \in Callers |->
           IF d = c
           THEN [k EXCEPT !.pc = "answered", !.more = says.more, !.empty = says.empty,
                          !.expired = says.expired,
                          !.status = Parsed(k.op, code, garbled),
                          !.changes = IF after = svc THEN @ ELSE @ + 1,
                          !.stirred = @ /\ after = svc,
                          !.stale = @ \/ /\ after # svc
                                         /\ ~Holds(k.op, k.o, svc, k.saw)]
           ELSE [call[d] EXCEPT !.stirred = @ \/ (call[d].changes > 0
                                                    /\ after # svc)]]

Listings == {"ListBuckets", "ListObjects"}

(* Whether a token for the next part comes with the answer; a page may be  *)
(* empty all the same.  A token of a rewrite can be used once.             *)
Says(c, lost) ==
  {s \in [more : BOOLEAN, empty : BOOLEAN, expired : BOOLEAN] :
     /\ s.more => Reports[call[c].op] = "pages" /\ call[c].part < MaxParts
     /\ s.empty => call[c].op \in Listings
     /\ s.expired = (lost /\ call[c].op = "RewriteObject" /\ call[c].part > 1)}

Handled(c, more) ==
  LET k == call[c]
  IN  IF k.op = "RewriteObject"
      THEN RewriteStep(svc, k.saw, Wire(k.op, k.o), k.expired, more)
      ELSE Handle(Request(k.op, k.o), svc, k.saw, Wire(k.op, k.o))

Serve(c) ==
  /\ call[c].pc = "sent"
  /\ \E garbled \in BOOLEAN, s \in Says(c, FALSE) :
       Answered(c, Handled(c, s.more).svc, Handled(c, s.more).code, garbled, s)

Silence(c) == [more |-> FALSE, empty |-> FALSE, expired |-> call[c].expired]

(* The request does not reach the service, or is refused by it.            *)
Lose(c) ==
  /\ call[c].pc = "sent"
  /\ \E code \in FaultCodes : Answered(c, svc, code, FALSE, Silence(c))

(* It is carried out, but the answer says or becomes a failure.            *)
ServeAndLose(c) ==
  /\ call[c].pc = "sent"
  /\ \E code \in FaultCodes, s \in Says(c, TRUE) :
       Answered(c, Handled(c, s.more).svc, code, FALSE,
                [Silence(c) EXCEPT !.expired = s.expired])

(* How the application learns of a failure: the reader of buckets takes    *)
(* the value of the answer, that of objects makes the status its last      *)
(* element, and a rewriter returns it.                                     *)
PageFailure(op) == IF op = "ListBuckets" THEN "exception" ELSE "status"

FailureOf(op) == CASE Reports[op] = "returns" -> "status"
                   [] Reports[op] = "pages"   -> PageFailure(op)
                   [] OTHER                   -> "exception"

(* LimitedErrorCountRetryPolicy                                            *)
IsExhausted(failures) == failures > MaxFailures

Ended(k, outcome) ==
  [k EXCEPT !.pc = "returned", !.saw = Idle.saw, !.outcome = outcome]

(* The next call of a reader or a rewriter has its own copy of the         *)
(* policies.                                                               *)
NextPart(k) ==
  [k EXCEPT !.pc = "ready", !.part = @ + 1, !.failures = 0, !.attempts = 0,
            !.more = FALSE, !.expired = FALSE]

(* A reader goes on with the next page when it has been through a page,    *)
(* and takes a page without elements for the end.                          *)
GetNext(k) == IF k.more /\ ~k.empty THEN NextPart(k) ELSE Ended(k, "value")

\* mutant: the first step of a rewrite is taken for the last
Iterate_Once(k) == Ended(k, "value")
(* A rewriter goes on until the service says that it is done.              *)
Iterate(k) == IF k.more THEN NextPart(k) ELSE Ended(k, "value")

Succeed(k) == CASE k.op \in Listings       -> GetNext(k)
                [] k.op = "RewriteObject" -> Iterate(k)
                [] OTHER                  -> Ended(k, "value")

(* MakeCall, after an attempt.                                             *)
\* mutant: the failure of a call that may not be repeated is not reported
Return_NotReported(c) ==
  /\ call[c].pc = "answered" /\ Policy(call[c].op, call[c].o)
  /\ call' = [call EXCEPT ![c].pc = "returned"]
  /\ UNCHANGED svc
Return(c) ==
  LET k    == call[c]
      fail == Ended(k, FailureOf(k.op))
  IN  /\ k.pc = "answered"
      /\ call' = [call EXCEPT ![c] =
           IF k.status = "kOk" THEN Succeed(k)
           ELSE IF ~Policy(k.op, k.o) THEN fail
           ELSE IF IsPermanentFailure(k.status) THEN fail
           ELSE IF IsExhausted(k.failures + 1)
           THEN [fail EXCEPT !.failures = @ + 1]
           ELSE [k EXCEPT !.pc = "sleeping", !.failures = @ + 1]]
      /\ UNCHANGED svc

(* The backoff delay is over.                                              *)
Wake(c) ==
  /\ call[c].pc = "sleeping"
  /\ call' = [call EXCEPT ![c].pc = "ready"]
  /\ UNCHANGED svc

Next ==
  \E c \in Callers :
     \/ Start(c) \/ Unauthorized(c) \/ Send(c) \/ Serve(c) \/ Lose(c)
     \/ ServeAndLose(c) \/ Return(c) \/ Wake(c)

(* A thread that has a call under way goes on with it, and every request   *)
(* is answered in the end, if only by a failure of the transport.          *)
Fairness ==
  \A c \in Callers :
     /\ WF_vars(Unauthorized(c) \/ Send(c))
     /\ WF_vars(Serve(c) \/ Lose(c) \/ ServeAndLose(c))
     /\ WF_vars(Return(c)) /\ WF_vars(Wake(c))

Spec == Init /\ [][Next]_vars /\ Fairness

-----------------------------------------------------------------------------
(* What the retries promise the application: under the idempotency policy  *)
(* of the client, the calls of RetryClient behave like calls that change   *)
(* the service at most once.                                               *)
Promise == INSTANCE AtMostOnce WITH
  phase   <- [c \in Callers |-> IF call[c].pc \in {"idle", "returned"}
                                THEN [idle |-> "idle", returned |-> "closed"][call[c].pc]
                                ELSE "open"],
  changes <- [c \in Callers |-> call[c].changes],
  stirred <- [c \in Callers |-> call[c].stirred]

RetriesChangeOnce == Promise!Spec

(* A request that carries preconditions changes the service only in a      *)
(* state in which they hold, however often it was sent and, for the calls  *)
(* in Checked, whichever API CurlClient chose for it: an upload with a     *)
(* precondition on the metageneration does not keep it in the XML API.     *)
PreconditionHonoured == \A c \in Callers : ~call[c].stale

(* The call gives up for want of retries only after MaxFailures + 1        *)
(* attempts of its own: the failures of calls on other threads do not      *)
(* count.                                                                  *)
OwnBudget(c) ==
  call[c].outcome # "value" /\ Policy(call[c].op, call[c].o)
    /\ ~IsPermanentFailure(call[c].status)
  => call[c].attempts = MaxFailures + 1

(* What ends without an error is complete: a listing has come to a page    *)
(* without a token for the next one, or without elements; a rewrite has    *)
(* made the object.                                                        *)
Complete(c) ==
  call[c].outcome = "value" =>
    /\ call[c].op \in Listings => ~call[c].more \/ call[c].empty
    /\ call[c].op = "RewriteObject" => call[c].changes > 0

(* Every call returns, also through all the parts of a listing or a        *)
(* rewrite, and without an error only when it is complete; with an error   *)
(* that could be retried only after it has used its own budget             *)
(* (MakeCall, GetNext, ObjectRewriter::ResultWithProgressCallback).        *)
CallReturns ==
  \A c \in Callers :
     call[c].pc # "idle" ~> (call[c].pc = "returned" /\ OwnBudget(c) /\ Complete(c))

=============================================================================
