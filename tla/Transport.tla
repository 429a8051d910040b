------------------------------ MODULE Transport ------------------------------
(***************************************************************************)
(* What all the requests of a storage client share: the pools of libcurl   *)
(* handles (PooledCurlHandleFactory) and the credentials, whose token is   *)
(* refreshed by the first request that finds it expired.                   *)
(*                                                                         *)
(* A request takes a handle for its builder, then the authorization        *)
(* header, then it is built (a transfer, which streams its payload, also   *)
(* takes a multi handle and attaches the handle to it), is carried out,    *)
(* and is destroyed, which gives the handles back.  The credentials have   *)
(* handles of their own, from the default factory.  The thread Streamer    *)
(* uses one transfer, whose data the modules Download and StreamingUpload  *)
(* model; of the requests of the other threads only the handles matter.    *)
(* As a stream meets the other requests of its client only in the pools    *)
(* and at the token, Transfers looks at the two separately.                *)
(***************************************************************************)
EXTENDS Naturals, Sequences, FiniteSets

CONSTANTS
  Requester,       \* the threads that make requests
  Streamer,        \* the thread that uses a stream
  NoThread,
  maximum_size_,   \* of the pools
  MaxRequests      \* the bound on the requests of a thread in Requester

ASSUME TransportAssumption ==
  /\ IsFiniteSet(Requester)
  /\ Streamer \notin Requester /\ NoThread \notin Requester \union {Streamer}
  /\ maximum_size_ \in Nat \ {0} /\ MaxRequests \in Nat

Thread == Requester \union {Streamer}

VARIABLES
  handles_, multi_handles_,  \* PooledCurlHandleFactory: the idle handles, oldest first
  attached,       \* libcurl: the pairs of a handle and the multi handle it was added to
  request,        \* the request of each thread
  requests,       \* how many each thread has made
  credentials,    \* which kind: "key", with one request_ for all the tokens, or "metadata"
  authorization,  \* authorization_header and expiration_time: "none", "valid" or "expired"
  mu_,            \* of the credentials: the thread that holds it
  residue         \* whether response_payload_ of request_ is not empty

poolVars == <<handles_, multi_handles_, attached>>
tokenVars == <<authorization, mu_, residue>>
transportVars == <<poolVars, request, requests, credentials, tokenVars>>

NoHandle == 0
NoRequest == [at |-> "none", handle |-> NoHandle, multi |-> NoHandle, header |-> "none"]

TransportInit ==
  /\ handles_ = <<>> /\ multi_handles_ = <<>> /\ attached = {}
  /\ request = [t \in Thread |-> NoRequest]
  /\ requests = [t \in Thread |-> 0]
  /\ credentials \in {"key", "metadata"}
  /\ authorization = "none" /\ mu_ = NoThread /\ residue = FALSE

Becomes(t, r) == request' = [request EXCEPT ![t] = r]
At(t, at) == [request[t] EXCEPT !.at = at]

------------------------------------------------------------------------------
(* The pools.                                                               *)

Pooled(pool) == {pool[i] : i \in DOMAIN pool}

InUse(f) == {request[t][f] : t \in {u \in Thread : request[u].at # "none"}}

(* curl_easy_init() and curl_multi_init(): a handle nobody has.             *)
New(pool, f) ==
  CHOOSE h \in 1..(maximum_size_ + Cardinality(Thread)) : h \notin Pooled(pool) \union InUse(f)

(* Fault: the handle stays in the pool.                                     *)
CreateHandle_NotPopped(t) ==
  IF handles_ = <<>>
  THEN /\ Becomes(t, [NoRequest EXCEPT !.at = "builder", !.handle = New(handles_, "handle")])
       /\ UNCHANGED handles_
  ELSE /\ Becomes(t, [NoRequest EXCEPT !.at = "builder", !.handle = handles_[Len(handles_)]])
       /\ UNCHANGED handles_

(* CreateHandle(): the handle that was given back last.                     *)
CreateHandle(t) ==
  IF handles_ = <<>>
  THEN /\ Becomes(t, [NoRequest EXCEPT !.at = "builder", !.handle = New(handles_, "handle")])
       /\ UNCHANGED handles_
  ELSE /\ Becomes(t, [NoRequest EXCEPT !.at = "builder", !.handle = handles_[Len(handles_)]])
       /\ handles_' = SubSeq(handles_, 1, Len(handles_) - 1)

CreateMultiHandle ==
  IF multi_handles_ = <<>> THEN New(multi_handles_, "multi") ELSE multi_handles_[Len(multi_handles_)]

(* CleanupHandle() and CleanupMultiHandle(): a full pool loses its oldest   *)
(* handle.                                                                  *)
Cleanup(pool, h) ==
  Append(IF Len(pool) >= maximum_size_ THEN Tail(pool) ELSE pool, h)

(* The handles that are freed no longer belong to each other.               *)
Detach(kept, keptMulti) ==
  attached' = {p \in attached : p[1] \in kept /\ p[2] \in keptMulti}

------------------------------------------------------------------------------
(* The life of a request.                                                   *)

(* CurlRequestBuilder's constructor.                                        *)
StartRequest(t) ==
  /\ request[t] = NoRequest
  /\ requests[t] < IF t = Streamer THEN 1 ELSE MaxRequests
  /\ CreateHandle(t)
  /\ requests' = [requests EXCEPT ![t] = @ + 1]
  /\ UNCHANGED <<multi_handles_, attached, credentials, tokenVars>>

IsValid == authorization = "valid"

(* AuthorizationHeader(): the lock is held until the refresh ends.  With    *)
(* the metadata server there are two requests, first for the account.       *)
AuthorizationHeader(t) ==
  /\ request[t].at = "builder" /\ mu_ = NoThread
  /\ IF IsValid
     THEN Becomes(t, [At(t, "ready") EXCEPT !.header = "valid"]) /\ UNCHANGED mu_
     ELSE /\ Becomes(t, At(t, IF credentials = "metadata" THEN "account" ELSE "token"))
          /\ mu_' = t
  /\ UNCHANGED <<poolVars, requests, credentials, authorization, residue>>

(* RetrieveServiceAccountInfo(): an answer without the fields it looks for  *)
(* is no error, because its status is made from a code below 300.           *)
AccountAnswered(t) ==
  /\ request[t].at = "account"
  /\ Becomes(t, At(t, "token"))
  /\ UNCHANGED <<poolVars, requests, credentials, tokenVars>>

(* The header that a token answer leads to.  One without the fields is no   *)
(* error either: the header stays as it was.  What an earlier, failed       *)
(* request left in response_payload_ comes before the answer, which is      *)
(* therefore no JSON.                                                       *)
Refreshed(complete) == IF complete /\ ~residue THEN "valid" ELSE authorization

(* Refresh() succeeds, or seems to.                                         *)
TokenAnswered(t, complete) ==
  /\ request[t].at = "token"
  /\ authorization' = Refreshed(complete)
  /\ Becomes(t, [At(t, "ready") EXCEPT !.header = authorization'])
  /\ mu_' = NoThread /\ residue' = FALSE
  /\ UNCHANGED <<poolVars, requests, credentials>>

(* MakeRequest(): an error code is an answer and takes the payload; if the  *)
(* request itself fails, part of an answer may have come.                   *)
LeftOver == {FALSE, residue, credentials = "key"}

(* Refresh() fails: the builder is dropped with its handle, which is freed. *)
RefreshFails(t) ==
  /\ request[t].at \in {"account", "token"}
  /\ residue' \in LeftOver
  /\ mu_' = NoThread
  /\ Becomes(t, NoRequest)
  /\ Detach(Pooled(handles_) \union (InUse("handle") \ {request[t].handle}),
            Pooled(multi_handles_) \union InUse("multi"))
  /\ UNCHANGED <<handles_, multi_handles_, requests, credentials, authorization>>

(* The time comes when IsExpired() holds.                                   *)
Expires ==
  /\ authorization = "valid"
  /\ authorization' = "expired"
  /\ UNCHANGED <<poolVars, request, requests, credentials, mu_, residue>>

(* BuildRequest().                                                          *)
BuildRequest(t) ==
  /\ request[t].at = "ready"
  /\ Becomes(t, At(t, "request"))
  /\ UNCHANGED <<poolVars, requests, credentials, tokenVars>>

(* BuildUpload() and BuildDownloadRequest(), with SetOptions().             *)
BuildTransfer(t) ==
  /\ request[t].at = "ready"
  /\ Becomes(t, [At(t, "transfer") EXCEPT !.multi = CreateMultiHandle])
  /\ attached' = attached \union {<<request[t].handle, CreateMultiHandle>>}
  /\ multi_handles_' = IF multi_handles_ = <<>> THEN <<>>
                       ELSE SubSeq(multi_handles_, 1, Len(multi_handles_) - 1)
  /\ UNCHANGED <<handles_, requests, credentials, tokenVars>>

(* curl_multi_remove_handle().                                              *)
RemoveHandle(t) == attached' = attached \ {<<request[t].handle, request[t].multi>>}

(* A request of another thread ends.                                        *)
RequestEnds(t) ==
  /\ t # Streamer /\ request[t].at \in {"request", "transfer"}
  /\ Becomes(t, At(t, "done"))
  /\ RemoveHandle(t)
  /\ UNCHANGED <<handles_, multi_handles_, requests, credentials, tokenVars>>

(* The destructors.                                                         *)
Destroy(t) ==
  /\ request[t].at = "done"
  /\ handles_' = Cleanup(handles_, request[t].handle)
  /\ multi_handles_' = IF request[t].multi = NoHandle THEN multi_handles_
                       ELSE Cleanup(multi_handles_, request[t].multi)
  /\ Becomes(t, NoRequest)
  /\ Detach(Pooled(handles_') \union (InUse("handle") \ {request[t].handle}),
            Pooled(multi_handles_') \union (InUse("multi") \ {request[t].multi}))
  /\ UNCHANGED <<requests, credentials, tokenVars>>

(* Steps of the threads that end by themselves.                             *)
TransportProgress(t) ==
  \/ AuthorizationHeader(t) \/ AccountAnswered(t) \/ RefreshFails(t)
  \/ \E complete \in BOOLEAN : TokenAnswered(t, complete)
  \/ RequestEnds(t) \/ Destroy(t)
  \/ t # Streamer /\ (BuildRequest(t) \/ BuildTransfer(t))

TransportStep(t) == StartRequest(t) \/ TransportProgress(t)

------------------------------------------------------------------------------
(* Properties.                                                              *)

(* Where a handle of one kind is: its places in the pool and its users.     *)
Places(pool, f, h) ==
  {<<"pool", i>> : i \in {j \in DOMAIN pool : pool[j] = h}}
    \union {<<"request", t>> : t \in {u \in Thread : request[u][f] = h}}

AtMostOne(S) == \A x, y \in S : x = y

(* No two requests ever use the same handle: it is in the pool once or has  *)
(* one user, whatever order requests end in and whatever fails, and the     *)
(* pool stays within its size.                                              *)
HandlesNotShared ==
  /\ Len(handles_) <= maximum_size_ /\ Len(multi_handles_) <= maximum_size_
  /\ \A h \in Pooled(handles_) \union (InUse("handle") \ {NoHandle}) :
       AtMostOne(Places(handles_, "handle", h))
  /\ \A m \in Pooled(multi_handles_) \union (InUse("multi") \ {NoHandle}) :
       AtMostOne(Places(multi_handles_, "multi", m))

(* A handle in the pool is attached to nothing: the next user can add it.   *)
PooledDetached ==
  \A p \in attached : p[1] \notin Pooled(handles_) /\ p[2] \notin Pooled(multi_handles_)

(* The threads refresh the token one at a time and not while it is valid.   *)
RefreshedOnce ==
  \A t \in Thread : request[t].at \in {"account", "token"} => mu_ = t /\ ~IsValid
=============================================================================
