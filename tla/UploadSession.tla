--------------------------- MODULE UploadSession ---------------------------
(***************************************************************************)
(* A resumable upload session of the storage library:                      *)
(* CurlResumableUploadSession, which keeps track of what the server has,   *)
(* and RetryResumableUploadSession, which retries its calls.  The modules  *)
(* of their two users, UploadStream and WriteStream, extend this one, and  *)
(* Transfers puts them together.                                           *)
(*                                                                         *)
(* A request and its answer are one step: the calls block.  The server     *)
(* stores bytes after those it has, ignores the ones it already has, and   *)
(* finishes the object when it has as many as the request says.            *)
(***************************************************************************)
EXTENDS Integers, Sequences

CONSTANTS
  Quantum,          \* the server stores multiples of this (256 KiB), but for the last bytes
  MaximumFailures,  \* of LimitedErrorCountRetryPolicy
  TimeLimited,      \* whether the retry policy may expire (LimitedTimeRetryPolicy)
  LostResponses,    \* whether an answer can be lost after the bytes are stored
  PartialCommits,   \* which chunks the server may store only in part: those
                    \* of "no", "early" (not the last) or "any" chunk
  Failures          \* whether requests can fail at all

ASSUME SessionAssumption ==
  /\ Quantum \in Nat /\ Quantum > 1 /\ MaximumFailures \in Nat
  /\ \A b \in {TimeLimited, LostResponses, Failures} : b \in BOOLEAN
  /\ PartialCommits \in {"no", "early", "any"}

VARIABLES
  user,            \* who transfers an object: UploadFile(), "file", or the stream of a
                   \* resumable upload, "stream", of a download, "read", or of
                   \* another upload, "simple"; "requests" are made for other reasons
  committed,       \* the server: the bytes it has
  finalized,       \* the server: whether they are an object
  next_expected_,  \* the session's idea of how many the server has
  failure_count_, expired,  \* the retry policy
  call,            \* the call of UploadChunk() in progress: its arguments and,
                   \* once it returns, its result
  mishap           \* history: what has gone wrong so far

policyVars == <<failure_count_, expired>>
serverVars == <<committed, finalized, mishap>>
sessionVars == <<serverVars, next_expected_, policyVars, call>>

(* mishap has "lost" after an answer was lost and the bytes stored, "early" *)
(* or "last" after a chunk was stored in part that was not or was the last  *)
(* one, and "restored" if the session had bytes at the start.  The other    *)
(* modules add "put", "garbled", "broken", "unanswered" and "suspended".    *)

(* UploadFile() gets a RetryResumableUploadSession, a stream does not.      *)
Retried == user = "file"

NoCall == [at |-> "none", buffer |-> <<>>, size |-> 0, payload |-> FALSE]

SessionInit(stored) ==
  /\ committed = stored /\ finalized = FALSE
  /\ next_expected_ = Len(stored)
  /\ failure_count_ = 0 /\ expired = FALSE
  /\ call = NoCall
  /\ mishap = IF stored = <<>> THEN {} ELSE {"restored"}

IsExhausted == failure_count_ > MaximumFailures \/ expired

(* Fault: the attempts are not counted.                                     *)
OnFailure_NoLimit(code) == code = "TRANSIENT" /\ UNCHANGED failure_count_

(* OnFailure() of LimitedErrorCountRetryPolicy: whether to retry.           *)
OnFailure(code) ==
  /\ code = "TRANSIENT"
  /\ failure_count_' = failure_count_ + 1
  /\ failure_count_' <= MaximumFailures /\ ~expired

GivesUp(code) ==
  IF code = "PERMANENT" THEN UNCHANGED failure_count_
  ELSE /\ failure_count_' = failure_count_ + 1
       /\ failure_count_' > MaximumFailures \/ expired

Expire ==
  /\ TimeLimited /\ ~expired
  /\ expired' = TRUE
  /\ UNCHANGED <<serverVars, next_expected_, failure_count_, call>>

------------------------------------------------------------------------------
(* The server.                                                              *)

(* Whether the request has the last bytes of the object.                    *)
LastChunk == call.size # 0 /\ next_expected_ + Len(call.buffer) >= call.size

(* Whether it may store only some of the bytes in the request.              *)
MayBePartial == PartialCommits = "any" \/ (PartialCommits = "early" /\ ~LastChunk)

(* How many of the bytes in the request it may store.                       *)
Storable ==
  LET all == Len(call.buffer)
  IN  IF next_expected_ > Len(committed) THEN {}
      ELSE IF finalized THEN {0}
      ELSE {all} \union {k \in 0..all : MayBePartial /\ (next_expected_ + k) % Quantum = 0}

(* What is recorded when it stores k of them.                               *)
StoredInPart(k) ==
  IF finalized \/ k = Len(call.buffer) THEN {}
  ELSE IF LastChunk THEN {"last"} ELSE {"early"}

Store(k) ==
  /\ committed' = IF finalized \/ next_expected_ + k <= Len(committed) THEN committed
                  ELSE committed \o SubSeq(call.buffer, Len(committed) - next_expected_ + 1, k)
  /\ finalized' = (finalized \/ (call.size # 0 /\ Len(committed') >= call.size))

(* The Range header of an answer: how many bytes it says are stored.  When  *)
(* the object is finished there need not be one.                            *)
RangeHeader == IF finalized' THEN {0, Len(committed')} ELSE {Len(committed')}

------------------------------------------------------------------------------

(* ResumableUploadResponse::FromHttpResponse().                             *)
LastCommittedByte(range) == IF range = 0 THEN 0 ELSE range - 1

(* CurlResumableUploadSession::Update().                                    *)
Update(range) ==
  next_expected_' = IF LastCommittedByte(range) = 0 THEN 0 ELSE LastCommittedByte(range) + 1

Returns(at) == call' = [call EXCEPT !.at = at]

(* A call of UploadChunk() begins.  If the policy is exhausted there is no  *)
(* last_status: the result is made from an OK status, which throws.         *)
UploadChunk(buffer, size) ==
  /\ call.at = "none"
  /\ call' = [at |-> IF Retried /\ IsExhausted THEN "threw" ELSE "upload",
              buffer |-> buffer, size |-> size, payload |-> FALSE]
  /\ UNCHANGED <<serverVars, next_expected_, policyVars>>

(* In the loop of UploadChunk(): at the first attempt, or after             *)
(* ResetSession().                                                          *)
Uploading == call.at \in {"upload", "upload_again"}

UploadAnswered ==
  /\ Uploading
  /\ \E k \in Storable : Store(k) /\ mishap' = mishap \union StoredInPart(k)
  /\ \E range \in RangeHeader : Update(range)
  /\ call' = [call EXCEPT !.at = "ok", !.payload = finalized']
  /\ UNCHANGED policyVars

(* What follows a failed attempt, in both loops.                            *)
Failed(code) ==
  IF ~Retried THEN Returns("error") /\ UNCHANGED policyVars
  ELSE /\ \/ OnFailure(code) /\ Returns(IF Uploading THEN "reset" ELSE "reset_again")
          \/ GivesUp(code) /\ Returns("error")
       /\ UNCHANGED expired

(* The request fails, or it is carried out and the answer is lost.          *)
UploadFails(code) ==
  /\ Uploading /\ Failures
  /\ \/ UNCHANGED serverVars
     \/ /\ LostResponses /\ code = "TRANSIENT"
        /\ \E k \in Storable : Store(k)
        /\ mishap' = mishap \union {"lost"}
  /\ Failed(code)
  /\ UNCHANGED next_expected_

Resetting == call.at \in {"reset", "reset_again"}

(* ResetSession(): the policy is asked again after the backoff, here too    *)
(* with no last_status at first.                                            *)
ResetExhausted ==
  /\ Resetting /\ IsExhausted
  /\ Returns(IF call.at = "reset" THEN "threw" ELSE "error")
  /\ UNCHANGED <<serverVars, next_expected_, policyVars>>

(* The query is answered: UploadChunk() goes on with the same arguments,    *)
(* unless the policy has expired.                                           *)
QueryAnswered ==
  /\ Resetting /\ ~IsExhausted
  /\ UNCHANGED serverVars
  /\ \E range \in RangeHeader : Update(range)
  /\ Returns("upload_again")
  /\ UNCHANGED policyVars

QueryFails(code) ==
  /\ Resetting /\ ~IsExhausted /\ Failures
  /\ Failed(code)
  /\ UNCHANGED <<serverVars, next_expected_>>

(* The loop of UploadChunk() finds the policy exhausted after ResetSession().*)
UploadExhausted ==
  /\ call.at = "upload_again" /\ IsExhausted
  /\ Returns("error")
  /\ UNCHANGED <<serverVars, next_expected_, policyVars>>

Code == {"TRANSIENT", "PERMANENT"}

SessionStep ==
  \/ UploadAnswered \/ ResetExhausted \/ QueryAnswered \/ UploadExhausted
  \/ \E code \in Code : UploadFails(code) \/ QueryFails(code)

(* A call that has returned.                                                *)
Returned == call.at \in {"ok", "error", "threw"}
=============================================================================
