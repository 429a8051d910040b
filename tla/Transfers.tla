------------------------------ MODULE Transfers ------------------------------
(***************************************************************************)
(* The transfers of objects: a resumable session that is used either by    *)
(* UploadFile() or by the stream that WriteObject() returns, the stream of *)
(* ReadObject(), the stream of WriteObject() without a session, and the    *)
(* requests of several threads with which these two share the handles and  *)
(* the credentials of their client.                                        *)
(***************************************************************************)
EXTENDS UploadStream, StreamingUpload

CONSTANT Users  \* those of the five that are looked at

ASSUME TransfersAssumption == Users \subseteq {"file", "stream", "read", "simple", "requests"}

vars == <<user, sessionVars, uploadVars, file, streamVars, curlVars, readVars, transportVars>>

Init ==
  /\ user \in Users
  /\ IF user = "file" THEN UploadInit ELSE SessionInit(<<>>) /\ NoUpload
  /\ NoWrite /\ NoTransfer /\ NoRead /\ TransportInit
  /\ user # "requests" => credentials = "key"

FileStep(A) ==
  user = "file" /\ A /\ UNCHANGED <<user, streamVars, curlVars, readVars, transportVars>>

StreamStep(A) ==
  user = "stream" /\ A /\ UNCHANGED <<user, uploadVars, file, curlVars, readVars, transportVars>>

CurlStep(A) == user \in {"read", "simple"} /\ A /\ UNCHANGED <<user, uploadVars, file>>

dataVars == <<sessionVars, streamVars, curlVars, readVars>>

StreamerStep == TransportStep(Streamer) /\ UNCHANGED dataVars

RequesterStep(A) == user = "requests" /\ A /\ UNCHANGED <<user, uploadVars, file, dataVars>>

Ended == \A t \in Thread : request[t] = NoRequest
Done == user \notin {"file", "stream"} /\ Ended /\ UNCHANGED vars

Next ==
  \/ FileStep(UploadNext)
  \/ StreamStep(WriteNext)
  \/ CurlStep(ReadNext)
  \/ CurlStep(SimpleNext)
  \/ CurlStep(StreamerStep)
  \/ \E t \in Requester : RequesterStep(TransportStep(t))
  \/ RequesterStep(Expires)
  \/ Done

Spec == Init /\ [][Next]_vars

(* The client runs, every request is answered or fails, and a transfer goes *)
(* on, ends or breaks.                                                      *)
FairSpec ==
  /\ Spec
  /\ WF_vars(FileStep(Progress))
  /\ WF_vars(StreamStep(WriteInternal))
  /\ WF_vars(CurlStep(ReadWaits))
  /\ WF_vars(CurlStep(WriteWaits))
  /\ WF_vars(CurlStep(TransportProgress(Streamer) /\ UNCHANGED dataVars))
  /\ \A t \in Requester : WF_vars(RequesterStep(TransportProgress(t)))

------------------------------------------------------------------------------

(* Success means that the object is whole, whichever way it is transferred: *)
(* UploadFile() returns metadata, a stream is good after Close(), or a      *)
(* stream is read to its end; each under the mishaps that the comment of    *)
(* the part names.                                                          *)
GoodMeansIntact == Uploaded /\ WrittenMeansStored /\ ReadIsWhole

(* No byte is dropped, repeated or taken out of order in the buffers of the *)
(* three kinds of stream, although their transfers pause, break and go on.  *)
NothingDropped == SentInOrder /\ DownloadInOrder /\ UploadInOrder

(* The requests of all the threads share handles and a token without        *)
(* getting in each other's way: handles have one user and are detached when *)
(* they go back to the pool, unless the stream of an upload is suspended,   *)
(* and the token is refreshed by one thread while the others wait           *)
(* (PooledCurlHandleFactory, AuthorizationHeader).                          *)
SharedSafely ==
  /\ HandlesNotShared /\ RefreshedOnce
  /\ "suspended" \notin mishap => PooledDetached

(* UploadFile() ends, unless the server answers for ever without storing    *)
(* anything: the error count is shared by all the chunks and by both retry  *)
(* loops (RetryResumableUploadSession has one policy).  No operation of a   *)
(* stream waits for ever, and no request for the token.                     *)
TransfersEnd ==
  /\ user = "file" =>
       <>(status # "none") \/ []<><<UploadAnswered /\ UNCHANGED committed>>_vars
  /\ []<>(op = Idle)
  /\ []<>(mu_ = NoThread)
=============================================================================
