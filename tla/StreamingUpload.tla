--------------------------- MODULE StreamingUpload ---------------------------
(***************************************************************************)
(* Client::WriteObject() without a resumable session, and the upload of    *)
(* media in several parts: an ObjectWriteStream over a CurlWriteStreambuf, *)
(* and the CurlUploadRequest that sends its bytes.  The stream has two     *)
(* buffers: the application fills current_ios_buffer_ while libcurl sends  *)
(* buffer_, and SwapBuffers() exchanges them once buffer_ is sent.         *)
(*                                                                         *)
(* The variables of the stream and of the service are those of             *)
(* WriteStream; committed is what the service has received.  libcurl calls *)
(* ReadCallback() once in curl_multi_perform(), so that it never finds     *)
(* nothing to send: the transfer would be paused for ever, because nobody  *)
(* lets it go on.                                                          *)
(***************************************************************************)
EXTENDS Download

CONSTANT MaxSimpleBytes  \* the bound on how much the application writes

ASSUME SimpleAssumption == MaxSimpleBytes \in Nat

StreamOpen == user = "simple" /\ request[Streamer].at = "transfer"

otherVars == <<readVars, next_expected_, policyVars, call, open, last_response_>>

(* WriteObject() with the constructors.                                     *)
WriteObject ==
  /\ user = "simple"
  /\ BuildTransfer(Streamer)
  /\ UNCHANGED <<curlVars, otherVars, serverVars, bufferVars, hashed, written, bad, closes, op>>

(* SwapBuffers() up to its wait, of a buffer with n bytes in its put area.  *)
BeginSwap(name, bytes, buffer, n) ==
  /\ current_ios_buffer_' = resize(buffer, n)
  /\ hashed' = hashed \o resize(buffer, n)
  /\ op' = [Idle EXCEPT !.name = name, !.bytes = bytes, !.stage = "swap"]

CanWrite(n) == StreamOpen /\ op = Idle /\ Usable /\ Len(written) + n <= MaxSimpleBytes

streamAlways == <<otherVars, serverVars, transportVars, bad, area>>

(* Fault: the buffer is sent without the bytes just written.                *)
xsputn_Late(n) ==
  /\ CanWrite(n)
  /\ put' = put + n
  /\ written' = written \o NextBytes(n)
  /\ IF Len(current_ios_buffer_) + n > max_buffer_size_
     THEN BeginSwap("write", <<>>, current_ios_buffer_, put)
     ELSE current_ios_buffer_' = current_ios_buffer_ \o NextBytes(n) /\ UNCHANGED <<hashed, op>>
  /\ UNCHANGED <<curlVars, closes, streamAlways>>

xsputn(n) ==
  /\ CanWrite(n)
  /\ put' = put + n
  /\ written' = written \o NextBytes(n)
  /\ LET buffer == current_ios_buffer_ \o NextBytes(n)
     IN  IF Len(buffer) > max_buffer_size_
         THEN BeginSwap("write", <<>>, buffer, put + n)
         ELSE current_ios_buffer_' = buffer /\ UNCHANGED <<hashed, op>>
  /\ UNCHANGED <<curlVars, closes, streamAlways>>

(* put() without room in the put area: overflow(); and with room, when the  *)
(* string does not know of the byte.                                        *)
overflow ==
  /\ Puts /\ CanWrite(1) /\ put >= area
  /\ written' = written \o NextBytes(1)
  /\ BeginSwap("overflow", NextBytes(1), current_ios_buffer_, put)
  /\ UNCHANGED <<curlVars, put, closes, streamAlways>>

sputc ==
  /\ Puts /\ CanWrite(1) /\ put < area
  /\ put' = put + 1
  /\ written' = written \o NextBytes(1)
  /\ mishap' = mishap \union {"put"}
  /\ UNCHANGED <<curlVars, otherVars, committed, finalized, current_ios_buffer_, area>>
  /\ UNCHANGED <<hashed, bad, closes, op, transportVars>>

(* flush() and Close(), which begins with one.                              *)
sync(name) ==
  /\ StreamOpen /\ op = Idle /\ Usable
  /\ BeginSwap(name, <<>>, current_ios_buffer_, put)
  /\ closes' = IF name = "close" THEN 1 ELSE closes
  /\ UNCHANGED <<curlVars, put, written, streamAlways>>

------------------------------------------------------------------------------
(* libcurl, which runs while the application waits.                         *)

Sending == StreamOpen /\ op # Idle /\ ~curl_closed_

(* ReadCallback(): some of the bytes, or all.                               *)
ReadCallback ==
  /\ Sending /\ ~closing_ /\ buffer_ # <<>>
  /\ \E n \in {1, Len(buffer_)} :
       /\ committed' = committed \o SubSeq(buffer_, 1, n)
       /\ buffer_' = SubSeq(buffer_, n + 1, Len(buffer_))
  /\ UNCHANGED <<closing_, curl_closed_, code, otherVars, finalized, mishap>>
  /\ UNCHANGED <<streamVars, transportVars>>

(* The callback has returned 0: the service has the end of the payload and  *)
(* creates the object, if the token is valid.                               *)
PayloadEnds ==
  /\ Sending /\ closing_ /\ request[Streamer].header = "valid"
  /\ finalized' = TRUE /\ code' = 200
  /\ curl_closed_' = TRUE
  /\ UNCHANGED <<closing_, buffer_, otherVars, committed, mishap, streamVars, transportVars>>

(* The service answers with an error, or the connection breaks, perhaps     *)
(* only after the object was created.  How the transfer ended is not looked *)
(* at: Wait() returns with bytes that are not sent.                         *)
UploadBreaks ==
  /\ Sending /\ (buffer_ # <<>> \/ closing_)
  /\ \/ code' = 400 /\ UNCHANGED <<mishap, finalized>>
     \/ /\ code' = 0 /\ mishap' = mishap \union {"unanswered"}
        /\ finalized' \in {FALSE, closing_}
  /\ Failures \/ request[Streamer].header # "valid"
  /\ curl_closed_' = TRUE
  /\ UNCHANGED <<closing_, buffer_, otherVars, committed, streamVars, transportVars>>

------------------------------------------------------------------------------
(* The waits of the stream return.                                          *)

Sent == StreamOpen /\ (buffer_ = <<>> \/ curl_closed_)

(* NextBuffer(): what was not sent is gone.                                 *)
NextBuffer == buffer_' = current_ios_buffer_

(* The rest of SwapBuffers().  overflow() then keeps its byte, and the      *)
(* others go on or return.                                                  *)
SwapBuffers ==
  /\ op.stage = "swap" /\ Sent
  /\ NextBuffer
  /\ current_ios_buffer_' = op.bytes
  /\ put' = Len(op.bytes) /\ area' = max_buffer_size_
  /\ op' = IF op.name \in {"write", "overflow"} THEN Idle ELSE [op EXCEPT !.stage = "flush"]
  /\ UNCHANGED <<closing_, curl_closed_, code, otherVars, serverVars, hashed, written, bad, closes>>
  /\ UNCHANGED transportVars

(* Flush() in sync(); Close() goes on with DoClose(), which begins with     *)
(* SwapBuffers() too.                                                       *)
FlushDone ==
  /\ op.stage = "flush" /\ op.name \in {"sync", "close"} /\ Sent
  /\ IF op.name = "sync" THEN op' = Idle /\ UNCHANGED <<current_ios_buffer_, hashed>>
     ELSE BeginSwap("do_close", <<>>, current_ios_buffer_, put)
  /\ UNCHANGED <<curlVars, put, written, closes, streamAlways>>

(* CurlUploadRequest::Close(), after its Flush().                           *)
CloseUpload ==
  /\ op.stage = "flush" /\ op.name = "do_close" /\ Sent
  /\ closing_' = TRUE
  /\ op' = [op EXCEPT !.stage = "closing"]
  /\ UNCHANGED <<curl_closed_, buffer_, code, bufferVars, hashed, written, closes>>
  /\ UNCHANGED <<otherVars, serverVars, transportVars, bad>>

(* Fault: the code of the response is not looked at.                        *)
UploadClosed_NoCode ==
  /\ op.stage = "closing" /\ curl_closed_
  /\ RemoveHandle(Streamer)
  /\ bad' = (code = 200 /\ Hashing /\ hashed # committed)
  /\ op' = Idle
  /\ UNCHANGED <<curlVars, bufferVars, hashed, written, closes, otherVars, serverVars>>
  /\ UNCHANGED <<handles_, multi_handles_, request, requests, credentials, tokenVars>>

(* The rest of Close(), of the request, the buffer and the stream.          *)
UploadClosed ==
  /\ op.stage = "closing" /\ curl_closed_
  /\ RemoveHandle(Streamer)
  /\ bad' = (code >= 300 \/ (code = 200 /\ Hashing /\ hashed # committed))
  /\ op' = Idle
  /\ UNCHANGED <<curlVars, bufferVars, hashed, written, closes, otherVars, serverVars>>
  /\ UNCHANGED <<handles_, multi_handles_, request, requests, credentials, tokenVars>>

(* The destructor of a stream that is closed; Suspend() destroys the buffer *)
(* of one that is not.                                                      *)
DropWrite ==
  /\ StreamOpen /\ op = Idle
  /\ \/ closing_ /\ UNCHANGED mishap
     \/ ~closing_ /\ mishap' = mishap \union {"suspended"}
  /\ Becomes(Streamer, At(Streamer, "done"))
  /\ UNCHANGED <<curlVars, otherVars, committed, finalized, bufferVars, hashed, written, bad>>
  /\ UNCHANGED <<closes, op, poolVars, requests, credentials, tokenVars>>

WriteWaits ==
  \/ ReadCallback \/ PayloadEnds \/ UploadBreaks
  \/ SwapBuffers \/ FlushDone \/ CloseUpload \/ UploadClosed

SimpleNext ==
  \/ WriteObject
  \/ \E n \in WriteSizes : xsputn(n)
  \/ overflow \/ sputc \/ sync("sync") \/ sync("close")
  \/ WriteWaits \/ DropWrite

------------------------------------------------------------------------------
(* Properties.                                                              *)

(* Nothing is dropped between the application and the service while the     *)
(* transfer goes on: every byte written is received, in buffer_ or in       *)
(* current_ios_buffer_, in order, and the hash is that of the first two, if *)
(* no byte was stored through pptr().                                       *)
UploadInOrder ==
  user = "simple" /\ op = Idle /\ ~curl_closed_ /\ "put" \notin mishap =>
    /\ committed \o buffer_ \o current_ios_buffer_ = written
    /\ hashed = committed \o buffer_
    /\ put = Len(current_ios_buffer_)
=============================================================================
