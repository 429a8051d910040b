------------------------------- MODULE Download -------------------------------
(***************************************************************************)
(* Client::ReadObject(): an ObjectReadStream over a CurlReadStreambuf, and *)
(* the CurlDownloadRequest that fills it.  libcurl delivers the object     *)
(* block by block, while the application waits in GetMore() or in Close(). *)
(* When the buffer is full the callback pauses the transfer, and libcurl   *)
(* keeps the block; GetMore() takes the buffer and lets it go on.          *)
(*                                                                         *)
(* The n-th block of the object is n; 0 is a block that is garbled on the  *)
(* way, or the text of an error.  The errors of the functions              *)
(* curl_multi_*() themselves are left out.                                 *)
(***************************************************************************)
EXTENDS WriteStream, Transport

CONSTANTS
  Blocks,               \* the possible sizes of the object, in blocks
  initial_buffer_size_  \* in blocks

ASSUME DownloadAssumption == Blocks \subseteq Nat /\ initial_buffer_size_ \in Nat \ {0}

VARIABLES
  closing_, curl_closed_,  \* of CurlDownloadRequest and CurlUploadRequest
  buffer_,                 \* of both; of the latter from buffer_rdptr_ on
  code,                    \* libcurl: the code of the response, 0 if there is none
  object,                  \* the object, as the service has it
  todo,                    \* libcurl: the blocks that are not delivered yet
  paused,                  \* libcurl: whether the transfer is paused
  validator,               \* hash_validator_: the hashes it looks at
  received_hash_,          \* the ones the service sends
  region,                  \* the get area: what the application has not read of it
  got,                     \* the blocks the application has read
  at_end                   \* eofbit

curlVars == <<closing_, curl_closed_, buffer_, code>>
readVars == <<object, todo, paused, validator, received_hash_, region, got, at_end>>

NoTransfer ==
  /\ closing_ = FALSE /\ curl_closed_ = FALSE /\ buffer_ = <<>> /\ code = 0

NoRead ==
  /\ object = <<>> /\ todo = <<>> /\ paused = FALSE
  /\ validator = {} /\ received_hash_ = {}
  /\ region = <<>> /\ got = <<>> /\ at_end = FALSE

(* Which hashes are validated: none of a part of an object.                 *)
Hashes == {"md5", "crc32c"}
CreateHashValidator(range, disabled) == IF range THEN {} ELSE Hashes \ disabled

(* Finish() of the validators: a hash that was not received matches.        *)
IsMismatch(bytes) == validator \intersect received_hash_ # {} /\ bytes # object

Waiting(name) == op.name = name
Waits(name) == op' = [Idle EXCEPT !.name = name]

(* ReadObject() with the constructors.  Nothing is sent yet; the stream     *)
(* calls peek() at once.  What the service will answer is chosen here: an   *)
(* object, or an error, as it does without a valid token.                   *)
ReadObject ==
  /\ user = "read"
  /\ BuildTransfer(Streamer)
  /\ \E n \in Blocks : object' = [i \in 1..n |-> i]
  /\ \E range \in BOOLEAN, disabled \in SUBSET Hashes :
       validator' = CreateHashValidator(range, disabled)
  /\ \/ /\ request[Streamer].header = "valid"
        /\ code' = 200 /\ todo' = object'
        /\ received_hash_' \in {{"crc32c"}, Hashes}
     \/ /\ code' = 400 /\ todo' = <<0>>
        /\ received_hash_' = {}
  /\ Waits("get_more")
  /\ UNCHANGED <<closing_, curl_closed_, buffer_, paused, region, got, at_end>>
  /\ UNCHANGED <<sessionVars, bufferVars, open, last_response_, hashed, written, bad, closes>>

------------------------------------------------------------------------------
(* libcurl, which runs while the application waits.                         *)

Performing == op.name \in {"get_more", "close_read"} /\ ~curl_closed_

streamRest == <<bufferVars, open, last_response_, hashed, written, closes>>

(* Fault: the block is taken although the transfer is paused.               *)
WriteCallback_TakesAndPauses ==
  /\ Performing /\ ~paused /\ todo # <<>> /\ ~closing_
  /\ \/ /\ Len(buffer_) >= initial_buffer_size_
        /\ paused' = TRUE /\ buffer_' = Append(buffer_, Head(todo))
        /\ UNCHANGED <<todo, mishap>>
     \/ /\ Len(buffer_) < initial_buffer_size_
        /\ buffer_' = Append(buffer_, Head(todo)) /\ todo' = Tail(todo)
        /\ UNCHANGED <<paused, mishap>>
  /\ UNCHANGED <<closing_, curl_closed_, code, object, validator, received_hash_, region, got, at_end>>
  /\ UNCHANGED <<committed, finalized, next_expected_, policyVars, call, streamRest, bad, op, transportVars>>

(* WriteCallback(), when the stream is not being closed.                    *)
WriteCallback ==
  /\ Performing /\ ~paused /\ todo # <<>> /\ ~closing_
  /\ \/ /\ Len(buffer_) >= initial_buffer_size_
        /\ paused' = TRUE
        /\ UNCHANGED <<buffer_, todo, mishap>>
     \/ /\ Len(buffer_) < initial_buffer_size_
        /\ \/ buffer_' = Append(buffer_, Head(todo)) /\ UNCHANGED mishap
           \/ Failures /\ buffer_' = Append(buffer_, 0) /\ mishap' = mishap \union {"garbled"}
        /\ todo' = Tail(todo)
        /\ UNCHANGED paused
  /\ UNCHANGED <<closing_, curl_closed_, code, object, validator, received_hash_, region, got, at_end>>
  /\ UNCHANGED <<committed, finalized, next_expected_, policyVars, call, streamRest, bad, op, transportVars>>

(* PerformWork() finds that the transfer has ended: all is delivered, or    *)
(* the callback has returned 0, or the transfer failed.  How it ended is    *)
(* not looked at; without an answer there is no code and no header.         *)
DownloadEnds ==
  /\ Performing /\ ~paused
  /\ \/ todo = <<>> /\ UNCHANGED <<code, received_hash_, mishap>>
     \/ closing_ /\ todo # <<>> /\ UNCHANGED <<code, received_hash_, mishap>>
     \/ /\ Failures
        /\ mishap' = mishap \union {"broken"}
        /\ \/ UNCHANGED <<code, received_hash_>>
           \/ /\ buffer_ = <<>> /\ region = <<>> /\ got = <<>>
              /\ code' = 0 /\ received_hash_' = {}
  /\ curl_closed_' = TRUE
  /\ UNCHANGED <<closing_, buffer_, object, todo, paused, validator, region, got, at_end>>
  /\ UNCHANGED <<committed, finalized, next_expected_, policyVars, call, streamRest, bad, op, transportVars>>

------------------------------------------------------------------------------
(* The stream.                                                              *)

(* Fault: the hashes are not compared at the end.                           *)
Finish_NoHash == at_end' = TRUE /\ UNCHANGED bad

(* underflow(), at the end of the object.                                   *)
Finish ==
  IF IsMismatch(got \o region) THEN bad' = TRUE /\ UNCHANGED at_end
  ELSE at_end' = TRUE /\ UNCHANGED bad

(* underflow() of a stream that is open, and not.                           *)
Readable == user = "read" /\ request[Streamer].at = "transfer" /\ op = Idle /\ ~at_end /\ ~bad

Underflow ==
  /\ Readable /\ region = <<>>
  /\ \/ /\ ~curl_closed_
        /\ Waits("get_more")
        /\ UNCHANGED <<at_end, bad>>
     \/ /\ curl_closed_
        /\ Finish
        /\ UNCHANGED op
  /\ UNCHANGED <<curlVars, object, todo, paused, validator, received_hash_, region, got>>
  /\ UNCHANGED <<sessionVars, streamRest, transportVars>>

(* GetMore() returns 100, and underflow() makes the data the get area.      *)
GetMore ==
  /\ Waiting("get_more") /\ ~curl_closed_ /\ Len(buffer_) >= initial_buffer_size_
  /\ region' = buffer_ /\ buffer_' = <<>>
  /\ paused' = FALSE
  /\ op' = Idle
  /\ UNCHANGED <<closing_, curl_closed_, code, object, todo, validator, received_hash_, got, at_end>>
  /\ UNCHANGED <<sessionVars, streamRest, bad, transportVars>>

(* GetMore() returns the code of the response: an error, more data, or none.*)
GetLast ==
  /\ Waiting("get_more") /\ curl_closed_
  /\ RemoveHandle(Streamer)
  /\ buffer_' = <<>>
  /\ IF code >= 300 THEN bad' = TRUE /\ UNCHANGED <<region, at_end>>
     ELSE IF buffer_ # <<>> THEN region' = buffer_ /\ UNCHANGED <<bad, at_end>>
     ELSE Finish /\ UNCHANGED region
  /\ op' = Idle
  /\ UNCHANGED <<closing_, curl_closed_, code, object, todo, paused, validator, received_hash_, got>>
  /\ UNCHANGED <<sessionVars, streamRest, handles_, multi_handles_, request, requests, credentials, tokenVars>>

(* The application reads what there is.                                     *)
ReadRegion ==
  /\ Readable /\ region # <<>>
  /\ got' = got \o region /\ region' = <<>>
  /\ UNCHANGED <<curlVars, object, todo, paused, validator, received_hash_, at_end>>
  /\ UNCHANGED <<sessionVars, streamVars, transportVars>>

(* Close(), by the application or by the destructor.                        *)
CloseRead ==
  /\ user = "read" /\ request[Streamer].at = "transfer" /\ op = Idle /\ ~curl_closed_
  /\ closing_' = TRUE
  /\ Waits("close_read")
  /\ UNCHANGED <<curl_closed_, buffer_, code, readVars, sessionVars, streamRest, bad, transportVars>>

(* The headers of the response are dropped, and the hashes in them.         *)
ReadClosed ==
  /\ Waiting("close_read") /\ curl_closed_
  /\ RemoveHandle(Streamer)
  /\ received_hash_' = {}
  /\ op' = Idle
  /\ UNCHANGED <<curlVars, object, todo, paused, validator, region, got, at_end>>
  /\ UNCHANGED <<sessionVars, streamRest, bad>>
  /\ UNCHANGED <<handles_, multi_handles_, request, requests, credentials, tokenVars>>

(* The destructor of a stream that is closed: the request is destroyed.     *)
DropRead ==
  /\ user = "read" /\ request[Streamer].at = "transfer" /\ op = Idle /\ curl_closed_
  /\ Becomes(Streamer, At(Streamer, "done"))
  /\ UNCHANGED <<curlVars, readVars, sessionVars, streamVars>>
  /\ UNCHANGED <<poolVars, requests, credentials, tokenVars>>

ReadWaits == WriteCallback \/ DownloadEnds \/ GetMore \/ GetLast \/ ReadClosed

ReadNext == ReadObject \/ ReadWaits \/ Underflow \/ ReadRegion \/ CloseRead \/ DropRead

------------------------------------------------------------------------------
(* Properties.                                                              *)

(* If the application reads to the end of a stream that it has not closed,  *)
(* and the stream is not bad, it has read the object, to the last block:    *)
(* even if blocks are garbled or the connection breaks, when a hash was     *)
(* received and is validated (CurlReadStreambuf::underflow).                *)
ReadIsWhole ==
  at_end /\ ~closing_ /\ (mishap = {} \/ validator \intersect received_hash_ # {}) =>
    code = 200 /\ got = object

(* Nothing of a download is dropped or repeated on its way through the two  *)
(* buffers and past a paused transfer: what was read, what is in the get    *)
(* area, in buffer_ and still to come is the object.                        *)
DownloadInOrder ==
  user = "read" /\ code = 200 /\ "garbled" \notin mishap =>
    got \o region \o buffer_ \o todo = object
=============================================================================
