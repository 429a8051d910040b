---------------------------- MODULE UploadStream ----------------------------
(***************************************************************************)
(* Client::UploadStreamResumable() (storage/client.cc), which UploadFile() *)
(* uses: it reads a file chunk by chunk and uploads the chunks with a      *)
(* retried session, going back in the file when the server has less than   *)
(* was sent.                                                               *)
(***************************************************************************)
EXTENDS UploadSession

CONSTANTS
  ChunkSize,  \* upload_buffer_size(), rounded up to the quantum
  Sizes,      \* the possible sizes of the file
  Restored    \* how many bytes a restored session may have already

ASSUME UploadAssumption ==
  /\ ChunkSize \in Nat \ {0} /\ ChunkSize % Quantum = 0
  /\ Sizes \subseteq Nat /\ Restored \subseteq Nat /\ 0 \in Restored

VARIABLES
  file,            \* the contents of the file
  position, eof, fail,  \* source: the stream that reads it
  source_size,     \* the size announced to the server
  expected,
  status           \* the result of the function

sourceVars == <<position, eof, fail>>
uploadVars == <<sourceVars, source_size, expected, status>>

NoUpload ==
  /\ file = <<>> /\ position = 0 /\ eof = FALSE /\ fail = FALSE
  /\ source_size = 0 /\ expected = 0 /\ status = "none"

UploadInit ==
  /\ \E n \in Sizes : file = [i \in 1..n |-> i]
  /\ \E n \in {m \in Restored : m < Len(file) \/ m = 0} : SessionInit(SubSeq(file, 1, n))
  /\ position = 0 /\ eof = FALSE /\ fail = FALSE
  /\ source_size = Len(file) /\ expected = 0
  /\ status = "none"

(* std::istream::read(): nothing once failbit is set, which it sets         *)
(* together with eofbit when it reads less than it was asked to.            *)
Gcount ==
  IF fail THEN 0
  ELSE IF Len(file) - position < ChunkSize THEN Len(file) - position ELSE ChunkSize

(* The body of the loop up to UploadChunk().  For an empty chunk at the     *)
(* start of the object expected wraps around; -1 differs from everything    *)
(* as well.                                                                 *)
SendChunk ==
  /\ status = "none" /\ call.at = "none" /\ ~eof /\ ~call.payload
  /\ LET short == Gcount < ChunkSize
         size == IF short THEN next_expected_ + Gcount ELSE source_size
     IN  /\ eof' = (short /\ ~fail)
         /\ fail' = (fail \/ short)
         /\ source_size' = size
         /\ UploadChunk(SubSeq(file, position + 1, position + Gcount), size)
  /\ position' = position + Gcount
  /\ expected' = next_expected_ + Gcount - 1
  /\ UNCHANGED <<status, file>>

(* std::istream::seekg(): clears eofbit, and does nothing if failbit is set.*)
seekg(n) ==
  /\ eof' = FALSE
  /\ position' = IF fail THEN position ELSE n
  /\ UNCHANGED fail

(* Fault: the file is read on from where the last chunk ended.              *)
CheckChunk_NoSeek ==
  /\ status = "none" /\ call.at = "ok"
  /\ UNCHANGED sourceVars
  /\ call' = [call EXCEPT !.at = "none"]
  /\ UNCHANGED <<serverVars, next_expected_, policyVars, source_size, expected, status, file>>

(* The rest of the loop.                                                    *)
CheckChunk ==
  /\ status = "none" /\ call.at = "ok"
  /\ IF next_expected_ # expected THEN seekg(next_expected_) ELSE UNCHANGED sourceVars
  /\ call' = [call EXCEPT !.at = "none"]
  /\ UNCHANGED <<serverVars, next_expected_, policyVars, source_size, expected, status, file>>

(* After the loop: the payload must be the metadata of an object.           *)
LoopEnds ==
  /\ status = "none" /\ call.at = "none" /\ (eof \/ call.payload)
  /\ status' = IF call.payload THEN "OK" ELSE "error"
  /\ UNCHANGED <<sessionVars, sourceVars, source_size, expected, file>>

UploadFailed ==
  /\ status = "none" /\ call.at \in {"error", "threw"}
  /\ status' = call.at
  /\ UNCHANGED <<sessionVars, sourceVars, source_size, expected, file>>

UploadReturned == status # "none" /\ UNCHANGED <<sessionVars, uploadVars, file>>

Progress ==
  \/ SendChunk \/ CheckChunk \/ LoopEnds \/ UploadFailed
  \/ (SessionStep /\ UNCHANGED <<uploadVars, file>>)

UploadNext ==
  \/ Progress \/ UploadReturned
  \/ (Expire /\ status = "none" /\ UNCHANGED <<uploadVars, file>>)

------------------------------------------------------------------------------
(* Properties.                                                              *)

(* UploadFile() returns metadata only if there is an object, whatever goes  *)
(* wrong, and that object is the file although any chunk but the last may   *)
(* be stored in part and any request may fail (storage/client.cc: the       *)
(* seekg() after a chunk that was not stored as a whole).                   *)
Uploaded ==
  status = "OK" => finalized /\ (mishap \subseteq {"early"} => committed = file)

(* That object is the file, whatever goes wrong (internal/resumable_upload_session.h:50:    *)
(* "Users of this class should check this value in case a previous          *)
(* UploadChunk() has partially failed and the application [...] needs to    *)
(* re-send a chunk").                                                       *)
ObjectIsFile == status = "OK" => finalized /\ committed = file
=============================================================================
