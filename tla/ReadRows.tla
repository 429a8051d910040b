------------------------------ MODULE ReadRows ------------------------------
(***************************************************************************)
(* Reading rows with retries: RowReader (row_reader.cc), which an          *)
(* application iterates over, and AsyncRowReader under AsyncRetryOp        *)
(* (internal/async_row_reader.h), which calls back.                        *)
(*                                                                         *)
(* After a broken stream both ask for the rows after the last one they     *)
(* returned.  The server is external: it sends the rows that a request     *)
(* matches, in order, each as one chunk per cell, with a cell in two parts *)
(* or with a reset in between, and may break the stream anywhere.  A chunk *)
(* is known by its place: the row, the way the row is sent, and how many   *)
(* chunks of it and rows of the stream came before.                        *)
(***************************************************************************)
EXTENDS RowRanges, ReadRowsParser

CONSTANTS
  TableRows,        \* the keys of the rows in the table
  InitialRowSets,   \* what is asked for
  RowsLimits,       \* rows_limit arguments; 0 is no limit
  MaximumFailures,  \* of LimitedErrorCountRetryPolicy
  Modes,            \* "sync", "async"
  Garbled           \* whether the server may send what the parser refuses

ASSUME ReadRowsAssumption ==
  /\ TableRows \subseteq Key \ {NoKey} /\ EmptyKey = NoKey
  /\ InitialRowSets \subseteq RowSet
  /\ RowsLimits \subseteq Nat /\ MaximumFailures \in Nat
  /\ Modes \subseteq {"sync", "async"}
  /\ Garbled \in BOOLEAN

NO_ROWS_LIMIT == 0

VARIABLES
  mode,
  asked,               \* the row_set argument
  rows_limit_,
  row_set_, rows_count_, last_read_row_key_, parser_, status_,
  response_, processed_chunks_count_, stream_is_open_, operation_cancelled_,
  failure_count_,      \* of the retry policy
  requested,           \* the rows_limit of the request
  sent,                \* the last chunk that the server has sent
  unfinished,          \* history: streams opened and not finished
  returned,            \* history: the rows given to the application
  done_status,         \* what the callback of an asynchronous call got
  pc

requestVars == <<row_set_, rows_count_, last_read_row_key_>>
streamVars == <<response_, processed_chunks_count_, stream_is_open_, requested, sent,
                unfinished>>
inputVars == <<mode, asked, rows_limit_>>
callVars == <<inputVars, done_status>>
vars == <<inputVars, requestVars, parser_, status_, streamVars,
          operation_cancelled_, failure_count_, returned, done_status, pc>>

------------------------------------------------------------------------------
(* The server.                                                              *)

ServerChunk(k, q, value, size, flag) ==
  [row_key |-> k, family |-> IF q = 1 THEN 1 ELSE NoName, qualifier |-> q,
   value |-> value, value_size |-> size,
   reset_row |-> flag = "reset", commit_row |-> flag = "commit"]

Ways == {"whole", "parts", "reset"} \union (IF Garbled THEN {"garbled"} ELSE {})

(* The ways in which row k is sent: a chunk per cell, a cell in two parts,  *)
(* all over again after a reset, or with a cell of another row.             *)
Encoding(k, way) ==
  LET first  == ServerChunk(k, 1, <<1, 2>>, 0, "")
      second == ServerChunk(NoKey, 2, <<1, 2>>, 0, "commit")
  IN  CASE way = "whole"   -> <<first, second>>
        [] way = "parts"   -> <<first, ServerChunk(NoKey, 2, <<1>>, 1, ""),
                                ServerChunk(NoKey, NoName, <<2>>, 0, "commit")>>
        [] way = "reset"   -> <<first, ServerChunk(NoKey, NoName, <<>>, 0, "reset"),
                                first, second>>
        [] way = "garbled" -> <<first, ServerChunk(k + 1, 2, <<1, 2>>, 0, "commit")>>

(* The row as the application should see it.                                *)
RowOf(k) ==
  [row_key |-> k,
   cells |-> [c \in 1..2 |-> [row |-> k, family |-> 1, column |-> c, value |-> <<1, 2>>]]]

Chunk(place) == Encoding(place.row, place.way)[place.at]

IsLast(place) == place.at = Len(Encoding(place.row, place.way))

(* Before the first chunk of a stream.                                      *)
Nothing == [row |-> NoKey, way |-> "whole", at |-> 2, nth |-> 0]

(* The rows of the table that set matches, after key.                       *)
RowsAfter(set, key) == {k \in TableRows : Matches(set, k) /\ key < k}

(* The chunks that may follow one in a stream: the next of the row, or the  *)
(* first of the next row, unless the request wants no more rows.            *)
Following(place) ==
  IF ~IsLast(place) THEN {[place EXCEPT !.at = @ + 1]}
  ELSE {[row |-> k, way |-> way, at |-> 1, nth |-> place.nth + 1] :
          k   \in {r \in RowsAfter(row_set_, place.row) :
                   /\ \A q \in RowsAfter(row_set_, place.row) : r <= q
                   /\ requested = NO_ROWS_LIMIT \/ place.nth < requested},
          way \in Ways}

(* What the server may send next: any number of chunks, of which two are    *)
(* enough for a response that goes on in the next row.                      *)
Extended(responses) ==
  responses \union
    UNION {{Append(r, place) : place \in Following(IF r = <<>> THEN sent ELSE r[Len(r)])} :
             r \in responses}

Responses == Extended(Extended({<<>>}))

(* client_->ReadRows().                                                     *)
OpenStream(limit) == requested' = limit /\ sent' = Nothing

(* The stream is gone, with all that is not read of it.                     *)
CloseStream == requested' = NO_ROWS_LIMIT /\ sent' = Nothing

------------------------------------------------------------------------------

(* The rows_limit of a request, which is not set if there is no limit.      *)
RequestLimit ==
  IF rows_limit_ # NO_ROWS_LIMIT THEN rows_limit_ - rows_count_ ELSE NO_ROWS_LIMIT

(* Fault: the parser survives a retry.                                      *)
CreateParser_Once == parser_' = parser_

(* parser_factory_->Create().                                               *)
CreateParser == parser_' = NewParser

(* RowReader::MakeRequest().                                                *)
MakeRequest ==
  /\ response_' = <<>> /\ processed_chunks_count_' = 0
  /\ OpenStream(RequestLimit)
  /\ stream_is_open_' = TRUE /\ unfinished' = unfinished + 1
  /\ CreateParser

Init ==
  /\ mode \in Modes /\ asked \in InitialRowSets /\ rows_limit_ \in RowsLimits
  /\ row_set_ = asked /\ rows_count_ = 0 /\ last_read_row_key_ = NoKey
  /\ parser_ = NewParser /\ status_ = "OK"
  /\ response_ = <<>> /\ processed_chunks_count_ = 0
  /\ stream_is_open_ = FALSE /\ operation_cancelled_ = FALSE
  /\ failure_count_ = 0 /\ requested = NO_ROWS_LIMIT /\ sent = Nothing /\ unfinished = 0
  /\ returned = <<>> /\ done_status = "OK" /\ pc = "start"

(* Policies and the common part of both readers.                            *)
Transient(st) == st = "UNAVAILABLE"

(* Fault: the policy is never exhausted.                                    *)
CanRetry_NoLimit(st) == Transient(st)

(* RetryPolicy::OnFailure(), before the failure is counted.                 *)
CanRetry(st) == Transient(st) /\ failure_count_ < MaximumFailures

CountFailure(st) ==
  failure_count_' = IF Transient(st) /\ failure_count_ <= MaximumFailures
                      THEN failure_count_ + 1 ELSE failure_count_

(* A complete row is taken from the parser and given to the application.    *)
TakeRow ==
  /\ parser_' = AfterNext(parser_)
  /\ rows_count_' = rows_count_ + 1
  /\ last_read_row_key_' = Row(parser_).row_key
  /\ returned' = Append(returned, Row(parser_))

(* Fault: the last row is asked for again.                                  *)
RestOf_Closed(set) ==
  IF last_read_row_key_ = NoKey THEN set
  ELSE SetIntersect(set, MakeRange("CLOSED", last_read_row_key_, "NOT_SET", EmptyKey))

(* The rows that have not been returned.                                    *)
RestOf(set) ==
  IF last_read_row_key_ = NoKey THEN set
  ELSE SetIntersect(set, OpenFrom(last_read_row_key_))

------------------------------------------------------------------------------
(* RowReader.                                                               *)

(* begin() for the first time.                                              *)
Begin ==
  /\ mode = "sync" /\ pc = "start"
  /\ IF operation_cancelled_
       THEN /\ status_' = "CANCELLED" /\ pc' = "end"
            /\ UNCHANGED <<streamVars, parser_>>
       ELSE /\ MakeRequest /\ pc' = "advance"
            /\ UNCHANGED status_
  /\ UNCHANGED <<callVars, requestVars, operation_cancelled_, failure_count_, returned>>

(* ++it, after a row.                                                       *)
Increment ==
  /\ mode = "sync" /\ pc = "row" /\ ~operation_cancelled_
  /\ pc' = "advance"
  /\ UNCHANGED <<callVars, requestVars, parser_, status_, streamVars,
                 operation_cancelled_, failure_count_, returned>>

(* Fault: the index of a new response starts at its second chunk.           *)
FirstChunk_Skipped == 1

(* processed_chunks_count_ after a response was read; the first chunk is 0. *)
FirstChunk == 0

(* NextChunk(), when the response has another chunk: HandleChunk() gets it. *)
ParseChunk(response, index) ==
  LET r == HandleChunk(parser_, Chunk(response[index + 1]))
  IN  /\ response_' = response /\ processed_chunks_count_' = index
      /\ parser_' = r.parser
      /\ status_' = IF r.status = "OK" THEN status_ ELSE r.status
      /\ pc' = IF r.status = "OK" THEN "advance" ELSE "failed"

AdvanceChunk ==
  /\ pc = "advance" /\ mode = "sync" /\ ~HasNext(parser_)
  /\ processed_chunks_count_ + 1 < Len(response_)
  /\ ParseChunk(response_, processed_chunks_count_ + 1)
  /\ UNCHANGED <<callVars, requestVars, stream_is_open_, requested, sent,
                 unfinished, operation_cancelled_, failure_count_, returned>>

(* NextChunk(), when it reads a response.                           *)
AdvanceRead(response) ==
  /\ pc = "advance" /\ mode = "sync" /\ ~HasNext(parser_)
  /\ processed_chunks_count_ + 1 >= Len(response_)
  /\ sent' = IF response = <<>> THEN sent ELSE response[Len(response)]
  /\ IF FirstChunk < Len(response)
       THEN ParseChunk(response, FirstChunk)
       ELSE /\ response_' = response /\ processed_chunks_count_' = FirstChunk
            /\ UNCHANGED <<parser_, status_, pc>>
  /\ UNCHANGED <<callVars, requestVars, stream_is_open_, requested, unfinished,
                 operation_cancelled_, failure_count_, returned>>

(* NextChunk() fails, and Finish() returns st: the end of AdvanceOrFail().  *)
AdvanceFinish(st) ==
  /\ pc = "advance" /\ mode = "sync" /\ ~HasNext(parser_)
  /\ processed_chunks_count_ + 1 >= Len(response_)
  /\ st = "OK" => Following(sent) = {}
  /\ response_' = <<>> /\ processed_chunks_count_' = 0
  /\ stream_is_open_' = FALSE /\ unfinished' = unfinished - 1 /\ CloseStream
  /\ IF st # "OK"
       THEN status_' = st /\ pc' = "failed" /\ UNCHANGED parser_
       ELSE LET r == HandleEndOfStream(parser_)
            IN  /\ parser_' = r.parser /\ status_' = r.status
                /\ pc' = IF r.status = "OK" THEN "end" ELSE "failed"
  /\ UNCHANGED <<callVars, requestVars, operation_cancelled_, failure_count_, returned>>

(* AdvanceOrFail() returns a row.                                           *)
AdvanceRow ==
  /\ pc = "advance" /\ mode = "sync" /\ HasNext(parser_)
  /\ TakeRow
  /\ status_' = "OK" /\ pc' = "row"
  /\ UNCHANGED <<callVars, row_set_, streamVars, operation_cancelled_, failure_count_>>

LimitReached == rows_limit_ # NO_ROWS_LIMIT /\ rows_limit_ <= rows_count_

(* Advance() after a failure: it gives up or restarts the call.             *)
AdvanceFailed ==
  /\ pc = "failed" /\ mode = "sync"
  /\ IF LimitReached
       THEN /\ pc' = "end"
            /\ UNCHANGED <<row_set_, failure_count_, parser_, streamVars>>
       ELSE /\ row_set_' = RestOf(row_set_)
            /\ IF SetIsEmpty(row_set_') \/ ~CanRetry(status_)
                 THEN /\ pc' = "end"
                      /\ IF SetIsEmpty(row_set_') THEN UNCHANGED failure_count_
                                                  ELSE CountFailure(status_)
                      /\ UNCHANGED <<parser_, streamVars>>
                 ELSE /\ CountFailure(status_)
                      /\ MakeRequest
                      /\ pc' = "advance"
  /\ UNCHANGED <<callVars, rows_count_, last_read_row_key_, status_,
                 operation_cancelled_, returned>>

(* Cancel(), or the destructor, which calls it: the rest of the stream is   *)
(* drained and its status ignored.                                          *)
CancelBody ==
  /\ operation_cancelled_' = TRUE
  /\ stream_is_open_' = FALSE
  /\ unfinished' = IF stream_is_open_ THEN unfinished - 1 ELSE unfinished
  /\ CloseStream

Cancel ==
  /\ mode = "sync" /\ pc \in {"start", "row"} /\ ~operation_cancelled_
  /\ CancelBody
  /\ UNCHANGED <<callVars, requestVars, parser_, status_, response_,
                 processed_chunks_count_, failure_count_, returned, pc>>

Destroy ==
  /\ mode = "sync" /\ pc \in {"start", "row", "end"}
  /\ CancelBody
  /\ pc' = "destroyed"
  /\ UNCHANGED <<callVars, requestVars, parser_, status_, response_,
                 processed_chunks_count_, failure_count_, returned>>

------------------------------------------------------------------------------
(* AsyncRowReader.                                                          *)

(* Start(), of the first or of a later attempt.                             *)
AsyncStart ==
  /\ mode = "async" /\ pc = "start"
  /\ row_set_' = RestOf(row_set_)
  /\ OpenStream(RequestLimit)
  /\ pc' = "stream"
  /\ UNCHANGED <<callVars, rows_count_, last_read_row_key_, parser_, status_,
                 response_, processed_chunks_count_, stream_is_open_, unfinished,
                 operation_cancelled_, failure_count_, returned>>

(* ProcessResponse() for a response of one chunk.  An error stays in        *)
(* status_, and no row is returned any more: what is dropped of a longer    *)
(* response makes no difference.                                            *)
AsyncChunk ==
  /\ mode = "async" /\ pc = "stream"
  /\ HasNext(parser_) => status_ # "OK"
  /\ sent' \in Following(sent)
  /\ LET r == HandleChunk(parser_, Chunk(sent'))
     IN  /\ parser_' = r.parser
         /\ status_' = IF r.status = "OK" THEN status_ ELSE r.status
  /\ UNCHANGED <<callVars, requestVars, response_, processed_chunks_count_,
                 stream_is_open_, requested, unfinished, operation_cancelled_, failure_count_,
                 returned, pc>>

AsyncRow ==
  /\ mode = "async" /\ pc = "stream" /\ HasNext(parser_) /\ status_ = "OK"
  /\ TakeRow
  /\ UNCHANGED <<callVars, row_set_, status_, streamVars, operation_cancelled_,
                 failure_count_, pc>>

(* FinishedCallback for a stream that ended with st, and what               *)
(* RetriableLoopAdapter::OnCompletion() makes of it.                        *)
AsyncFinish(st) ==
  /\ mode = "async" /\ pc = "stream"
  /\ HasNext(parser_) => status_ # "OK"
  /\ st = "OK" => Following(sent) = {}
  /\ LET closes == st = "OK" /\ status_ = "OK"
         r      == HandleEndOfStream(parser_)
         final  == IF closes THEN r.status
                   ELSE IF st = "OK" THEN "UNAVAILABLE" ELSE st
     IN  /\ parser_' = IF closes THEN r.parser ELSE parser_
         /\ CountFailure(final)
         /\ IF CanRetry(final)
              THEN pc' = "start" /\ UNCHANGED done_status
              ELSE pc' = "end" /\ done_status' = final
  /\ CloseStream
  /\ UNCHANGED <<inputVars, requestVars, status_, response_, processed_chunks_count_,
                 stream_is_open_, unfinished, operation_cancelled_, returned>>

(* The call is cancelled while it waits for the next attempt.               *)
AsyncCancel ==
  /\ mode = "async" /\ pc = "start" /\ failure_count_ > 0
  /\ done_status' = "CANCELLED" /\ pc' = "end"
  /\ UNCHANGED <<inputVars, requestVars, parser_, status_, streamVars,
                 operation_cancelled_, failure_count_, returned>>

------------------------------------------------------------------------------
(* ReadRow() and AsyncReadRow(): the result of a read of RowSet(row_key)    *)
(* with the limit 1 that has ended.                                         *)

SingleRow(k) == [row_keys |-> {k}, row_ranges |-> {}]

Found == [found |-> TRUE, status |-> "OK"]

NotFound(st) == [found |-> FALSE, status |-> st]

(* The status of the reader matters only if there is no row.                *)
ReadRow ==
  CASE Len(returned) = 0 -> NotFound(status_)
    [] Len(returned) = 1 -> Found
    [] OTHER             -> NotFound("INTERNAL")

(* ReadRowCallbackAdapter.                                                  *)
AsyncReadRow ==
  CASE done_status # "OK"   -> NotFound(done_status)
    [] done_status = "OK" /\ Len(returned) = 1 -> Found
    [] done_status = "OK" /\ Len(returned) = 0 -> NotFound("OK")
    [] OTHER                -> NotFound("INTERNAL")

RowRead == IF mode = "sync" THEN ReadRow ELSE AsyncReadRow

------------------------------------------------------------------------------

Terminated == pc \in {"destroyed", "end"} /\ UNCHANGED vars

Status == {"OK", "UNAVAILABLE", "CANCELLED"}

Advance ==
  \/ AdvanceChunk \/ AdvanceRow \/ AdvanceFailed
  \/ \E response \in Responses : AdvanceRead(response)
  \/ \E st \in Status : AdvanceFinish(st)

Attempt ==
  \/ AsyncStart \/ AsyncChunk \/ AsyncRow
  \/ \E st \in Status : AsyncFinish(st)

Next ==
  \/ Begin \/ Increment \/ Advance \/ Cancel \/ Destroy
  \/ Attempt \/ AsyncCancel \/ Terminated

Spec == Init /\ [][Next]_vars

(* The application iterates to the end, and every stream ends after it sent *)
(* what it has to send: responses have chunks in the long run.              *)
FairSpec ==
  /\ Spec
  /\ WF_vars(Begin \/ Increment \/ AdvanceChunk \/ AdvanceRow \/ AdvanceFailed)
  /\ WF_vars(\E response \in Responses \ {<<>>} : AdvanceRead(response))
  /\ WF_vars(\E st \in Status : AdvanceFinish(st))
  /\ WF_vars(Attempt)

------------------------------------------------------------------------------
(* Properties.                                                              *)

Asked == {k \in TableRows : Matches(asked, k)}

KeyReturned == {returned[i].row_key : i \in DOMAIN returned}

FinalStatus == IF mode = "sync" THEN status_ ELSE done_status

(* However often the stream breaks, the rows returned so far are the first  *)
(* of the rows that match the request: in order, none twice and none left   *)
(* out (row_reader.cc: "We've returned some rows and need to make sure we   *)
(* don't request them again").  RowReader returns no more of them than      *)
(* rows_limit (table.h:241: "the maximum number of rows to read"), although *)
(* a request with limit 0 means all; AsyncRowReader may send such a request.*)
NoRowSkipped ==
  /\ KeyReturned \subseteq Asked
  /\ \A i, j \in DOMAIN returned : i < j => returned[i].row_key < returned[j].row_key
  /\ \A k \in KeyReturned, q \in Asked \ KeyReturned : k < q
  /\ mode = "sync" /\ rows_limit_ # NO_ROWS_LIMIT => Len(returned) <= rows_limit_

(* A read that ends with OK has returned every matching row, or as many as  *)
(* the limit allows.  So ReadRow() and AsyncReadRow(), which ask for one    *)
(* row of one key, are right about whether it exists (table.h:259: "with    *)
(* value `false` if the row does not exist").                               *)
OkMeansComplete ==
  pc = "end" =>
    /\ FinalStatus = "OK" =>
         \/ Asked \subseteq KeyReturned
         \/ rows_limit_ # NO_ROWS_LIMIT /\ rows_limit_ <= Len(returned)
    /\ \A k \in Key :
         asked = SingleRow(k) /\ rows_limit_ = 1 /\ RowRead.status = "OK" =>
           RowRead.found = (k \in TableRows)

(* A row that RowReader returns has its cells, each once and with its       *)
(* value, whatever was received of it before a stream broke                 *)
(* (readrowsparser.h:46: "a single and unique parser should be used for     *)
(* each stream").  AsyncRowReader has one parser for all its streams.       *)
RowsWhole ==
  mode = "sync" => \A i \in DOMAIN returned : returned[i] = RowOf(returned[i].row_key)

(* Finish() is called once for every stream: a retry starts only after it,  *)
(* and cancelling or destroying the reader leaves no stream open            *)
(* (row_reader.cc: "Make sure we don't leave open streams").                *)
StreamsFinished ==
  /\ unfinished = IF stream_is_open_ THEN 1 ELSE 0
  /\ pc = "destroyed" => unfinished = 0

(* A read ends if the streams do (row_reader.cc: Advance; the policies      *)
(* limit the retries), and it has finished each of them.                    *)
ReadEnds ==
  /\ <>(pc \in {"end", "destroyed"} \/ operation_cancelled_)
  /\ []StreamsFinished
=============================================================================
