------------------------------ MODULE DataOps ------------------------------
(***************************************************************************)
(* The calls of Table on single rows, and SampleRows(): what they ask for  *)
(* and which of them may be repeated.  Names, values and filters are left  *)
(* out.                                                                    *)
(***************************************************************************)
EXTENDS Integers

ServerSetTimestamp == -1

(* The mutations an application can make.  A time stamp in milliseconds    *)
(* is sent in microseconds.                                                *)
SetCellAt(timestamp) ==
  [kind |-> "set_cell", timestamp_micros |-> 1000 * timestamp]

SetCell == [kind |-> "set_cell", timestamp_micros |-> ServerSetTimestamp]

DeleteFromColumn == [kind |-> "delete_from_column", timestamp_micros |-> 0]

DeleteFromFamily == [kind |-> "delete_from_family", timestamp_micros |-> 0]

DeleteFromRow == [kind |-> "delete_from_row", timestamp_micros |-> 0]

RowMutation == {SetCellAt(-1), SetCellAt(1), SetCell, DeleteFromColumn,
                DeleteFromFamily, DeleteFromRow}

(* The mutations of one Apply(), up to order; there may be none.           *)
SingleRowMutation == SUBSET RowMutation

-----------------------------------------------------------------------------
(* SafeIdempotentMutationPolicy and AlwaysRetryMutationPolicy.             *)

MutationIsIdempotent(policy, m) ==
  CASE policy = "safe" ->
         m.kind # "set_cell" \/ m.timestamp_micros # ServerSetTimestamp
    [] policy = "always" -> TRUE

RequestIsIdempotent(policy) == policy = "always"

-----------------------------------------------------------------------------
(* Whether a call is repeated after a failure, as it is given to the       *)
(* function that makes the attempts.                                       *)

(* Fault: one idempotent mutation is enough.                               *)
ApplyRetried_Any(policy, ms) == \E m \in ms : MutationIsIdempotent(policy, m)

ApplyRetried(policy, ms) == \A m \in ms : MutationIsIdempotent(policy, m)

AsyncApplyRetried(policy, ms) == \A m \in ms : MutationIsIdempotent(policy, m)

CheckAndMutateRowRetried(policy) == RequestIsIdempotent(policy)

AsyncCheckAndMutateRowRetried(policy) == RequestIsIdempotent(policy)

ReadModifyWriteRowRetried == FALSE

SampleRowsRetried == TRUE

AsyncSampleRowKeysRetried == TRUE

(* The functions of Table.  BulkApply() is BulkMutator.tla, ReadRows() and *)
(* ReadRow() are ReadRows.tla.                                             *)
TableFunctions == {"Apply", "BulkApply", "ReadRows", "ReadRow", "CheckAndMutateRow",
                   "SampleRows", "ReadModifyWriteRow"}

Request(op, style, retried, repeatable) ==
  [op |-> op, style |-> style, retried |-> retried, repeatable |-> repeatable]

(* The requests an application can make.  Those that are repeatable have   *)
(* the same effect if the server carries them out more than once.          *)
ApplyRequests(policy) ==
  {Request("Apply", "sync", ApplyRetried(policy, ms), SetCell \notin ms) :
     ms \in SingleRowMutation}
  \cup
  {Request("Apply", "async", AsyncApplyRetried(policy, ms), SetCell \notin ms) :
     ms \in SingleRowMutation}

CheckAndMutateRowRequests(policy) ==
  {Request("CheckAndMutateRow", "sync", CheckAndMutateRowRetried(policy), FALSE),
   Request("CheckAndMutateRow", "async", AsyncCheckAndMutateRowRetried(policy), FALSE)}

ReadModifyWriteRowRequests ==
  {Request("ReadModifyWriteRow", "sync", ReadModifyWriteRowRetried, FALSE)}

SampleRowsRequests ==
  {Request("SampleRows", "sync", SampleRowsRetried, TRUE),
   Request("SampleRows", "async", AsyncSampleRowKeysRetried, TRUE)}

Requests(policy) ==
  ApplyRequests(policy) \cup CheckAndMutateRowRequests(policy)
    \cup ReadModifyWriteRowRequests \cup SampleRowsRequests

=============================================================================
