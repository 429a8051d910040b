--------------------------- MODULE ReadRowsParser ---------------------------
(***************************************************************************)
(* ReadRowsParser (internal/readrowsparser.{h,cc}): assembles the chunks   *)
(* of a ReadRows stream into rows.  A parser is a record; an operation     *)
(* takes one and returns the parser after it together with the status.     *)
(* Timestamps and labels are left out, a value is the sequence of the      *)
(* parts it was received in.                                               *)
(***************************************************************************)
EXTENDS Integers, Sequences

NoKey == 0    \* "", less than every row key
NoName == 0   \* a family or a qualifier that is not set

NoCell == [row |-> NoKey, family |-> NoName, column |-> NoName, value |-> <<>>]

NewParser ==
  [row_key_ |-> NoKey, cells_ |-> <<>>, cell_first_chunk_ |-> TRUE,
   cell_ |-> NoCell, last_seen_row_key_ |-> NoKey, row_ready_ |-> FALSE,
   end_of_stream_ |-> FALSE]

Ok(p) == [parser |-> p, status |-> "OK"]
Internal(p) == [parser |-> p, status |-> "INTERNAL"]

HasNext(p) == p.row_ready_

(* The row key, family and qualifier of a chunk replace those of cell_.     *)
TakeKey(p, chunk) ==
  IF chunk.row_key = NoKey THEN p ELSE [p EXCEPT !.cell_.row = chunk.row_key]

TakeNames(p, chunk) ==
  [p EXCEPT !.cell_.family = IF chunk.family = NoName THEN @ ELSE chunk.family,
            !.cell_.column = IF chunk.qualifier = NoName THEN @ ELSE chunk.qualifier]

TakeValue(p, chunk) ==
  [p EXCEPT !.cell_.value = IF p.cell_first_chunk_ THEN chunk.value
                                                    ELSE @ \o chunk.value,
            !.cell_first_chunk_ = FALSE]

(* A complete cell needs a row key, the one of the row it is added to.      *)
WrongKey(p) ==
  IF p.cells_ = <<>> THEN p.cell_.row = NoKey ELSE p.row_key_ # p.cell_.row

(* MovePartialToCell(): the names stay for the cells that follow.           *)
CompleteCell(p) ==
  [p EXCEPT !.row_key_ = IF p.cells_ = <<>> THEN p.cell_.row ELSE @,
            !.cells_ = Append(@, p.cell_),
            !.cell_.value = <<>>,
            !.cell_first_chunk_ = TRUE]

ResetRow(p) ==
  LET q == [p EXCEPT !.cells_ = <<>>, !.cell_ = NoCell]
  IN  IF q.cell_first_chunk_ THEN Ok(q) ELSE Internal(q)

CommitRow(p) ==
  IF ~p.cell_first_chunk_ \/ p.cells_ = <<>> THEN Internal(p)
  ELSE Ok([p EXCEPT !.row_ready_ = TRUE, !.last_seen_row_key_ = p.row_key_,
                    !.cell_.row = NoKey])

(* The end of HandleChunk(), once the cell is dealt with.                   *)
EndOfChunk(p, chunk) ==
  IF chunk.reset_row THEN ResetRow(p)
  ELSE IF chunk.commit_row THEN CommitRow(p)
  ELSE Ok(p)

OutOfOrder(p, chunk) == chunk.row_key <= p.last_seen_row_key_

HandleChunk(p, chunk) ==
  LET named == TakeNames(TakeKey(p, chunk), chunk)
      read  == TakeValue(named, chunk)
  IN  IF p.end_of_stream_ \/ HasNext(p) THEN Internal(p)
      ELSE IF chunk.row_key # NoKey /\ OutOfOrder(p, chunk) THEN Internal(p)
      ELSE IF chunk.family # NoName /\ chunk.qualifier = NoName
             THEN Internal(TakeKey(p, chunk))
      ELSE IF chunk.value_size > 0 THEN EndOfChunk(read, chunk)
      ELSE IF WrongKey(read) THEN Internal(read)
      ELSE EndOfChunk(CompleteCell(read), chunk)

HandleEndOfStream(p) ==
  LET q == [p EXCEPT !.end_of_stream_ = TRUE]
  IN  IF p.end_of_stream_ THEN Internal(p)
      ELSE IF ~p.cell_first_chunk_ \/ (p.cells_ # <<>> /\ ~p.row_ready_)
             THEN Internal(q)
      ELSE Ok(q)

(* Next(): the row is moved out.                                            *)
Row(p) == [row_key |-> p.row_key_, cells |-> p.cells_]

AfterNext(p) == [p EXCEPT !.row_ready_ = FALSE, !.row_key_ = NoKey, !.cells_ = <<>>]
=============================================================================
