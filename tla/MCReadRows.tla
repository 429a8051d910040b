----------------------------- MODULE MCReadRows -----------------------------
(* A table with three rows, read with every kind of row set: all rows, some *)
(* keys, one key with a row and one without, an open and a closed range,    *)
(* and both keys and ranges.                                                *)
EXTENDS ReadRows

MCPairs == {<<0, 1>>}

MCRowSets ==
  {AllRows,
   [row_keys |-> {2, 4}, row_ranges |-> {}],
   SingleRow(3), SingleRow(5),
   [row_keys |-> {}, row_ranges |-> {MakeRange("OPEN", 2, "NOT_SET", 0)}],
   [row_keys |-> {2}, row_ranges |-> {MakeRange("CLOSED", 2, "CLOSED", 3)}]}
=============================================================================
