------------------------------ MODULE MCRowSets ------------------------------
(* The keys "", "\0", "a", "a\0" and "b" for row sets; prefixes of up to two *)
(* of the bytes 0, 1, 0xFE and 0xFF.  The calls of PrefixRangeEnd() are     *)
(* independent of the row sets: every argument is tried in the initial      *)
(* states and forgotten.                                                    *)
EXTENDS RowSets, PrefixRange
MCPairs == {<<0, 1>>, <<2, 3>>}
MCNext == SetNext /\ prefix' = <<>>
MCInit == SetInit /\ AnyPrefix
MCSpec == MCInit /\ [][MCNext]_<<setVars, prefix>>
==============================================================================
