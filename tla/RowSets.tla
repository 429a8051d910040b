------------------------------- MODULE RowSets -------------------------------
(***************************************************************************)
(* A RowSet as an application and the readers use it: built from keys and  *)
(* ranges, then narrowed again and again by Intersect(), as RowReader does *)
(* after every failed stream.  wanted is what the calls so far mean.       *)
(***************************************************************************)
EXTENDS RowRanges

VARIABLES row_set, wanted

setVars == <<row_set, wanted>>

CONSTANT MaxEntries  \* how many keys and ranges are appended

ASSUME EntriesAssumption == MaxEntries \in Nat

KeysOf(r) == {k \in Key : Contains(r, k)}

(* RowSet(): all rows.                                                      *)
SetInit == row_set = AllRows /\ wanted = Key

Entries == Cardinality(row_set.row_keys) + Cardinality(row_set.row_ranges)

(* Append(): the first entry replaces "all rows".                           *)
AppendEntry(set, keys) ==
  /\ Entries < MaxEntries
  /\ row_set' = set
  /\ wanted' = keys \union (IF row_set = AllRows THEN {} ELSE wanted)

Narrow(range) ==
  /\ row_set' = SetIntersect(row_set, range)
  /\ wanted' = wanted \intersect KeysOf(range)

SetNext ==
  \/ \E k \in Key : AppendEntry(AppendKey(row_set, k), {k})
  \/ \E r \in Range : AppendEntry(AppendRange(row_set, r), KeysOf(r))
  \/ \E r \in Range : Narrow(r)

SetSpec == SetInit /\ [][SetNext]_setVars

------------------------------------------------------------------------------
(* Properties.                                                              *)

(* The proto that is sent denotes exactly the keys asked for, however often *)
(* it was narrowed: no row is read again and none is skipped (row_set.cc:   *)
(* "a RowSet() with no entries means all rows, but we want no rows").       *)
Denotes == \A k \in Key : Matches(row_set, k) <=> k \in wanted

(* A set that says it is empty matches nothing: RowReader stops because of  *)
(* it instead of retrying (row_set.h: "A row set is empty iff passing it to *)
(* a ReadRows call would never cause it to return rows").                   *)
EmptyIsEmpty == SetIsEmpty(row_set) => wanted = {}
==============================================================================
