------------------------------ MODULE RowRanges ------------------------------
(***************************************************************************)
(* RowRange (row_range.{h,cc}) and RowSet (row_set.{h,cc}) of Cloud        *)
(* Bigtable, as operators.                                                 *)
(*                                                                         *)
(* Row keys are compared as byte strings; a key stands for its place in    *)
(* that order.  The lists of a RowSet proto are sets: what the server      *)
(* returns does not depend on their order.                                 *)
(***************************************************************************)
EXTENDS Integers, FiniteSets

CONSTANTS
  Key,              \* the row keys
  EmptyKey,         \* ""
  ZeroKey,          \* "\0"
  ConsecutivePairs  \* <<a, b>> where b is a with a "\0" appended

ASSUME KeyAssumption ==
  /\ Key \subseteq Int
  /\ EmptyKey \in Key /\ ZeroKey \in Key
  /\ \A k \in Key : EmptyKey <= k
  /\ ConsecutivePairs \subseteq Key \X Key
  /\ <<EmptyKey, ZeroKey>> \in ConsecutivePairs
  /\ \A a \in Key, b \in Key :
       <<a, b>> \in ConsecutivePairs =>
         a < b /\ \A c \in Key : ~(a < c /\ c < b)

Case == {"NOT_SET", "CLOSED", "OPEN"}

(* The oneofs of the RowRange proto; one that is not set reads as "".       *)
Range ==
  {r \in [start_case : Case, start_key : Key, end_case : Case, end_key : Key] :
     /\ r.start_case = "NOT_SET" => r.start_key = EmptyKey
     /\ r.end_case = "NOT_SET" => r.end_key = EmptyKey}

MakeRange(sc, sk, ec, ek) ==
  [start_case |-> sc, start_key |-> sk, end_case |-> ec, end_key |-> ek]

(* RowRange::Empty(): an open interval between consecutive keys.            *)
Empty == MakeRange("OPEN", EmptyKey, "OPEN", ZeroKey)

(* RowRange::Open(begin, ""), all the keys after begin.                     *)
OpenFrom(begin) == MakeRange("OPEN", begin, "NOT_SET", EmptyKey)

Consecutive(a, b) == <<a, b>> \in ConsecutivePairs

BelowStart(r, key) ==
  \/ r.start_case = "CLOSED" /\ key < r.start_key
  \/ r.start_case = "OPEN" /\ key <= r.start_key

AboveEnd(r, key) ==
  \/ r.end_case = "CLOSED" /\ key > r.end_key
  \/ r.end_case = "OPEN" /\ key >= r.end_key

Contains(r, key) == ~BelowStart(r, key) /\ ~AboveEnd(r, key)

(* A range with no end is never empty.                                      *)
IsEmpty(r) ==
  LET start_open == r.start_case = "OPEN"
      end_open   == r.end_case = "OPEN"
  IN  /\ r.end_case # "NOT_SET"
      /\ \/ start_open /\ end_open /\ Consecutive(r.start_key, r.end_key)
         \/ r.start_key > r.end_key
         \/ r.start_key = r.end_key /\ (start_open \/ end_open)

------------------------------------------------------------------------------

(* The first switch of RowRange::Intersect(): take over the start of range  *)
(* if it lies in this.                                                      *)
NarrowStart(this, range) ==
  IF range.start_case # "NOT_SET" /\ Contains(this, range.start_key)
    THEN [this EXCEPT !.start_case = range.start_case, !.start_key = range.start_key]
    ELSE this

(* The second switch, for the end of range.                                 *)
NarrowEnd(this, range) ==
  IF range.end_case # "NOT_SET" /\ Contains(this, range.end_key)
    THEN [this EXCEPT !.end_case = range.end_case, !.end_key = range.end_key]
    ELSE this

(* The early returns: range starts above or ends below.                     *)
StartsAbove(this, range) ==
  range.start_case # "NOT_SET" /\ AboveEnd(this, range.start_key)

EndsBelow(this, range) ==
  range.end_case # "NOT_SET" /\ BelowStart(this, range.end_key)

(* this.Intersect(range): whether there is an intersection, and it.         *)
Intersect(this, range) ==
  LET narrowed     == NarrowStart(this, range)
      intersection == NarrowEnd(narrowed, range)
  IN  IF IsEmpty(range) \/ StartsAbove(this, range) \/ EndsBelow(narrowed, range)
        THEN [found |-> FALSE, range |-> Empty]
        ELSE [found |-> ~IsEmpty(intersection), range |-> intersection]

------------------------------------------------------------------------------

RowSet == [row_keys : SUBSET Key, row_ranges : SUBSET Range]

AllRows == [row_keys |-> {}, row_ranges |-> {}]

AppendKey(set, key) == [set EXCEPT !.row_keys = @ \union {key}]

AppendRange(set, range) == [set EXCEPT !.row_ranges = @ \union {range}]

(* Fault: a set from which everything was removed is left with no entries.  *)
NoRows_AllRows(set) == set

(* A set with no entries means all rows, so no rows is an empty range.      *)
NoRows(set) ==
  IF set = AllRows THEN AppendRange(AllRows, Empty) ELSE set

(* RowSet::Intersect().                                                     *)
SetIntersect(set, range) ==
  IF set = AllRows
    THEN AppendRange(AllRows, range)
    ELSE NoRows([row_keys   |-> {k \in set.row_keys : Contains(range, k)},
                 row_ranges |-> {Intersect(range, r).range :
                                   r \in {q \in set.row_ranges :
                                            Intersect(range, q).found}}])

(* RowSet::IsEmpty().                                                       *)
SetIsEmpty(set) ==
  /\ set.row_keys = {}
  /\ \A r \in set.row_ranges : IsEmpty(r)
  /\ set.row_ranges # {}

(* Which keys the server takes a RowSet for.                                *)
Matches(set, key) ==
  \/ set = AllRows
  \/ key \in set.row_keys
  \/ \E r \in set.row_ranges : Contains(r, key)
==============================================================================
