----------------------------- MODULE PrefixRange -----------------------------
(***************************************************************************)
(* internal::PrefixRangeEnd() (internal/prefix_range_end.cc) and           *)
(* RowRange::Prefix() (row_range.h), on real byte strings: a key is the    *)
(* sequence of its bytes, and bytes are 0..Top where Top is 0xFF.  The     *)
(* module has no steps of its own: the argument is any string.             *)
(***************************************************************************)
EXTENDS Integers, Sequences

CONSTANTS
  Top,     \* the largest byte
  MaxLen   \* the length of the longest prefix

ASSUME ByteAssumption == Top \in Nat \ {0} /\ MaxLen \in Nat

Byte == 0..Top
Strings(n) == UNION {[1..m -> Byte] : m \in 0..n}

VARIABLE prefix   \* the argument of RowRange::Prefix()

StartsWith(key, head) ==
  Len(head) <= Len(key) /\ \A i \in 1..Len(head) : key[i] = head[i]

(* std::string::compare(), which treats bytes as unsigned.                  *)
Less(a, b) ==
  \/ StartsWith(b, a) /\ Len(a) < Len(b)
  \/ \E i \in 1..Len(a) :
       /\ i <= Len(b) /\ a[i] < b[i]
       /\ \A j \in 1..(i - 1) : a[j] = b[j]

(* find_last_not_of('\xFF'), 0 for npos.                                    *)
LastNotTop(key) ==
  LET others == {i \in DOMAIN key : key[i] # Top}
  IN  IF others = {} THEN 0 ELSE CHOOSE i \in others : \A j \in others : j <= i

(* Fault: the bytes after the one that is incremented keep their values.    *)
PrefixRangeEnd_NotFilled(key) ==
  LET pos == LastNotTop(key)
  IN  IF pos = 0 THEN <<>> ELSE [key EXCEPT ![pos] = @ + 1]

(* The empty string, which means "no end", if every byte is 0xFF.           *)
PrefixRangeEnd(key) ==
  LET pos == LastNotTop(key)
  IN  IF pos = 0 THEN <<>>
      ELSE [i \in DOMAIN key |-> CASE i < pos -> key[i]
                                   [] i = pos -> key[i] + 1
                                   [] i > pos -> 0]

AnyPrefix == prefix \in Strings(MaxLen)

(* RowRange::Prefix(): RightOpen(prefix, end).Contains(key).                *)
InPrefixRange(key) ==
  LET end == PrefixRangeEnd(prefix)
  IN  /\ ~Less(key, prefix)
      /\ end # <<>> => Less(key, end)

------------------------------------------------------------------------------
(* Properties.                                                              *)

(* The range has every key that starts with the prefix, also when the       *)
(* prefix ends in 0xFF bytes (row_range.h:77: "a range that contains all    *)
(* the keys starting with prefix").  The only other keys in it are the end  *)
(* without some of its trailing zero bytes (internal/prefix_range_end.h:30: *)
(* "the smallest key that is larger than all the keys starting with the     *)
(* prefix" is the end without all of them).                                 *)
PrefixExact ==
  \A key \in Strings(MaxLen + 1) :
    LET end == PrefixRangeEnd(prefix)
    IN  /\ StartsWith(key, prefix) => InPrefixRange(key)
        /\ InPrefixRange(key) =>
             \/ StartsWith(key, prefix)
             \/ /\ StartsWith(end, key) /\ Len(key) < Len(end)
                /\ \A i \in (Len(key) + 1)..Len(end) : end[i] = 0
==============================================================================
