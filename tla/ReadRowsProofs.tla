---------------------------- MODULE ReadRowsProofs ---------------------------
(***************************************************************************)
(* What RowRange::Intersect() and RowSet::Intersect() compute, for every   *)
(* set of keys, that a RowSet denotes what was asked for, and that reading *)
(* rows with retries, which narrows its RowSet with them, returns the rows *)
(* asked for.                                                              *)
(***************************************************************************)
EXTENDS RowSets, PrefixRange, ReadRows, WellFoundedInduction, TLAPS

(* A range whose IsEmpty() is true contains no key (row_range.cc: IsEmpty). *)
LEMMA EmptyContainsNothing ==
  ASSUME NEW r \in Range, NEW k \in Key, IsEmpty(r)
  PROVE  ~Contains(r, k)
<1>1. r.start_key \in Int /\ r.end_key \in Int /\ k \in Int
  BY KeyAssumption DEF Range
<1>2. r.start_case \in {"NOT_SET", "CLOSED", "OPEN"} /\ r.end_case # "NOT_SET"
  BY DEF Range, Case, IsEmpty
<1>3. CASE Consecutive(r.start_key, r.end_key) /\ r.start_case = "OPEN" /\ r.end_case = "OPEN"
  <2>1. ~(r.start_key < k /\ k < r.end_key)
    BY <1>3, KeyAssumption DEF Consecutive, Range
  <2>2. QED
    BY <1>1, <1>3, <2>1 DEF Contains, BelowStart, AboveEnd
<1>4. CASE r.start_key > r.end_key /\ r.start_case # "NOT_SET"
  BY <1>1, <1>2, <1>4 DEF Contains, BelowStart, AboveEnd, Range, Case
<1>5. CASE r.start_key > r.end_key /\ r.start_case = "NOT_SET"
  BY <1>1, <1>5, KeyAssumption DEF Range
<1>6. CASE r.start_key = r.end_key /\ (r.start_case = "OPEN" \/ r.end_case = "OPEN")
  <2>1. r.start_case = "NOT_SET" => r.start_key <= k
    BY KeyAssumption DEF Range
  <2>2. r.end_case \in {"CLOSED", "OPEN"}
    BY <1>2 DEF Range, Case
  <2>3. QED
    BY <1>1, <1>2, <1>6, <2>1, <2>2 DEF Contains, BelowStart, AboveEnd
<1>7. QED
  BY <1>3, <1>4, <1>5, <1>6 DEF IsEmpty

(* RowRange::Empty() is a range, and contains no key.                       *)
LEMMA EmptyRange ==
  /\ Empty \in Range
  /\ \A k \in Key : ~Contains(Empty, k)
<1>1. Empty \in Range /\ IsEmpty(Empty)
  BY KeyAssumption DEF Empty, MakeRange, Range, Case, IsEmpty, Consecutive
<1>2. QED
  BY <1>1, EmptyContainsNothing

(* Taking over the start of a range: the result is what this and the start  *)
(* of range have in common, unless range starts above this.                 *)
LEMMA NarrowStartExact ==
  ASSUME NEW a \in Range, NEW b \in Range
  PROVE  /\ NarrowStart(a, b) \in Range
         /\ ~StartsAbove(a, b) =>
              \A k \in Key : Contains(NarrowStart(a, b), k)
                               <=> Contains(a, k) /\ ~BelowStart(b, k)
         /\ StartsAbove(a, b) =>
              \A k \in Key : Contains(a, k) => BelowStart(b, k)
<1>1. NarrowStart(a, b) \in Range
  BY DEF NarrowStart, Range, Case
<1>2. ASSUME NEW k \in Key, ~StartsAbove(a, b)
      PROVE  Contains(NarrowStart(a, b), k) <=> Contains(a, k) /\ ~BelowStart(b, k)
  <2>1. CASE b.start_case # "NOT_SET" /\ Contains(a, b.start_key)
    BY <2>1, KeyAssumption
    DEF NarrowStart, Range, Case, Contains, BelowStart, AboveEnd
  <2>2. CASE ~(b.start_case # "NOT_SET" /\ Contains(a, b.start_key))
    BY <1>2, <2>2, KeyAssumption
    DEF NarrowStart, StartsAbove, Range, Case, Contains, BelowStart, AboveEnd
  <2>3. QED
    BY <2>1, <2>2
<1>3. ASSUME NEW k \in Key, StartsAbove(a, b), Contains(a, k)
      PROVE  BelowStart(b, k)
  <2>1. /\ a.start_key \in Int /\ a.end_key \in Int
        /\ b.start_key \in Int /\ k \in Int
    BY KeyAssumption DEF Range
  <2>2. b.start_case \in {"CLOSED", "OPEN"}
    BY <1>3 DEF StartsAbove, Range, Case
  <2>3. QED
    BY <1>3, <2>1, <2>2 DEF StartsAbove, Contains, BelowStart, AboveEnd
<1>4. QED
  BY <1>1, <1>2, <1>3

(* The same for the end of a range.                                         *)
LEMMA NarrowEndExact ==
  ASSUME NEW a \in Range, NEW b \in Range
  PROVE  /\ NarrowEnd(a, b) \in Range
         /\ ~EndsBelow(a, b) =>
              \A k \in Key : Contains(NarrowEnd(a, b), k)
                               <=> Contains(a, k) /\ ~AboveEnd(b, k)
         /\ EndsBelow(a, b) =>
              \A k \in Key : Contains(a, k) => AboveEnd(b, k)
<1>1. NarrowEnd(a, b) \in Range
  BY DEF NarrowEnd, Range, Case
<1>2. ASSUME NEW k \in Key, ~EndsBelow(a, b)
      PROVE  Contains(NarrowEnd(a, b), k) <=> Contains(a, k) /\ ~AboveEnd(b, k)
  <2>1. CASE b.end_case # "NOT_SET" /\ Contains(a, b.end_key)
    BY <2>1, KeyAssumption
    DEF NarrowEnd, Range, Case, Contains, BelowStart, AboveEnd
  <2>2. CASE ~(b.end_case # "NOT_SET" /\ Contains(a, b.end_key))
    BY <1>2, <2>2, KeyAssumption
    DEF NarrowEnd, EndsBelow, Range, Case, Contains, BelowStart, AboveEnd
  <2>3. QED
    BY <2>1, <2>2
<1>3. ASSUME NEW k \in Key, EndsBelow(a, b), Contains(a, k)
      PROVE  AboveEnd(b, k)
  <2>1. /\ a.start_key \in Int /\ a.end_key \in Int
        /\ b.end_key \in Int /\ k \in Int
    BY KeyAssumption DEF Range
  <2>2. b.end_case \in {"CLOSED", "OPEN"}
    BY <1>3 DEF EndsBelow, Range, Case
  <2>3. QED
    BY <1>3, <2>1, <2>2 DEF EndsBelow, Contains, BelowStart, AboveEnd
<1>4. QED
  BY <1>1, <1>2, <1>3

(* RowRange::Intersect() computes the intersection: the range it returns    *)
(* contains a key iff both ranges do, and if it says that there is none     *)
(* then no key is in both (row_range.cc: Intersect).                        *)
THEOREM IntersectExact ==
  ASSUME NEW a \in Range, NEW b \in Range, NEW k \in Key
  PROVE  /\ Intersect(a, b).range \in Range
         /\ Intersect(a, b).found =>
              (Contains(Intersect(a, b).range, k) <=> Contains(a, k) /\ Contains(b, k))
         /\ ~Intersect(a, b).found => ~(Contains(a, k) /\ Contains(b, k))
<1> DEFINE n == NarrowStart(a, b)
           i == NarrowEnd(n, b)
           none == IsEmpty(b) \/ StartsAbove(a, b) \/ EndsBelow(n, b)
<1>1. n \in Range
  BY NarrowStartExact
<1>2. i \in Range
  BY <1>1, NarrowEndExact
<1>3. CASE none
  <2>1. Intersect(a, b) = [found |-> FALSE, range |-> Empty]
    BY <1>3 DEF Intersect
  <2>2. ~(Contains(a, k) /\ Contains(b, k))
    <3>1. CASE IsEmpty(b)
      BY <3>1, EmptyContainsNothing
    <3>2. CASE StartsAbove(a, b)
      BY <3>2, NarrowStartExact DEF Contains
    <3>3. CASE ~StartsAbove(a, b) /\ EndsBelow(n, b)
      <4>1. Contains(n, k) => AboveEnd(b, k)
        BY <1>1, <3>3, NarrowEndExact
      <4>2. Contains(n, k) <=> Contains(a, k) /\ ~BelowStart(b, k)
        BY <3>3, NarrowStartExact
      <4>3. QED
        BY <4>1, <4>2 DEF Contains
    <3>4. QED
      BY <1>3, <3>1, <3>2, <3>3
  <2>3. QED
    BY <2>1, <2>2, EmptyRange
<1>4. CASE ~none
  <2>1. Intersect(a, b) = [found |-> ~IsEmpty(i), range |-> i]
    BY <1>4 DEF Intersect
  <2>2. Contains(n, k) <=> Contains(a, k) /\ ~BelowStart(b, k)
    BY <1>4, NarrowStartExact
  <2>3. Contains(i, k) <=> Contains(n, k) /\ ~AboveEnd(b, k)
    BY <1>1, <1>4, NarrowEndExact
  <2>4. Contains(i, k) <=> Contains(a, k) /\ Contains(b, k)
    BY <2>2, <2>3 DEF Contains
  <2>5. IsEmpty(i) => ~Contains(i, k)
    BY <1>2, EmptyContainsNothing
  <2>6. Intersect(a, b).found = ~IsEmpty(i) /\ Intersect(a, b).range = i
    BY <2>1
  <2>7. QED
    BY <1>2, <2>4, <2>5, <2>6
<1>5. QED
  BY <1>3, <1>4

(* RowSet::Intersect() leaves the keys that the set and the range have in   *)
(* common, also when that is none or when the set was "all rows"            *)
(* (row_set.cc: Intersect).                                                 *)
THEOREM SetIntersectExact ==
  ASSUME NEW set \in RowSet, NEW range \in Range
  PROVE  /\ SetIntersect(set, range) \in RowSet
         /\ \A k \in Key : Matches(SetIntersect(set, range), k)
                             <=> Matches(set, k) /\ Contains(range, k)
<1> DEFINE keys   == {k \in set.row_keys : Contains(range, k)}
           meet   == {r \in set.row_ranges : Intersect(range, r).found}
           ranges == {Intersect(range, r).range : r \in meet}
           cut    == [row_keys |-> keys, row_ranges |-> ranges]
           none   == AppendRange(AllRows, Empty)
<1>1. set.row_keys \subseteq Key /\ set.row_ranges \subseteq Range
  BY DEF RowSet
<1>2. \A r \in meet, k \in Key :
        /\ Intersect(range, r).range \in Range
        /\ Contains(Intersect(range, r).range, k) <=> Contains(range, k) /\ Contains(r, k)
  BY <1>1, IntersectExact
<1>3. \A r \in set.row_ranges \ meet, k \in Key : ~(Contains(range, k) /\ Contains(r, k))
  BY <1>1, IntersectExact
<1>4. cut \in RowSet
  <2>1. \A r \in meet : Intersect(range, r).range \in Range
    BY <1>2, KeyAssumption
  <2>2. keys \in SUBSET Key /\ ranges \in SUBSET Range
    BY <1>1, <2>1
  <2>3. QED
    BY <2>2 DEF RowSet
<1>5. CASE set = AllRows
  <2>1. SetIntersect(set, range) = [row_keys |-> {}, row_ranges |-> {range}]
    BY <1>5 DEF SetIntersect, AppendRange, AllRows
  <2>2. QED
    BY <1>5, <2>1 DEF RowSet, Matches, AllRows
<1>6. CASE set # AllRows /\ cut = AllRows
  <2>1. SetIntersect(set, range) = none
    BY <1>6 DEF SetIntersect, NoRows
  <2>2. none = [row_keys |-> {}, row_ranges |-> {Empty}]
    BY DEF AppendRange, AllRows
  <2>3. keys = {} /\ ranges = {}
    BY <1>6 DEF AllRows
  <2>4. \A k \in Key : ~(Matches(set, k) /\ Contains(range, k))
    <3>1. meet = {}
      BY <2>3
    <3>2. QED
      BY <1>3, <1>6, <2>3, <3>1 DEF Matches
  <2>5. \A k \in Key : ~Matches(none, k)
    BY <2>2, EmptyRange DEF Matches, AllRows
  <2>6. none \in RowSet
    BY <2>2, EmptyRange DEF RowSet
  <2>7. QED
    BY <2>1, <2>4, <2>5, <2>6
<1>7. CASE set # AllRows /\ cut # AllRows
  <2>1. SetIntersect(set, range) = cut
    BY <1>7 DEF SetIntersect, NoRows
  <2>2. ASSUME NEW k \in Key
        PROVE  Matches(cut, k) <=> Matches(set, k) /\ Contains(range, k)
    <3>1. Matches(cut, k) <=> k \in keys \/ \E r \in meet : Contains(Intersect(range, r).range, k)
      BY <1>7 DEF Matches
    <3>2. Matches(set, k) <=> k \in set.row_keys \/ \E r \in set.row_ranges : Contains(r, k)
      BY <1>7 DEF Matches
    <3>3. QED
      BY <1>2, <1>3, <3>1, <3>2
  <2>3. QED
    BY <1>4, <2>1, <2>2
<1>8. QED
  BY <1>5, <1>6, <1>7

SetTypeInv == row_set \in RowSet /\ wanted \in SUBSET Key

(* The types and Denotes are preserved by Append() and Intersect().         *)
LEMMA RowSetInv == SetSpec => [](SetTypeInv /\ Denotes)
<1>1. SetInit => SetTypeInv /\ Denotes
  BY DEF SetInit, SetTypeInv, Denotes, AllRows, RowSet, Matches
<1>2. SetTypeInv /\ Denotes /\ [SetNext]_setVars => SetTypeInv' /\ Denotes'
  <2> SUFFICES ASSUME SetTypeInv, Denotes, [SetNext]_setVars
               PROVE  SetTypeInv' /\ Denotes'
    OBVIOUS
  <2>1. ASSUME NEW key \in Key, AppendEntry(AppendKey(row_set, key), {key})
        PROVE  SetTypeInv' /\ Denotes'
    <3>1. row_set' = [row_keys |-> row_set.row_keys \union {key},
                       row_ranges |-> row_set.row_ranges]
      BY <2>1 DEF AppendEntry, AppendKey, SetTypeInv, RowSet
    <3>2. SetTypeInv' /\ row_set' # AllRows
      BY <2>1, <3>1 DEF AppendEntry, SetTypeInv, RowSet, AllRows
    <3>3. CASE row_set = AllRows
      BY <2>1, <3>1, <3>2, <3>3 DEF AppendEntry, Denotes, Matches, AllRows
    <3>4. CASE row_set # AllRows
      BY <2>1, <3>1, <3>2, <3>4 DEF AppendEntry, Denotes, Matches
    <3>5. QED
      BY <3>2, <3>3, <3>4
  <2>2. ASSUME NEW r \in Range, AppendEntry(AppendRange(row_set, r), KeysOf(r))
        PROVE  SetTypeInv' /\ Denotes'
    <3>1. row_set' = [row_keys |-> row_set.row_keys,
                       row_ranges |-> row_set.row_ranges \union {r}]
      BY <2>2 DEF AppendEntry, AppendRange, SetTypeInv, RowSet
    <3>2. SetTypeInv' /\ row_set' # AllRows
      BY <2>2, <3>1 DEF AppendEntry, SetTypeInv, RowSet, AllRows, KeysOf
    <3>3. CASE row_set = AllRows
      BY <2>2, <3>1, <3>2, <3>3 DEF AppendEntry, Denotes, Matches, AllRows, KeysOf
    <3>4. CASE row_set # AllRows
      BY <2>2, <3>1, <3>2, <3>4 DEF AppendEntry, Denotes, Matches, KeysOf
    <3>5. QED
      BY <3>2, <3>3, <3>4
  <2>3. ASSUME NEW r \in Range, Narrow(r)
        PROVE  SetTypeInv' /\ Denotes'
    <3>1. /\ SetIntersect(row_set, r) \in RowSet
          /\ \A k \in Key : Matches(SetIntersect(row_set, r), k)
                              <=> Matches(row_set, k) /\ Contains(r, k)
      BY SetIntersectExact DEF SetTypeInv
    <3>2. QED
      BY <2>3, <3>1 DEF Narrow, SetTypeInv, Denotes, KeysOf
  <2>4. CASE UNCHANGED setVars
    BY <2>4 DEF setVars, SetTypeInv, Denotes, Matches
  <2>5. QED
    BY <2>1, <2>2, <2>3, <2>4 DEF SetNext
<1>3. QED
  BY <1>1, <1>2, PTL DEF SetSpec

(* A RowSet that says it is empty matches no key (row_set.cc: IsEmpty), so  *)
(* the reader that stops because of it has missed no row.                   *)
THEOREM EmptySetMatchesNothing ==
  ASSUME NEW set \in RowSet, SetIsEmpty(set), NEW k \in Key
  PROVE  ~Matches(set, k)
<1>1. set.row_keys = {} /\ set # AllRows
  BY DEF SetIsEmpty, AllRows
<1>2. \A r \in set.row_ranges : ~Contains(r, k)
  BY EmptyContainsNothing DEF SetIsEmpty, RowSet
<1>3. QED
  BY <1>1, <1>2 DEF Matches

(* A RowSet denotes the keys asked for after any number of Append() and     *)
(* Intersect() calls, for every set of keys (row_set.cc, row_set.h).        *)
THEOREM RowSetDenotes == SetSpec => []Denotes
  BY RowSetInv, PTL

(* No key is wanted any more when IsEmpty() makes RowReader give up its     *)
(* retries (row_set.cc: IsEmpty).                                           *)
THEOREM RowSetEmpty == SetSpec => []EmptyIsEmpty
<1>1. SetTypeInv /\ Denotes => EmptyIsEmpty
  <2> SUFFICES ASSUME SetTypeInv, Denotes, SetIsEmpty(row_set), NEW k \in Key
               PROVE  k \notin wanted
    BY DEF EmptyIsEmpty, SetTypeInv
  <2>1. ~Matches(row_set, k)
    BY EmptySetMatchesNothing DEF SetTypeInv
  <2>2. QED
    BY <2>1 DEF Denotes
<1>2. QED
  BY <1>1, RowSetInv, PTL

------------------------------------------------------------------------------
(* RowRange::Prefix().                                                      *)

(* A set of positions has a first one.                                      *)
LEMMA FirstPosition ==
  ASSUME NEW S, S \subseteq Nat, S # {}
  PROVE  \E x \in S : \A y \in S : x <= y
<1>1. PICK x \in S : \A y \in S : ~(<<y, x>> \in OpToRel(<, Nat))
  BY NatLessThanWellFounded, WFMin
<1>2. ASSUME NEW y \in S PROVE x <= y
  <2>1. x \in Nat /\ y \in Nat
    OBVIOUS
  <2>2. <<y, x>> \in Nat \X Nat /\ <<y, x>>[1] = y /\ <<y, x>>[2] = x
    BY <2>1
  <2>3. ~(y < x)
    BY <1>1, <2>2, Zenon DEF OpToRel
  <2>4. QED
    BY <2>1, <2>3
<1>3. QED
  BY <1>2

(* A string is a sequence of bytes.                                         *)
LEMMA StringIsSeq ==
  ASSUME NEW n \in Nat, NEW s \in Strings(n)
  PROVE  s \in Seq(Byte)
<1>1. PICK m \in 0..n : s \in [1..m -> Byte]
  BY DEF Strings
<1>2. m \in Nat
  BY <1>1
<1>3. QED
  BY <1>1, <1>2

(* The bytes of a string are numbers.                                       *)
LEMMA BytesOf ==
  ASSUME NEW s \in Seq(Byte)
  PROVE  /\ s \in Seq(Int) /\ Len(s) \in Nat /\ DOMAIN s = 1..Len(s)
         /\ \A i \in 1..Len(s) : s[i] \in Int /\ 0 <= s[i] /\ s[i] <= Top
<1>1. \A x \in Byte : x \in Int /\ 0 <= x /\ x <= Top
  BY ByteAssumption DEF Byte
<1>2. Len(s) \in Nat /\ DOMAIN s = 1..Len(s) /\ \A i \in 1..Len(s) : s[i] \in Byte
  OBVIOUS
<1>3. s \in [1..Len(s) -> Int]
  BY <1>1, <1>2
<1>4. QED
  BY <1>1, <1>2, <1>3

(* find_last_not_of() finds the last byte that is not 0xFF.                 *)
LEMMA LastNotTopIs ==
  ASSUME NEW s \in Seq(Byte)
  PROVE  /\ LastNotTop(s) \in 0..Len(s)
         /\ LastNotTop(s) # 0 => s[LastNotTop(s)] # Top
         /\ \A j \in (LastNotTop(s) + 1)..Len(s) : s[j] = Top
<1> DEFINE others == {i \in DOMAIN s : s[i] # Top}
<1>1. DOMAIN s = 1..Len(s) /\ Len(s) \in Nat
  OBVIOUS
<1>2. CASE others = {}
  <2>1. LastNotTop(s) = 0
    BY <1>2 DEF LastNotTop
  <2>2. QED
    BY <1>1, <1>2, <2>1
<1>3. CASE others # {}
  <2> DEFINE back == {Len(s) - i : i \in others}
  <2>1. back \subseteq Nat /\ back # {}
    BY <1>1, <1>3
  <2>2. PICK b \in back : \A y \in back : b <= y
    BY <2>1, FirstPosition
  <2>3. PICK last \in others : b = Len(s) - last
    BY <2>2
  <2>4. \A j \in others : j <= last
    <3>1. TAKE j \in others
    <3>2. Len(s) - j \in back
      BY <3>1
    <3>3. b <= Len(s) - j
      BY <2>2, <3>2
    <3>4. QED
      BY <1>1, <2>3, <3>3
  <2>5. LastNotTop(s) = CHOOSE i \in others : \A j \in others : j <= i
    BY <1>3 DEF LastNotTop
  <2>6. LastNotTop(s) \in others /\ \A j \in others : j <= LastNotTop(s)
    BY <2>3, <2>4, <2>5, Zenon
  <2>7. QED
    BY <1>1, <2>6
<1>4. QED
  BY <1>2, <1>3

(* What PrefixRangeEnd() returns, unless that is "no end".                  *)
LEMMA PrefixEndIs ==
  ASSUME NEW s \in Seq(Byte), NEW pos, pos = LastNotTop(s), pos # 0
  PROVE  /\ PrefixRangeEnd(s) \in Seq(Int)
         /\ Len(PrefixRangeEnd(s)) = Len(s)
         /\ \A i \in 1..Len(s) : PrefixRangeEnd(s)[i]
              = IF i < pos THEN s[i] ELSE IF i = pos THEN s[i] + 1 ELSE 0
<1>1. DOMAIN s = 1..Len(s) /\ Len(s) \in Nat /\ \A i \in 1..Len(s) : s[i] \in Int
  BY BytesOf
<1>2. pos \in Int
  BY LastNotTopIs, <1>1
<1> DEFINE end == [i \in 1..Len(s) |->
                     IF i < pos THEN s[i] ELSE IF i = pos THEN s[i] + 1 ELSE 0]
<1>3. \A i \in DOMAIN s :
        (CASE i < pos -> s[i] [] i = pos -> s[i] + 1 [] i > pos -> 0) = end[i]
  BY <1>1, <1>2
<1>4. PrefixRangeEnd(s) = end
  BY <1>1, <1>3, Zenon DEF PrefixRangeEnd
<1>5. end \in [1..Len(s) -> Int]
  BY <1>1
<1>6. end \in Seq(Int)
  BY <1>1, <1>5
<1>7. Len(end) = Len(s)
  BY <1>1, <1>5, <1>6
<1>8. QED
  BY <1>4, <1>6, <1>7

(* Two strings of which neither starts with the other differ somewhere      *)
(* first.                                                                   *)
LEMMA FirstDifference ==
  ASSUME NEW a \in Seq(Int), NEW b \in Seq(Int), ~StartsWith(a, b)
  PROVE  \/ StartsWith(b, a) /\ Len(a) < Len(b)
         \/ \E i \in 1..Len(a) : /\ i <= Len(b) /\ a[i] # b[i]
                                 /\ \A j \in 1..(i - 1) : a[j] = b[j]
<1> DEFINE S == {i \in 1..Len(a) : i <= Len(b) /\ a[i] # b[i]}
<1>1. Len(a) \in Nat /\ Len(b) \in Nat
  OBVIOUS
<1>2. CASE S = {}
  <2>1. \A i \in 1..Len(a) : i <= Len(b) => a[i] = b[i]
    BY <1>2
  <2>2. Len(a) < Len(b)
    <3>1. SUFFICES ASSUME Len(b) <= Len(a) PROVE FALSE
      BY <1>1
    <3>2. \A i \in 1..Len(b) : a[i] = b[i]
      BY <1>1, <2>1, <3>1
    <3>3. QED
      BY <3>1, <3>2 DEF StartsWith
  <2>3. \A i \in 1..Len(a) : b[i] = a[i]
    BY <1>1, <2>1, <2>2
  <2>4. QED
    BY <1>1, <2>2, <2>3 DEF StartsWith
<1>3. CASE S # {}
  <2>1. S \subseteq Nat
    BY <1>1
  <2>2. PICK i \in S : \A j \in S : i <= j
    BY <1>3, <2>1, FirstPosition
  <2>3. \A j \in 1..(i - 1) : j \notin S /\ j \in 1..Len(a) /\ j <= Len(b)
    BY <1>1, <2>1, <2>2
  <2>4. \A j \in 1..(i - 1) : a[j] = b[j]
    BY <2>3
  <2>5. QED
    BY <2>2, <2>4
<1>4. QED
  BY <1>2, <1>3

(* RowRange::Prefix() holds the keys that start with the prefix, and at     *)
(* most the end without some of its trailing zero bytes, for prefixes of    *)
(* any length.                                                              *)
THEOREM PrefixRangeExact == AnyPrefix => PrefixExact
<1> SUFFICES ASSUME AnyPrefix, NEW key \in Strings(MaxLen + 1)
             PROVE  LET end == PrefixRangeEnd(prefix)
                    IN  /\ StartsWith(key, prefix) => InPrefixRange(key)
                        /\ InPrefixRange(key) =>
                             \/ StartsWith(key, prefix)
                             \/ /\ StartsWith(end, key) /\ Len(key) < Len(end)
                                /\ \A i \in (Len(key) + 1)..Len(end) : end[i] = 0
  BY DEF PrefixExact
<1> DEFINE p == prefix
           end == PrefixRangeEnd(prefix)
           pos == LastNotTop(prefix)
<1>1. p \in Seq(Byte) /\ key \in Seq(Byte)
  BY ByteAssumption, StringIsSeq DEF AnyPrefix
<1>2. /\ p \in Seq(Int) /\ key \in Seq(Int)
      /\ Len(p) \in Nat /\ Len(key) \in Nat
      /\ \A i \in 1..Len(p) : p[i] \in Int /\ 0 <= p[i] /\ p[i] <= Top
      /\ \A i \in 1..Len(key) : key[i] \in Int /\ 0 <= key[i] /\ key[i] <= Top
  BY <1>1, BytesOf
<1>3. /\ pos \in 0..Len(p)
      /\ pos # 0 => p[pos] # Top
      /\ \A j \in (pos + 1)..Len(p) : p[j] = Top
  BY <1>1, LastNotTopIs
<1>4. pos = 0 => end = <<>>
  BY DEF PrefixRangeEnd
<1>5. pos # 0 => /\ end \in Seq(Int) /\ Len(end) = Len(p) /\ end # <<>>
                 /\ \A i \in 1..Len(p) : end[i]
                      = IF i < pos THEN p[i] ELSE IF i = pos THEN p[i] + 1 ELSE 0
  <2>1. ASSUME pos # 0, end = <<>> PROVE FALSE
    BY <1>1, <1>2, <1>3, <2>1, PrefixEndIs
  <2>2. QED
    BY <1>1, <2>1, PrefixEndIs
<1> HIDE DEF end, pos
<1>6. ASSUME StartsWith(key, p) PROVE InPrefixRange(key)
  <2>1. ~Less(key, p)
    BY <1>2, <1>6 DEF StartsWith, Less
  <2>2. ASSUME pos # 0 PROVE Less(key, end)
    <3>1. pos \in 1..Len(key) /\ pos <= Len(end) /\ key[pos] < end[pos]
      BY <1>2, <1>3, <1>5, <1>6, <2>2 DEF StartsWith
    <3>2. ASSUME NEW j \in 1..(pos - 1) PROVE key[j] = end[j]
      <4>1. j \in 1..Len(p) /\ j < pos
        BY <1>2, <1>3
      <4>2. key[j] = p[j]
        BY <1>6, <4>1 DEF StartsWith
      <4>3. end[j] = p[j]
        BY <1>5, <2>2, <4>1
      <4>4. QED
        BY <4>2, <4>3
    <3>3. QED
      BY <3>1, <3>2 DEF Less
  <2>3. end # <<>> => Less(key, end)
    BY <1>4, <2>2
  <2>4. QED
    BY <2>1, <2>3 DEF InPrefixRange, end
<1>7. ASSUME InPrefixRange(key), ~StartsWith(key, p)
      PROVE  /\ StartsWith(end, key) /\ Len(key) < Len(end)
             /\ \A i \in (Len(key) + 1)..Len(end) : end[i] = 0
  <2>1. ~Less(key, p) /\ (end # <<>> => Less(key, end))
    BY <1>7 DEF InPrefixRange, end
  <2>2. PICK d \in 1..Len(key) : /\ d <= Len(p) /\ key[d] # p[d]
                                 /\ \A j \in 1..(d - 1) : key[j] = p[j]
    BY <1>2, <1>7, <2>1, FirstDifference DEF Less
  <2>3. key[d] > p[d]
    BY <1>2, <2>1, <2>2 DEF Less
  <2>4. d <= pos /\ pos # 0
    BY <1>2, <1>3, <2>2, <2>3
  <2>5. Less(key, end)
    BY <1>5, <2>1, <2>4
  <2>6. ~\E i \in 1..Len(key) : /\ i <= Len(end) /\ key[i] < end[i]
                                 /\ \A j \in 1..(i - 1) : key[j] = end[j]
    <3>1. SUFFICES ASSUME NEW i \in 1..Len(key), i <= Len(end), key[i] < end[i],
                          \A j \in 1..(i - 1) : key[j] = end[j]
                   PROVE  FALSE
      OBVIOUS
    <3> HIDE DEF p
    <3>a. /\ Len(end) = Len(p) /\ Len(p) \in Nat /\ pos \in Nat
          /\ \A j \in 1..Len(p) : end[j]
               = IF j < pos THEN p[j] ELSE IF j = pos THEN p[j] + 1 ELSE 0
      BY <1>2, <1>3, <1>5, <2>4
    <3>2. CASE i < d
      <4>1. i \in 1..Len(p) /\ i < pos /\ i \in 1..(d - 1)
        BY <2>2, <2>4, <3>1, <3>2, <3>a
      <4>2. key[i] = p[i] /\ end[i] = p[i] /\ p[i] \in Int
        BY <1>2, <2>2, <3>a, <4>1
      <4>3. QED
        BY <3>1, <4>2
    <3>3. CASE i = d
      <4>1. d \in 1..Len(p) /\ key[d] \in Int /\ p[d] \in Int
        BY <1>2, <2>2
      <4>2. end[d] \in Int /\ end[d] <= p[d] + 1
        <5>1. end[d] = IF d < pos THEN p[d] ELSE p[d] + 1
          BY <2>4, <3>a, <4>1
        <5>2. QED
          BY <4>1, <5>1
      <4>3. QED
        BY <2>3, <3>1, <3>3, <4>1, <4>2
    <3>4. CASE d < i
      <4>1. key[d] = end[d]
        BY <1>2, <3>1, <3>4
      <4>2. d = pos
        BY <1>2, <1>3, <1>5, <2>2, <2>3, <2>4, <4>1
      <4>3. end[i] = 0
        <5>1. i \in 1..Len(p) /\ ~(i < pos) /\ i # pos
          BY <3>1, <3>4, <3>a, <4>2
        <5>2. QED
          BY <3>a, <5>1
      <4>4. QED
        BY <1>2, <3>1, <4>3, ByteAssumption
    <3>5. QED
      BY <1>2, <3>2, <3>3, <3>4
  <2>7. StartsWith(end, key) /\ Len(key) < Len(end)
    BY <2>5, <2>6 DEF Less
  <2>8. d = pos
    <3>1. key[d] = end[d]
      BY <2>7 DEF StartsWith
    <3>2. QED
      BY <1>2, <1>3, <1>5, <2>2, <2>3, <2>4, <3>1
  <2>9. ASSUME NEW i \in (Len(key) + 1)..Len(end) PROVE end[i] = 0
    <3>1. i \in 1..Len(p) /\ pos < i /\ pos \in Int /\ i \in Int
      BY <1>2, <1>3, <1>5, <2>4, <2>8
    <3>2. QED
      BY <1>5, <2>4, <3>1
  <2>10. QED
    BY <2>7, <2>9
<1>8. QED
  BY <1>6, <1>7 DEF end

------------------------------------------------------------------------------
(* ReadRowsParser.                                                          *)

Cell == [row : Int, family : Int, column : Int, value : Seq(Int)]

Parser ==
  [row_key_ : Int, cells_ : Seq(Cell), cell_first_chunk_ : BOOLEAN, cell_ : Cell,
   last_seen_row_key_ : Int, row_ready_ : BOOLEAN, end_of_stream_ : BOOLEAN]

CellOf(k, c) == [row |-> k, family |-> 1, column |-> c, value |-> <<1, 2>>]

(* What the server sends of a row: its first cell, its second cell, that    *)
(* cell in two parts, a reset, and a cell of another row.                   *)
First(k) == ServerChunk(k, 1, <<1, 2>>, 0, "")
Second == ServerChunk(NoKey, 2, <<1, 2>>, 0, "commit")
PartOne == ServerChunk(NoKey, 2, <<1>>, 1, "")
PartTwo == ServerChunk(NoKey, NoName, <<2>>, 0, "commit")
Reset == ServerChunk(NoKey, NoName, <<>>, 0, "reset")
Foreign(k) == ServerChunk(k + 1, 2, <<1, 2>>, 0, "commit")

LEMMA SameSeq ==
  ASSUME NEW S, NEW s \in Seq(S), NEW t \in Seq(S), Len(s) = Len(t),
         \A i \in 1..Len(s) : s[i] = t[i]
  PROVE  s = t
  OBVIOUS

LEMMA AppendToNone ==
  ASSUME NEW S, NEW s \in Seq(S), NEW x \in S
  PROVE  Append(s, x) # <<>> /\ (s = <<>> => Append(s, x) = <<x>>)
<1>1. Append(s, x) # <<>>
  <2>1. Len(Append(s, x)) = Len(s) + 1 /\ Len(s) \in Nat
    OBVIOUS
  <2>2. Len(<<>>) = 0
    OBVIOUS
  <2>3. QED
    BY <2>1, <2>2
<1>2. Append(<<>>, x) = <<x>>
  OBVIOUS
<1>3. QED
  BY <1>1, <1>2

LEMMA AppendToOne ==
  ASSUME NEW S, NEW x \in S, NEW y \in S
  PROVE  Append(<<x>>, y) = <<x, y>>
<1>1. <<x>> \in Seq(S) /\ <<x, y>> \in Seq(S) /\ Len(<<x>>) = 1 /\ Len(<<x, y>>) = 2
  OBVIOUS
<1>2. Append(<<x>>, y) \in Seq(S) /\ Len(Append(<<x>>, y)) = 2
  BY <1>1
<1>3. Append(<<x>>, y)[1] = <<x, y>>[1] /\ Append(<<x>>, y)[2] = <<x, y>>[2]
  BY <1>1
<1>4. \A i \in 1..2 : i = 1 \/ i = 2
  OBVIOUS
<1>5. \A i \in 1..Len(Append(<<x>>, y)) : Append(<<x>>, y)[i] = <<x, y>>[i]
  BY <1>2, <1>3, <1>4
<1>6. QED
  BY <1>1, <1>2, <1>5, SameSeq

(* A value that was received in two parts.                                  *)
LEMMA TwoParts == <<1>> \o <<2>> = <<1, 2>>
<1>1. /\ <<1>> \in Seq(Int) /\ <<2>> \in Seq(Int) /\ <<1, 2>> \in Seq(Int)
      /\ Len(<<1>>) = 1 /\ Len(<<2>>) = 1 /\ Len(<<1, 2>>) = 2
  OBVIOUS
<1>2. <<1>> \o <<2>> \in Seq(Int) /\ Len(<<1>> \o <<2>>) = 2
  BY <1>1
<1>3. (<<1>> \o <<2>>)[1] = <<1, 2>>[1] /\ (<<1>> \o <<2>>)[2] = <<1, 2>>[2]
  BY <1>1
<1>4. \A i \in 1..2 : i = 1 \/ i = 2
  OBVIOUS
<1>5. \A i \in 1..Len(<<1>> \o <<2>>) : (<<1>> \o <<2>>)[i] = <<1, 2>>[i]
  BY <1>2, <1>3, <1>4
<1>6. QED
  BY <1>1, <1>2, <1>5, SameSeq

(* The steps of HandleChunk(), field by field.                              *)
LEMMA TakeKeyIs ==
  ASSUME NEW p \in Parser, NEW chunk, chunk.row_key \in Int
  PROVE  LET q == TakeKey(p, chunk)
         IN  /\ q \in Parser
             /\ q.cells_ = p.cells_ /\ q.row_key_ = p.row_key_
             /\ q.cell_first_chunk_ = p.cell_first_chunk_ /\ q.row_ready_ = p.row_ready_
             /\ q.cell_.row = IF chunk.row_key = NoKey THEN p.cell_.row ELSE chunk.row_key
             /\ q.cell_.family = p.cell_.family /\ q.cell_.column = p.cell_.column
             /\ q.cell_.value = p.cell_.value
  BY DEF Parser, Cell, TakeKey

LEMMA TakeNamesIs ==
  ASSUME NEW p \in Parser, NEW chunk, chunk.family \in Int, chunk.qualifier \in Int
  PROVE  LET q == TakeNames(p, chunk)
         IN  /\ q \in Parser
             /\ q.cells_ = p.cells_ /\ q.row_key_ = p.row_key_
             /\ q.cell_first_chunk_ = p.cell_first_chunk_ /\ q.row_ready_ = p.row_ready_
             /\ q.cell_.row = p.cell_.row /\ q.cell_.value = p.cell_.value
             /\ q.cell_.family = IF chunk.family = NoName THEN p.cell_.family ELSE chunk.family
             /\ q.cell_.column = IF chunk.qualifier = NoName THEN p.cell_.column
                                                             ELSE chunk.qualifier
  BY DEF Parser, Cell, TakeNames

LEMMA TakeValueIs ==
  ASSUME NEW p \in Parser, NEW chunk, chunk.value \in Seq(Int)
  PROVE  LET q == TakeValue(p, chunk)
         IN  /\ q \in Parser
             /\ q.cells_ = p.cells_ /\ q.row_key_ = p.row_key_
             /\ q.cell_first_chunk_ = FALSE /\ q.row_ready_ = p.row_ready_
             /\ q.cell_.row = p.cell_.row
             /\ q.cell_.family = p.cell_.family /\ q.cell_.column = p.cell_.column
             /\ q.cell_.value = IF p.cell_first_chunk_ THEN chunk.value
                                                       ELSE p.cell_.value \o chunk.value
<1> DEFINE v == IF p.cell_first_chunk_ THEN chunk.value ELSE p.cell_.value \o chunk.value
           q == TakeValue(p, chunk)
<1>1. v \in Seq(Int)
  BY DEF Parser, Cell
<1>2. q = [p EXCEPT !.cell_.value = v, !.cell_first_chunk_ = FALSE]
  BY DEF TakeValue
<1> HIDE DEF v, q
<1>3. q \in Parser /\ q.cell_.value = v
  BY <1>1, <1>2 DEF Parser, Cell
<1>4. /\ q.cells_ = p.cells_ /\ q.row_key_ = p.row_key_
      /\ q.cell_first_chunk_ = FALSE /\ q.row_ready_ = p.row_ready_
  BY <1>1, <1>2 DEF Parser
<1>5. /\ q.cell_.row = p.cell_.row
      /\ q.cell_.family = p.cell_.family /\ q.cell_.column = p.cell_.column
  BY <1>1, <1>2 DEF Parser, Cell
<1>6. QED
  BY <1>3, <1>4, <1>5 DEF v, q

LEMMA CompleteCellIs ==
  ASSUME NEW p \in Parser
  PROVE  LET q == CompleteCell(p)
         IN  /\ q \in Parser
             /\ q.cells_ = Append(p.cells_, p.cell_)
             /\ q.row_key_ = IF p.cells_ = <<>> THEN p.cell_.row ELSE p.row_key_
             /\ q.cell_first_chunk_ = TRUE /\ q.row_ready_ = p.row_ready_
             /\ q.cell_.row = p.cell_.row
             /\ q.cell_.family = p.cell_.family /\ q.cell_.column = p.cell_.column
<1> DEFINE q == CompleteCell(p)
<1>1. Append(p.cells_, p.cell_) \in Seq(Cell) /\ <<>> \in Seq(Int)
  BY DEF Parser
<1>2. q \in Parser
  BY <1>1 DEF Parser, CompleteCell, Cell
<1>3. q.cells_ = Append(p.cells_, p.cell_) /\ q.cell_first_chunk_ = TRUE
  BY <1>1 DEF Parser, CompleteCell
<1>4. /\ q.row_key_ = IF p.cells_ = <<>> THEN p.cell_.row ELSE p.row_key_
      /\ q.row_ready_ = p.row_ready_
  BY <1>1 DEF Parser, CompleteCell
<1>5. /\ q.cell_.row = p.cell_.row
      /\ q.cell_.family = p.cell_.family /\ q.cell_.column = p.cell_.column
  BY <1>1 DEF Parser, CompleteCell, Cell
<1>6. QED
  BY <1>2, <1>3, <1>4, <1>5

(* HandleChunk() for a chunk that has a row key or none, and a family with  *)
(* a qualifier or neither: what it returns is in the parser.                *)
ReadInto(p, chunk) == TakeValue(TakeNames(TakeKey(p, chunk), chunk), chunk)

ProperChunk(chunk) ==
  /\ chunk.row_key \in Int /\ chunk.family \in Int /\ chunk.qualifier \in Int
  /\ chunk.value \in Seq(Int)
  /\ chunk.family # NoName => chunk.qualifier # NoName

LEMMA ReadIntoIs ==
  ASSUME NEW p \in Parser, NEW chunk, ProperChunk(chunk)
  PROVE  LET q == ReadInto(p, chunk)
         IN  /\ q \in Parser
             /\ q.cells_ = p.cells_ /\ q.row_key_ = p.row_key_
             /\ q.cell_first_chunk_ = FALSE /\ q.row_ready_ = p.row_ready_
             /\ q.cell_.row = IF chunk.row_key = NoKey THEN p.cell_.row ELSE chunk.row_key
             /\ q.cell_.family = IF chunk.family = NoName THEN p.cell_.family ELSE chunk.family
             /\ q.cell_.column = IF chunk.qualifier = NoName THEN p.cell_.column
                                                             ELSE chunk.qualifier
             /\ q.cell_.value = IF p.cell_first_chunk_ THEN chunk.value
                                                       ELSE p.cell_.value \o chunk.value
<1> DEFINE a == TakeKey(p, chunk)
           b == TakeNames(a, chunk)
<1>1. a \in Parser
  BY TakeKeyIs DEF ProperChunk
<1>2. b \in Parser
  BY <1>1, TakeNamesIs DEF ProperChunk
<1>3. ReadInto(p, chunk) = TakeValue(b, chunk)
  BY DEF ReadInto
<1>4. /\ b.cells_ = p.cells_ /\ b.row_key_ = p.row_key_
      /\ b.cell_first_chunk_ = p.cell_first_chunk_ /\ b.row_ready_ = p.row_ready_
      /\ b.cell_.row = IF chunk.row_key = NoKey THEN p.cell_.row ELSE chunk.row_key
      /\ b.cell_.family = IF chunk.family = NoName THEN p.cell_.family ELSE chunk.family
      /\ b.cell_.column = IF chunk.qualifier = NoName THEN p.cell_.column ELSE chunk.qualifier
      /\ b.cell_.value = p.cell_.value
  <2>1. /\ a.cells_ = p.cells_ /\ a.row_key_ = p.row_key_
        /\ a.cell_first_chunk_ = p.cell_first_chunk_ /\ a.row_ready_ = p.row_ready_
        /\ a.cell_.row = IF chunk.row_key = NoKey THEN p.cell_.row ELSE chunk.row_key
        /\ a.cell_.family = p.cell_.family /\ a.cell_.column = p.cell_.column
        /\ a.cell_.value = p.cell_.value
    BY TakeKeyIs DEF ProperChunk
  <2> HIDE DEF a
  <2>2. QED
    BY <1>1, <2>1, TakeNamesIs DEF ProperChunk
<1> HIDE DEF a, b
<1> DEFINE q == TakeValue(b, chunk)
<1>5. /\ q \in Parser
      /\ q.cells_ = b.cells_ /\ q.row_key_ = b.row_key_
      /\ q.cell_first_chunk_ = FALSE /\ q.row_ready_ = b.row_ready_
      /\ q.cell_.row = b.cell_.row
      /\ q.cell_.family = b.cell_.family /\ q.cell_.column = b.cell_.column
      /\ q.cell_.value = IF b.cell_first_chunk_ THEN chunk.value
                                                ELSE b.cell_.value \o chunk.value
  BY <1>2, TakeValueIs DEF ProperChunk
<1> HIDE DEF q
<1>6. q.cell_.value = IF p.cell_first_chunk_ THEN chunk.value ELSE p.cell_.value \o chunk.value
  BY <1>4, <1>5
<1>7. QED
  BY <1>3, <1>4, <1>5, <1>6 DEF q

LEMMA HandleChunkIs ==
  ASSUME NEW p \in Parser, NEW chunk, ProperChunk(chunk), HandleChunk(p, chunk).status = "OK"
  PROVE  /\ ~p.row_ready_
         /\ chunk.value_size > 0 =>
              HandleChunk(p, chunk) = EndOfChunk(ReadInto(p, chunk), chunk)
         /\ ~(chunk.value_size > 0) =>
              /\ ~WrongKey(ReadInto(p, chunk))
              /\ HandleChunk(p, chunk) = EndOfChunk(CompleteCell(ReadInto(p, chunk)), chunk)
<1>1. \A q : Internal(q).status # "OK"
  BY DEF Internal
<1>2. ~(chunk.family # NoName /\ chunk.qualifier = NoName)
  BY DEF ProperChunk
<1>3. QED
  BY <1>1, <1>2 DEF HandleChunk, ReadInto, HasNext

LEMMA Values ==
  <<1, 2>> \in Seq(Int) /\ <<1>> \in Seq(Int) /\ <<2>> \in Seq(Int) /\ <<>> \in Seq(Int)
  OBVIOUS

LEMMA FirstIs ==
  ASSUME NEW k \in Int, NEW c, c = First(k)
  PROVE  /\ ProperChunk(c) /\ c.row_key = k /\ c.family = 1 /\ c.qualifier = 1
         /\ c.value = <<1, 2>> /\ c.value_size = 0 /\ ~c.reset_row /\ ~c.commit_row
<1>1. /\ c.row_key = k /\ c.family = 1 /\ c.qualifier = 1 /\ c.value = <<1, 2>>
      /\ c.value_size = 0
  BY DEF First, ServerChunk
<1>2. ~c.reset_row /\ ~c.commit_row
  BY DEF First, ServerChunk
<1>3. ProperChunk(c)
  BY Values DEF First, ServerChunk, ProperChunk
<1>4. QED
  BY <1>1, <1>2, <1>3

LEMMA SecondIs ==
  ASSUME NEW c, c = Second
  PROVE  /\ ProperChunk(c) /\ c.row_key = NoKey /\ c.family = NoName /\ c.qualifier = 2
         /\ c.value = <<1, 2>> /\ c.value_size = 0 /\ ~c.reset_row /\ c.commit_row
<1>1. /\ c.row_key = NoKey /\ c.family = NoName /\ c.qualifier = 2
      /\ c.value = <<1, 2>> /\ c.value_size = 0
  BY DEF Second, ServerChunk, NoKey, NoName
<1>2. ~c.reset_row /\ c.commit_row
  BY DEF Second, ServerChunk, NoKey, NoName
<1>3. ProperChunk(c)
  BY Values DEF Second, ServerChunk, NoKey, NoName, ProperChunk
<1>4. QED
  BY <1>1, <1>2, <1>3

LEMMA PartOneIs ==
  ASSUME NEW c, c = PartOne
  PROVE  /\ ProperChunk(c) /\ c.row_key = NoKey /\ c.family = NoName /\ c.qualifier = 2
         /\ c.value = <<1>> /\ c.value_size = 1 /\ ~c.reset_row /\ ~c.commit_row
<1>1. /\ c.row_key = NoKey /\ c.family = NoName /\ c.qualifier = 2 /\ c.value = <<1>>
      /\ c.value_size = 1
  BY DEF PartOne, ServerChunk, NoKey, NoName
<1>2. ~c.reset_row /\ ~c.commit_row
  BY DEF PartOne, ServerChunk, NoKey, NoName
<1>3. ProperChunk(c)
  BY Values DEF PartOne, ServerChunk, NoKey, NoName, ProperChunk
<1>4. QED
  BY <1>1, <1>2, <1>3

LEMMA PartTwoIs ==
  ASSUME NEW c, c = PartTwo
  PROVE  /\ ProperChunk(c) /\ c.row_key = NoKey /\ c.family = NoName
         /\ c.qualifier = NoName /\ c.value = <<2>> /\ c.value_size = 0
         /\ ~c.reset_row /\ c.commit_row
<1>1. /\ c.row_key = NoKey /\ c.family = NoName /\ c.qualifier = NoName
      /\ c.value = <<2>> /\ c.value_size = 0
  BY DEF PartTwo, ServerChunk, NoKey, NoName
<1>2. ~c.reset_row /\ c.commit_row
  BY DEF PartTwo, ServerChunk, NoKey, NoName
<1>3. ProperChunk(c)
  BY Values DEF PartTwo, ServerChunk, NoKey, NoName, ProperChunk
<1>4. QED
  BY <1>1, <1>2, <1>3

LEMMA ResetIs ==
  ASSUME NEW c, c = Reset
  PROVE  ProperChunk(c) /\ c.value_size = 0 /\ c.reset_row
<1>1. c.value_size = 0
  BY DEF Reset, ServerChunk, NoKey, NoName
<1>2. c.reset_row
  BY DEF Reset, ServerChunk, NoKey, NoName
<1>3. ProperChunk(c)
  BY Values DEF Reset, ServerChunk, NoKey, NoName, ProperChunk
<1>4. QED
  BY <1>1, <1>2, <1>3

LEMMA ForeignIs ==
  ASSUME NEW k \in Int, NEW c, c = Foreign(k)
  PROVE  ProperChunk(c) /\ c.row_key = k + 1 /\ c.value_size = 0
<1>1. c.row_key = k + 1 /\ c.value_size = 0
  BY DEF Foreign, ServerChunk, NoName
<1>2. ProperChunk(c)
  BY Values DEF Foreign, ServerChunk, NoName, ProperChunk
<1>3. QED
  BY <1>1, <1>2

(* A parser that has begun row k and not ended it.                          *)
Inside(p, k) ==
  ~p.row_ready_ /\ p.cells_ # <<>> /\ p.row_key_ = k /\ p.cell_.row = k

(* The same, and nothing but the first cell was received of the row.        *)
HasFirst(p, k) ==
  /\ Inside(p, k) /\ p.cells_ = <<CellOf(k, 1)>>
  /\ p.cell_.family = 1 /\ p.cell_first_chunk_

HasPart(p, k) ==
  /\ Inside(p, k) /\ p.cells_ = <<CellOf(k, 1)>> /\ ~p.cell_first_chunk_
  /\ p.cell_.family = 1 /\ p.cell_.column = 2 /\ p.cell_.value = <<1>>

HasBoth(p, k) ==
  /\ p.row_ready_ /\ p.row_key_ = k /\ p.cell_first_chunk_
  /\ p.cells_ = <<CellOf(k, 1), CellOf(k, 2)>>

(* A parser between two rows.                                               *)
Clean(p) == ~p.row_ready_ /\ p.cells_ = <<>> /\ p.cell_first_chunk_

LEMMA CellOfIs ==
  ASSUME NEW k \in Int, NEW c \in Int
  PROVE  /\ CellOf(k, c) \in Cell
         /\ \A x \in Cell : x.row = k /\ x.family = 1 /\ x.column = c /\ x.value = <<1, 2>>
                              => x = CellOf(k, c)
<1>1. CellOf(k, c) \in Cell
  BY Values DEF Cell, CellOf
<1>2. \A x \in Cell :
        x = [row |-> x.row, family |-> x.family, column |-> x.column, value |-> x.value]
  BY DEF Cell
<1>3. QED
  BY <1>1, <1>2 DEF CellOf

(* The first chunk of row k, to a parser that has cells of no other row.    *)
LEMMA HandleFirst ==
  ASSUME NEW p \in Parser, NEW k \in Int, k # NoKey,
         p.cells_ # <<>> => p.row_key_ = k,
         HandleChunk(p, First(k)).status = "OK"
  PROVE  LET q == HandleChunk(p, First(k)).parser
         IN  q \in Parser /\ Inside(q, k) /\ (Clean(p) => HasFirst(q, k))
<1> DEFINE c == First(k)
           d == ReadInto(p, c)
           q == CompleteCell(d)
<1>1. /\ ProperChunk(c) /\ c.row_key = k /\ c.family = 1 /\ c.qualifier = 1
      /\ c.value = <<1, 2>> /\ c.value_size = 0 /\ ~c.reset_row /\ ~c.commit_row
  BY FirstIs
<1> HIDE DEF c
<1>2. HandleChunk(p, c) = EndOfChunk(q, c) /\ ~p.row_ready_
  <2>1. HandleChunk(p, c).status = "OK"
    BY DEF c
  <2>2. QED
    BY <1>1, <2>1, HandleChunkIs
<1>3. HandleChunk(p, c).parser = q
  BY <1>1, <1>2 DEF EndOfChunk, Ok
<1>4. /\ d \in Parser
      /\ d.cells_ = p.cells_ /\ d.row_key_ = p.row_key_
      /\ d.cell_first_chunk_ = FALSE /\ d.row_ready_ = p.row_ready_
      /\ d.cell_.row = IF c.row_key = NoKey THEN p.cell_.row ELSE c.row_key
      /\ d.cell_.family = IF c.family = NoName THEN p.cell_.family ELSE c.family
      /\ d.cell_.column = IF c.qualifier = NoName THEN p.cell_.column ELSE c.qualifier
      /\ d.cell_.value = IF p.cell_first_chunk_ THEN c.value
                                                ELSE p.cell_.value \o c.value
  BY <1>1, ReadIntoIs
<1> HIDE DEF d
<1>5. /\ d.cell_.row = k /\ d.cell_.family = 1 /\ d.cell_.column = 1
      /\ p.cell_first_chunk_ => d.cell_.value = <<1, 2>>
  BY <1>1, <1>4 DEF NoName
<1>6. /\ q \in Parser /\ q.cells_ = Append(d.cells_, d.cell_)
      /\ q.row_key_ = IF d.cells_ = <<>> THEN d.cell_.row ELSE d.row_key_
      /\ q.cell_first_chunk_ = TRUE /\ q.row_ready_ = d.row_ready_
      /\ q.cell_.row = d.cell_.row /\ q.cell_.family = d.cell_.family
  BY <1>4, CompleteCellIs
<1> HIDE DEF q
<1>7. d.cell_ \in Cell /\ d.cells_ \in Seq(Cell)
  BY <1>4 DEF Parser
<1>8. Inside(q, k)
  BY <1>2, <1>4, <1>5, <1>6, <1>7, AppendToNone DEF Inside
<1>9. Clean(p) => HasFirst(q, k)
  <2>1. Clean(p) => q.cells_ = <<d.cell_>> /\ d.cell_ = CellOf(k, 1)
    BY <1>4, <1>5, <1>6, <1>7, AppendToNone, CellOfIs DEF Clean
  <2>2. QED
    BY <1>5, <1>6, <1>8, <2>1 DEF HasFirst
<1>10. QED
  BY <1>3, <1>6, <1>8, <1>9 DEF c

(* CommitRow() of a row that has cells.                                     *)
LEMMA CommitRowIs ==
  ASSUME NEW p \in Parser, CommitRow(p).status = "OK"
  PROVE  LET q == CommitRow(p).parser
         IN  /\ q \in Parser /\ q.row_ready_ = TRUE /\ q.row_key_ = p.row_key_
             /\ q.cells_ = p.cells_ /\ q.cell_first_chunk_ = p.cell_first_chunk_
<1> DEFINE q == [p EXCEPT !.row_ready_ = TRUE, !.last_seen_row_key_ = p.row_key_,
                          !.cell_.row = NoKey]
<1>1. CommitRow(p) = Ok(q)
  BY DEF CommitRow, Internal
<1>2. q \in Parser
  <2> DEFINE c == [p.cell_ EXCEPT !.row = NoKey]
  <2>1. c \in Cell
    BY SMTT(40) DEF Parser, Cell, NoKey
  <2>2. q = [p EXCEPT !.row_ready_ = TRUE, !.last_seen_row_key_ = p.row_key_, !.cell_ = c]
    OBVIOUS
  <2> HIDE DEF c
  <2>3. QED
    BY <2>1, <2>2 DEF Parser
<1>3. q.row_ready_ = TRUE /\ q.row_key_ = p.row_key_
  BY DEF Parser
<1>4. q.cells_ = p.cells_ /\ q.cell_first_chunk_ = p.cell_first_chunk_
  BY DEF Parser
<1> HIDE DEF q
<1>5. QED
  BY <1>1, <1>2, <1>3, <1>4 DEF Ok

(* The chunk that ends row k, with its second cell or the rest of it.       *)
LEMMA HandleCommit ==
  ASSUME NEW p \in Parser, NEW k \in Int, k # NoKey, Inside(p, k),
         NEW c \in {Second, PartTwo}, HandleChunk(p, c).status = "OK"
  PROVE  LET q == HandleChunk(p, c).parser
         IN  /\ q \in Parser /\ q.row_ready_ /\ q.row_key_ = k
             /\ c = Second /\ HasFirst(p, k) => HasBoth(q, k)
             /\ c = PartTwo /\ HasPart(p, k) => HasBoth(q, k)
<1> DEFINE d == ReadInto(p, c)
           e == CompleteCell(d)
           q == CommitRow(e).parser
<1>1. /\ ProperChunk(c) /\ c.row_key = NoKey /\ c.family = NoName /\ c.value_size = 0
      /\ ~c.reset_row /\ c.commit_row
  BY SecondIs, PartTwoIs
<1>a. c = Second => c.qualifier = 2 /\ c.value = <<1, 2>>
  BY SecondIs
<1>b. c = PartTwo => c.qualifier = NoName /\ c.value = <<2>>
  BY PartTwoIs
<1>2. HandleChunk(p, c) = CommitRow(e)
  BY <1>1, HandleChunkIs DEF EndOfChunk
<1>c. /\ d \in Parser
      /\ d.cells_ = p.cells_ /\ d.row_key_ = p.row_key_
      /\ d.cell_first_chunk_ = FALSE /\ d.row_ready_ = p.row_ready_
      /\ d.cell_.row = IF c.row_key = NoKey THEN p.cell_.row ELSE c.row_key
      /\ d.cell_.family = IF c.family = NoName THEN p.cell_.family ELSE c.family
      /\ d.cell_.column = IF c.qualifier = NoName THEN p.cell_.column ELSE c.qualifier
      /\ d.cell_.value = IF p.cell_first_chunk_ THEN c.value
                                                ELSE p.cell_.value \o c.value
  BY <1>1, ReadIntoIs
<1> HIDE DEF d
<1>3. /\ d \in Parser /\ d.cells_ = p.cells_ /\ d.row_key_ = k /\ d.cell_.row = k
      /\ d.cell_.family = p.cell_.family
      /\ c = Second => d.cell_.column = 2
      /\ c = PartTwo => d.cell_.column = p.cell_.column
  BY <1>1, <1>a, <1>b, <1>c DEF Inside, NoName
<1>4. /\ c = Second /\ p.cell_first_chunk_ => d.cell_.value = <<1, 2>>
      /\ c = PartTwo /\ ~p.cell_first_chunk_ => d.cell_.value = p.cell_.value \o <<2>>
  BY <1>a, <1>b, <1>c
<1>5. /\ e \in Parser /\ e.cells_ = Append(d.cells_, d.cell_)
      /\ e.row_key_ = IF d.cells_ = <<>> THEN d.cell_.row ELSE d.row_key_
      /\ e.cell_first_chunk_ = TRUE
  BY <1>3, CompleteCellIs
<1> HIDE DEF e
<1>6. /\ q \in Parser /\ q.row_ready_ = TRUE /\ q.row_key_ = e.row_key_
      /\ q.cells_ = e.cells_ /\ q.cell_first_chunk_ = e.cell_first_chunk_
  BY <1>2, <1>5, CommitRowIs
<1> HIDE DEF q
<1>7. q.row_ready_ /\ q.row_key_ = k /\ q.cell_first_chunk_
  BY <1>3, <1>5, <1>6 DEF Inside
<1>8. d.cell_ \in Cell
  BY <1>3 DEF Parser
<1>9. d.cell_ = CellOf(k, 2) /\ p.cells_ = <<CellOf(k, 1)>> => HasBoth(q, k)
  <2>1. CellOf(k, 1) \in Cell /\ CellOf(k, 2) \in Cell
    BY CellOfIs
  <2>2. Append(<<CellOf(k, 1)>>, CellOf(k, 2)) = <<CellOf(k, 1), CellOf(k, 2)>>
    BY <2>1, AppendToOne
  <2>3. QED
    BY <1>3, <1>5, <1>6, <1>7, <2>2 DEF HasBoth
<1>10. c = Second /\ HasFirst(p, k) => d.cell_ = CellOf(k, 2)
  BY <1>3, <1>4, <1>8, CellOfIs DEF HasFirst
<1>11. c = PartTwo /\ HasPart(p, k) => d.cell_ = CellOf(k, 2)
  BY <1>3, <1>4, <1>8, CellOfIs, TwoParts DEF HasPart
<1>12. QED
  BY <1>2, <1>6, <1>7, <1>9, <1>10, <1>11 DEF q, HasFirst, HasPart

LEMMA HandlePartOne ==
  ASSUME NEW p \in Parser, NEW k \in Int, k # NoKey, Inside(p, k),
         HandleChunk(p, PartOne).status = "OK"
  PROVE  LET q == HandleChunk(p, PartOne).parser
         IN  q \in Parser /\ Inside(q, k) /\ (HasFirst(p, k) => HasPart(q, k))
<1> DEFINE c == PartOne
           q == ReadInto(p, c)
<1>1. /\ ProperChunk(c) /\ c.row_key = NoKey /\ c.family = NoName /\ c.qualifier = 2
      /\ c.value = <<1>> /\ c.value_size = 1 /\ ~c.reset_row /\ ~c.commit_row
  BY PartOneIs
<1>2. HandleChunk(p, c) = Ok(q)
  BY <1>1, HandleChunkIs DEF EndOfChunk
<1>3. /\ q \in Parser
      /\ q.cells_ = p.cells_ /\ q.row_key_ = p.row_key_
      /\ q.cell_first_chunk_ = FALSE /\ q.row_ready_ = p.row_ready_
      /\ q.cell_.row = IF c.row_key = NoKey THEN p.cell_.row ELSE c.row_key
      /\ q.cell_.family = IF c.family = NoName THEN p.cell_.family ELSE c.family
      /\ q.cell_.column = IF c.qualifier = NoName THEN p.cell_.column ELSE c.qualifier
      /\ q.cell_.value = IF p.cell_first_chunk_ THEN c.value
                                                ELSE p.cell_.value \o c.value
  BY <1>1, ReadIntoIs
<1> HIDE DEF q
<1>4. /\ q.cell_.row = p.cell_.row /\ q.cell_.family = p.cell_.family /\ q.cell_.column = 2
      /\ p.cell_first_chunk_ => q.cell_.value = <<1>>
  BY <1>1, <1>3 DEF NoName
<1>5. Inside(q, k)
  BY <1>3, <1>4 DEF Inside
<1>6. HasFirst(p, k) => HasPart(q, k)
  BY <1>3, <1>4, <1>5 DEF HasFirst, HasPart
<1>7. QED
  BY <1>2, <1>3, <1>5, <1>6 DEF Ok

LEMMA HandleReset ==
  ASSUME NEW p \in Parser, HandleChunk(p, Reset).status = "OK"
  PROVE  LET q == HandleChunk(p, Reset).parser IN q \in Parser /\ Clean(q)
<1> DEFINE c == Reset
           d == ReadInto(p, c)
           e == CompleteCell(d)
           q == [e EXCEPT !.cells_ = <<>>, !.cell_ = NoCell]
<1>1. ProperChunk(c) /\ c.value_size = 0 /\ c.reset_row
  BY ResetIs
<1>2. HandleChunk(p, c) = ResetRow(e) /\ ~p.row_ready_
  BY <1>1, HandleChunkIs DEF EndOfChunk
<1>3. d \in Parser /\ d.row_ready_ = p.row_ready_
  BY <1>1, ReadIntoIs
<1> HIDE DEF d
<1>4. e \in Parser /\ e.row_ready_ = d.row_ready_ /\ e.cell_first_chunk_ = TRUE
  BY <1>3, CompleteCellIs
<1> HIDE DEF e
<1>5. NoCell \in Cell /\ <<>> \in Seq(Cell)
  <2>1. <<>> \in Seq(Int)
    OBVIOUS
  <2>2. QED
    BY <2>1 DEF NoCell, Cell, NoKey, NoName
<1>6. /\ q \in Parser /\ q.cells_ = <<>> /\ q.row_ready_ = e.row_ready_
      /\ q.cell_first_chunk_ = TRUE
  BY <1>4, <1>5 DEF Parser
<1>7. ResetRow(e) = Ok(q)
  BY <1>6 DEF ResetRow
<1> HIDE DEF q
<1>8. Clean(q)
  BY <1>2, <1>3, <1>4, <1>6 DEF Clean
<1>9. QED
  BY <1>2, <1>6, <1>7, <1>8 DEF Ok

(* A cell of another row is refused.                                        *)
LEMMA HandleForeign ==
  ASSUME NEW p \in Parser, NEW k \in Nat, k # NoKey, Inside(p, k)
  PROVE  HandleChunk(p, Foreign(k)).status # "OK"
<1> DEFINE c == Foreign(k)
<1> SUFFICES ASSUME HandleChunk(p, c).status = "OK" PROVE FALSE
  OBVIOUS
<1>1. ProperChunk(c) /\ c.row_key = k + 1 /\ c.value_size = 0
  BY ForeignIs
<1> HIDE DEF c
<1>2. ~WrongKey(ReadInto(p, c))
  BY <1>1, HandleChunkIs
<1> DEFINE d == ReadInto(p, c)
<1>3. d.cells_ = p.cells_ /\ d.row_key_ = p.row_key_
  BY <1>1, ReadIntoIs
<1>4. d.cell_.row = IF c.row_key = NoKey THEN p.cell_.row ELSE c.row_key
  BY <1>1, ReadIntoIs
<1> HIDE DEF d
<1>5. d.cells_ # <<>> /\ d.row_key_ = d.cell_.row
  BY <1>2, <1>3 DEF WrongKey, d, Inside
<1>6. QED
  BY <1>1, <1>3, <1>4, <1>5 DEF Inside, NoKey

------------------------------------------------------------------------------
(* The stream, one place at a time.                                         *)

Place ==
  [row : Int, way : {"whole", "parts", "reset", "garbled"}, at : Int, nth : Int]

(* A place in the stream that is open, of a row that it has to send.        *)
InStream(m) ==
  /\ m \in Place
  /\ \/ m = Nothing
     \/ /\ m.row \in TableRows /\ Matches(row_set_, m.row)
        /\ m.at \in 1..Len(Encoding(m.row, m.way))
        /\ m.nth > 0 /\ (requested = NO_ROWS_LIMIT \/ m.nth <= requested)

(* k is the next row after key.                                             *)
IsNext(k, key) == k \in RowsAfter(row_set_, key) /\ \A q \in RowsAfter(row_set_, key) : k <= q

(* What the parser holds after the chunk at m.  A parser that has seen      *)
(* another stream may hold cells of the row that comes next.                *)
Shape(p, m) ==
  /\ p \in Parser
  /\ IF IsLast(m)
       THEN /\ p.row_ready_ => p.row_key_ = m.row
            /\ ~p.row_ready_ /\ p.cells_ # <<>> =>
                 \A k \in TableRows : IsNext(k, m.row) => p.row_key_ = k
       ELSE IF m.way = "reset" /\ m.at = 2 THEN ~p.row_ready_ /\ p.cells_ = <<>>
                                           ELSE Inside(p, m.row)

(* The same for a parser that has seen no other stream.                     *)
Exact(p, m) ==
  IF IsLast(m)
    THEN (p.row_ready_ => HasBoth(p, m.row)) /\ (~p.row_ready_ => Clean(p))
    ELSE IF m.at # 2 THEN HasFirst(p, m.row)
    ELSE /\ m.way = "reset" => Clean(p)
         /\ m.way = "parts" => HasPart(p, m.row)

LEMMA Encodings ==
  ASSUME NEW k
  PROVE  /\ Encoding(k, "whole") = <<First(k), Second>>
         /\ Encoding(k, "parts") = <<First(k), PartOne, PartTwo>>
         /\ Encoding(k, "reset") = <<First(k), Reset, First(k), Second>>
         /\ Encoding(k, "garbled") = <<First(k), Foreign(k)>>
<1> USE DEF First, Second, PartOne, PartTwo, Reset, Foreign
<1>1. Encoding(k, "whole") = <<First(k), Second>>
  BY DEF Encoding
<1>2. Encoding(k, "parts") = <<First(k), PartOne, PartTwo>>
  BY DEF Encoding
<1>3. Encoding(k, "reset") = <<First(k), Reset, First(k), Second>>
  BY DEF Encoding
<1>4. Encoding(k, "garbled") = <<First(k), Foreign(k)>>
  BY DEF Encoding
<1>5. QED
  BY <1>1, <1>2, <1>3, <1>4

(* The chunks at each place of a row.                                      *)
LEMMA SentWhole ==
  ASSUME NEW m \in Place, m.way = "whole"
  PROVE  /\ Len(Encoding(m.row, m.way)) = 2 /\ (IsLast(m) <=> m.at = 2)
         /\ m.at = 1 => Chunk(m) = First(m.row)
         /\ m.at = 2 => Chunk(m) = Second
<1> DEFINE e == Encoding(m.row, m.way)
<1>1. e = <<First(m.row), Second>>
  BY Encodings
<1> HIDE DEF e
<1>2. Len(e) = 2 /\ e[1] = First(m.row) /\ e[2] = Second
  BY <1>1
<1>3. QED
  BY <1>2 DEF e, IsLast, Chunk

LEMMA SentParts ==
  ASSUME NEW m \in Place, m.way = "parts"
  PROVE  /\ Len(Encoding(m.row, m.way)) = 3 /\ (IsLast(m) <=> m.at = 3)
         /\ m.at = 1 => Chunk(m) = First(m.row)
         /\ m.at = 2 => Chunk(m) = PartOne
         /\ m.at = 3 => Chunk(m) = PartTwo
<1> DEFINE e == Encoding(m.row, m.way)
<1>1. e = <<First(m.row), PartOne, PartTwo>>
  BY Encodings
<1> HIDE DEF e
<1>2. Len(e) = 3 /\ e[1] = First(m.row) /\ e[2] = PartOne /\ e[3] = PartTwo
  BY <1>1
<1>3. QED
  BY <1>2 DEF e, IsLast, Chunk

LEMMA SentReset ==
  ASSUME NEW m \in Place, m.way = "reset"
  PROVE  /\ Len(Encoding(m.row, m.way)) = 4 /\ (IsLast(m) <=> m.at = 4)
         /\ m.at = 1 => Chunk(m) = First(m.row)
         /\ m.at = 2 => Chunk(m) = Reset
         /\ m.at = 3 => Chunk(m) = First(m.row)
         /\ m.at = 4 => Chunk(m) = Second
<1> DEFINE e == Encoding(m.row, m.way)
<1>1. e = <<First(m.row), Reset, First(m.row), Second>>
  BY Encodings
<1> HIDE DEF e
<1>2. Len(e) = 4 /\ e[1] = First(m.row) /\ e[2] = Reset /\ e[3] = First(m.row) /\ e[4] = Second
  BY <1>1
<1>3. QED
  BY <1>2 DEF e, IsLast, Chunk

LEMMA SentGarbled ==
  ASSUME NEW m \in Place, m.way = "garbled"
  PROVE  /\ Len(Encoding(m.row, m.way)) = 2 /\ (IsLast(m) <=> m.at = 2)
         /\ m.at = 1 => Chunk(m) = First(m.row)
         /\ m.at = 2 => Chunk(m) = Foreign(m.row)
<1> DEFINE e == Encoding(m.row, m.way)
<1>1. e = <<First(m.row), Foreign(m.row)>>
  BY Encodings
<1> HIDE DEF e
<1>2. Len(e) = 2 /\ e[1] = First(m.row) /\ e[2] = Foreign(m.row)
  BY <1>1
<1>3. QED
  BY <1>2 DEF e, IsLast, Chunk

LEMMA TableKeys == TableRows \subseteq Nat \ {NoKey} /\ Key \subseteq Nat
  BY KeyAssumption, ReadRowsAssumption DEF NoKey

LEMMA NothingIs == Nothing \in Place /\ IsLast(Nothing) /\ Nothing.row = NoKey /\ Nothing.nth = 0
<1>1. Nothing \in Place /\ Nothing.row = NoKey /\ Nothing.nth = 0
  BY DEF Nothing, Place, NoKey
<1>2. Nothing.way = "whole" /\ Nothing.at = 2
  BY DEF Nothing
<1>3. QED
  BY <1>1, <1>2, SentWhole

(* A row that is not at its end is in the stream, and not at its last chunk.*)
LEMMA InsideRow ==
  ASSUME NEW m, InStream(m), ~IsLast(m)
  PROVE  /\ m \in Place /\ m.row \in Nat /\ m.row # NoKey /\ m.row \in TableRows
         /\ Matches(row_set_, m.row)
         /\ m.nth > 0 /\ (requested = NO_ROWS_LIMIT \/ m.nth <= requested)
         /\ m.way = "whole" => m.at = 1
         /\ m.way = "parts" => m.at \in {1, 2}
         /\ m.way = "reset" => m.at \in {1, 2, 3}
         /\ m.way = "garbled" => m.at = 1
<1>1. m # Nothing /\ m \in Place
  BY NothingIs DEF InStream
<1>2. /\ m.row \in TableRows /\ Matches(row_set_, m.row)
      /\ m.at \in 1..Len(Encoding(m.row, m.way))
      /\ m.nth > 0 /\ (requested = NO_ROWS_LIMIT \/ m.nth <= requested)
  BY <1>1 DEF InStream
<1>3. m.row \in Nat /\ m.row # NoKey
  BY <1>2, TableKeys
<1> DEFINE l == Len(Encoding(m.row, m.way))
           at == m.at
<1>a. at \in 1..l
  BY <1>2
<1> HIDE DEF l, at
<1>4. m.way = "whole" => m.at = 1
  <2> SUFFICES ASSUME m.way = "whole" PROVE at = 1
    BY DEF at
  <2>1. l = 2 /\ at # 2
    BY <1>1, SentWhole DEF l, at
  <2>2. QED
    BY <1>a, <2>1
<1>5. m.way = "parts" => m.at \in {1, 2}
  <2> SUFFICES ASSUME m.way = "parts" PROVE at \in {1, 2}
    BY DEF at
  <2>1. l = 3 /\ at # 3
    BY <1>1, SentParts DEF l, at
  <2>2. QED
    BY <1>a, <2>1
<1>6. m.way = "reset" => m.at \in {1, 2, 3}
  <2> SUFFICES ASSUME m.way = "reset" PROVE at \in {1, 2, 3}
    BY DEF at
  <2>1. l = 4 /\ at # 4
    BY <1>1, SentReset DEF l, at
  <2>2. QED
    BY <1>a, <2>1
<1>7. m.way = "garbled" => m.at = 1
  <2> SUFFICES ASSUME m.way = "garbled" PROVE at = 1
    BY DEF at
  <2>1. l = 2 /\ at # 2
    BY <1>1, SentGarbled DEF l, at
  <2>2. QED
    BY <1>a, <2>1
<1>8. QED
  BY <1>1, <1>2, <1>3, <1>4, <1>5, <1>6, <1>7

LEMMA FollowingIs ==
  ASSUME NEW m, InStream(m), NEW n \in Following(m), requested \in Int
  PROVE  /\ InStream(n)
         /\ ~IsLast(m) => n = [m EXCEPT !.at = m.at + 1]
         /\ IsLast(m) => /\ IsNext(n.row, m.row) /\ n.row \in TableRows
                         /\ n.at = 1 /\ n.nth = m.nth + 1
<1>0. m \in Place
  BY DEF InStream
<1>1. CASE ~IsLast(m)
  <2>1. n = [m EXCEPT !.at = m.at + 1]
    BY <1>1 DEF Following
  <2>2. /\ n \in Place /\ n.row = m.row /\ n.way = m.way /\ n.nth = m.nth
        /\ n.at = m.at + 1
    BY <1>0, <2>1 DEF Place
  <2>3. m.at \in Int /\ m.at \in 1..Len(Encoding(m.row, m.way))
    BY <1>0, <1>1, NothingIs DEF InStream, Place
  <2>4. m.at # Len(Encoding(m.row, m.way))
    BY <1>1 DEF IsLast
  <2>5. Len(Encoding(m.row, m.way)) \in Int
    <3>1. m.way \in {"whole", "parts", "reset", "garbled"}
      BY <1>0 DEF Place
    <3>2. QED
      BY <1>0, <3>1, SentWhole, SentParts, SentReset, SentGarbled
  <2>6. n.at \in 1..Len(Encoding(n.row, n.way))
    BY <2>2, <2>3, <2>4, <2>5
  <2>7. InStream(n)
    BY <1>1, <2>2, <2>6, InsideRow DEF InStream
  <2>8. QED
    BY <1>1, <2>1, <2>7
<1>2. CASE IsLast(m)
  <2>1. PICK k \in RowsAfter(row_set_, m.row), way \in Ways :
          /\ n = [row |-> k, way |-> way, at |-> 1, nth |-> m.nth + 1]
          /\ \A q \in RowsAfter(row_set_, m.row) : k <= q
          /\ requested = NO_ROWS_LIMIT \/ m.nth < requested
    BY <1>2 DEF Following
  <2>2. k \in TableRows /\ Matches(row_set_, k) /\ k \in Int
    BY <2>1, TableKeys DEF RowsAfter
  <2>3. way \in {"whole", "parts", "reset", "garbled"}
    BY DEF Ways
  <2>4. m.nth \in Int /\ m.nth >= 0
    BY <1>0, NothingIs DEF InStream, Place
  <2>5. /\ n \in Place /\ n.row = k /\ n.at = 1 /\ n.nth = m.nth + 1
        /\ n.way \in {"whole", "parts", "reset", "garbled"}
    BY <2>1, <2>2, <2>3, <2>4 DEF Place
  <2>6. n.at \in 1..Len(Encoding(n.row, n.way))
    <3>1. Len(Encoding(n.row, n.way)) \in {2, 3, 4}
      BY <2>5, SentWhole, SentParts, SentReset, SentGarbled
    <3> DEFINE l == Len(Encoding(n.row, n.way))
    <3> HIDE DEF l
    <3>2. l \in {2, 3, 4} => 1 \in 1..l
      OBVIOUS
    <3>3. QED
      BY <2>5, <3>1, <3>2 DEF l
  <2>7. n.nth > 0 /\ (requested = NO_ROWS_LIMIT \/ n.nth <= requested)
    BY <2>1, <2>4, <2>5
  <2>8. InStream(n)
    BY <2>2, <2>5, <2>6, <2>7 DEF InStream
  <2>9. IsNext(n.row, m.row)
    BY <2>1, <2>5 DEF IsNext
  <2>10. QED
    BY <1>2, <2>2, <2>5, <2>8, <2>9
<1>3. QED
  BY <1>1, <1>2

(* A chunk that the parser takes keeps it in step with the stream.          *)
LEMMA ChunkShape ==
  ASSUME NEW p, NEW m, NEW n \in Following(m), InStream(m), requested \in Int,
         Shape(p, m), HandleChunk(p, Chunk(n)).status = "OK"
  PROVE  LET q == HandleChunk(p, Chunk(n)).parser
         IN  /\ Shape(q, n) /\ (q.row_ready_ <=> IsLast(n)) /\ ~p.row_ready_
             /\ Exact(p, m) => Exact(q, n)
<1> DEFINE q == HandleChunk(p, Chunk(n)).parser
<1> SUFFICES /\ Shape(q, n) /\ (q.row_ready_ <=> IsLast(n)) /\ ~p.row_ready_
             /\ Exact(p, m) => Exact(q, n)
  OBVIOUS
<1>0. p \in Parser /\ m \in Place /\ n \in Place /\ InStream(n) /\ IsLast(m) \in BOOLEAN
  BY FollowingIs DEF Shape, InStream, IsLast
<1>1. CASE IsLast(m)
  <2>1. n.at = 1 /\ IsNext(n.row, m.row) /\ n.row \in TableRows
    BY <1>1, FollowingIs
  <2>2. n.row \in Nat /\ n.row \in Int /\ n.row # NoKey
    <3>1. n.row \in Nat \ {NoKey}
      BY <2>1, TableKeys
    <3>2. QED
      BY <3>1
  <2>3. ~IsLast(n) /\ Chunk(n) = First(n.row)
    <3>1. n.way \in {"whole", "parts", "reset", "garbled"}
      BY <1>0 DEF Place
    <3>2. QED
      BY <1>0, <2>1, <3>1, SentWhole, SentParts, SentReset, SentGarbled
  <2>4. ~p.row_ready_
    BY <1>0, <2>2, <2>3, FirstIs, HandleChunkIs
  <2>5. p.cells_ # <<>> => p.row_key_ = n.row
    BY <1>1, <2>1, <2>4 DEF Shape
  <2>6. q \in Parser /\ Inside(q, n.row) /\ (Clean(p) => HasFirst(q, n.row))
    BY <1>0, <2>2, <2>3, <2>5, HandleFirst
  <2> HIDE DEF q
  <2>7. ~q.row_ready_ /\ q.row_ready_ \in BOOLEAN
    BY <2>6 DEF Inside, Parser
  <2>8. Shape(q, n)
    BY <2>1, <2>3, <2>6 DEF Shape
  <2>9. Exact(p, m) => Exact(q, n)
    BY <1>1, <2>1, <2>3, <2>4, <2>6 DEF Exact
  <2>10. QED
    BY <2>3, <2>4, <2>7, <2>8, <2>9
<1>2. CASE ~IsLast(m)
  <2>0. n = [m EXCEPT !.at = m.at + 1]
    BY <1>2, FollowingIs
  <2>1. /\ n.row = m.row /\ n.way = m.way /\ n.at = m.at + 1
        /\ m.way \in {"whole", "parts", "reset", "garbled"}
    BY <1>0, <2>0 DEF Place
  <2>2. /\ m.row \in Nat /\ m.row \in Int /\ m.row # NoKey
        /\ m.way = "whole" => m.at = 1
        /\ m.way = "parts" => m.at \in {1, 2}
        /\ m.way = "reset" => m.at \in {1, 2, 3}
        /\ m.way = "garbled" => m.at = 1
    BY <1>2, InsideRow
  <2>3. ASSUME ~(m.way = "reset" /\ m.at = 2)
        PROVE  Inside(p, m.row) /\ ~p.row_ready_
    BY <1>2, <2>3 DEF Shape, Inside
  <2>4. ASSUME Inside(p, m.row), NEW c \in {Second, PartTwo}, Chunk(n) = c, IsLast(n),
               c = Second => (Exact(p, m) => HasFirst(p, m.row)),
               c = PartTwo => (Exact(p, m) => HasPart(p, m.row))
        PROVE  Shape(q, n) /\ (q.row_ready_ <=> IsLast(n)) /\ (Exact(p, m) => Exact(q, n))
    <3>1. /\ q \in Parser /\ q.row_ready_ /\ q.row_key_ = m.row
          /\ c = Second /\ HasFirst(p, m.row) => HasBoth(q, m.row)
          /\ c = PartTwo /\ HasPart(p, m.row) => HasBoth(q, m.row)
      BY <1>0, <2>2, <2>4, HandleCommit
    <3> HIDE DEF q
    <3>2. Shape(q, n)
      BY <2>1, <2>4, <3>1 DEF Shape
    <3>3. Exact(p, m) => Exact(q, n)
      BY <2>1, <2>4, <3>1 DEF Exact
    <3>4. q.row_ready_ \in BOOLEAN /\ IsLast(n) \in BOOLEAN
      BY <3>1 DEF Parser, IsLast
    <3>5. QED
      BY <2>4, <3>1, <3>2, <3>3, <3>4
  <2>5. CASE m.way = "whole"
    <3>1. IsLast(n) /\ Chunk(n) = Second
      BY <1>0, <2>1, <2>2, <2>5, SentWhole
    <3>2. Exact(p, m) => HasFirst(p, m.row)
      BY <1>2, <2>2, <2>5 DEF Exact
    <3>3. Second = PartTwo => (Exact(p, m) => HasPart(p, m.row))
      BY SecondIs, PartTwoIs DEF NoName
    <3>4. Inside(p, m.row) /\ ~p.row_ready_
      BY <2>3, <2>5
    <3>5. QED
      BY <2>4, <3>1, <3>2, <3>3, <3>4
  <2>6. CASE m.way = "parts" /\ m.at = 1
    <3>1. ~IsLast(n) /\ Chunk(n) = PartOne
      BY <1>0, <2>1, <2>6, SentParts
    <3>2. Exact(p, m) => HasFirst(p, m.row)
      BY <1>2, <2>6 DEF Exact
    <3>3. Inside(p, m.row) /\ ~p.row_ready_
      BY <2>3, <2>6
    <3>4. q \in Parser /\ Inside(q, m.row) /\ (HasFirst(p, m.row) => HasPart(q, m.row))
      BY <1>0, <2>2, <3>1, <3>3, HandlePartOne
    <3> HIDE DEF q
    <3>5. Shape(q, n)
      BY <2>1, <2>6, <3>1, <3>4 DEF Shape
    <3>6. Exact(p, m) => Exact(q, n)
      BY <2>1, <2>6, <3>1, <3>2, <3>4 DEF Exact
    <3>7. (q.row_ready_ <=> IsLast(n))
      BY <3>1, <3>4 DEF Inside, Parser
    <3>8. QED
      BY <3>3, <3>5, <3>6, <3>7
  <2>7. CASE m.way = "parts" /\ m.at = 2
    <3>1. IsLast(n) /\ Chunk(n) = PartTwo
      BY <1>0, <2>1, <2>7, SentParts
    <3>2. Exact(p, m) => HasPart(p, m.row)
      BY <1>2, <2>7 DEF Exact
    <3>3. PartTwo = Second => (Exact(p, m) => HasFirst(p, m.row))
      BY SecondIs, PartTwoIs DEF NoName
    <3>4. Inside(p, m.row) /\ ~p.row_ready_
      BY <2>3, <2>7
    <3>5. QED
      BY <2>4, <3>1, <3>2, <3>3, <3>4
  <2>8. CASE m.way = "reset" /\ m.at = 1
    <3>1. ~IsLast(n) /\ Chunk(n) = Reset
      BY <1>0, <2>1, <2>8, SentReset
    <3>2. q \in Parser /\ Clean(q)
      BY <1>0, <3>1, HandleReset
    <3>3. ~p.row_ready_
      BY <2>3, <2>8
    <3> HIDE DEF q
    <3>4. Shape(q, n) /\ Exact(q, n)
      BY <2>1, <2>8, <3>1, <3>2 DEF Shape, Exact, Clean
    <3>5. (q.row_ready_ <=> IsLast(n))
      BY <3>1, <3>2 DEF Clean, Parser
    <3>6. QED
      BY <3>3, <3>4, <3>5
  <2>9. CASE m.way = "reset" /\ m.at = 2
    <3>1. ~IsLast(n) /\ Chunk(n) = First(n.row)
      BY <1>0, <2>1, <2>9, SentReset
    <3>2. p.cells_ = <<>> /\ ~p.row_ready_
      BY <1>2, <2>9 DEF Shape
    <3>3. q \in Parser /\ Inside(q, n.row) /\ (Clean(p) => HasFirst(q, n.row))
      BY <1>0, <2>1, <2>2, <3>1, <3>2, HandleFirst
    <3> HIDE DEF q
    <3>4. Shape(q, n)
      BY <2>1, <2>9, <3>1, <3>3 DEF Shape
    <3>5. Exact(p, m) => Exact(q, n)
      BY <1>2, <2>1, <2>9, <3>1, <3>3 DEF Exact
    <3>6. (q.row_ready_ <=> IsLast(n))
      BY <3>1, <3>3 DEF Inside, Parser
    <3>7. QED
      BY <3>2, <3>4, <3>5, <3>6
  <2>10. CASE m.way = "reset" /\ m.at = 3
    <3>1. IsLast(n) /\ Chunk(n) = Second
      BY <1>0, <2>1, <2>10, SentReset
    <3>2. Exact(p, m) => HasFirst(p, m.row)
      BY <1>2, <2>10 DEF Exact
    <3>3. Second = PartTwo => (Exact(p, m) => HasPart(p, m.row))
      BY SecondIs, PartTwoIs DEF NoName
    <3>4. Inside(p, m.row) /\ ~p.row_ready_
      BY <2>3, <2>10
    <3>5. QED
      BY <2>4, <3>1, <3>2, <3>3, <3>4
  <2>11. CASE m.way = "garbled"
    <3>1. Chunk(n) = Foreign(n.row)
      BY <1>0, <2>1, <2>2, <2>11, SentGarbled
    <3>2. Inside(p, m.row)
      BY <2>3, <2>11
    <3>3. QED
      BY <1>0, <2>1, <2>2, <3>1, <3>2, HandleForeign
  <2>12. QED
    BY <2>1, <2>2, <2>5, <2>6, <2>7, <2>8, <2>9, <2>10, <2>11
<1>3. QED
  BY <1>0, <1>1, <1>2

------------------------------------------------------------------------------
(* The inductive invariant.                                                 *)

(* The last chunk that the parser has got.                                  *)
Handled == IF response_ = <<>> THEN sent ELSE response_[processed_chunks_count_ + 1]

(* The row of the chunk at m was returned, or nothing came before.          *)
Taken(m) == IsLast(m) /\ ~parser_.row_ready_

(* A reader that may still return rows of the open stream.                  *)
Live ==
  \/ mode = "sync" /\ pc \in {"advance", "row"} /\ ~operation_cancelled_
  \/ mode = "async" /\ pc = "stream" /\ status_ = "OK"

RowType == [row_key : Int, cells : Seq(Cell)]

ReaderTypeInv ==
  /\ mode \in {"sync", "async"}
  /\ asked \in RowSet /\ row_set_ \in RowSet
  /\ rows_limit_ \in Nat /\ rows_count_ \in Nat /\ last_read_row_key_ \in Key
  /\ returned \in Seq(RowType)

(* What each reader never does: RowReader retries only after a failure, and *)
(* AsyncRowReader keeps no response.                                        *)
ControlInv ==
  /\ mode = "sync" =>
       /\ pc \in {"start", "advance", "row", "failed", "end", "destroyed"}
       /\ pc = "failed" => status_ # "OK"
       /\ pc = "start" => rows_count_ = 0 /\ last_read_row_key_ = NoKey
       /\ pc \in {"advance", "failed"} => ~operation_cancelled_
       /\ rows_limit_ # NO_ROWS_LIMIT => rows_count_ <= rows_limit_
  /\ mode = "async" => pc \in {"start", "stream", "end"} /\ response_ = <<>>

(* Only rows that were returned are not asked for any more.                 *)
AskedInv ==
  \A k \in Key :
    /\ Matches(row_set_, k) => Matches(asked, k)
    /\ Matches(asked, k) /\ ~Matches(row_set_, k) => k <= last_read_row_key_

(* The rows returned are those asked for up to the last one.                *)
ReturnedInv ==
  /\ rows_count_ = Len(returned)
  /\ \A i \in 1..Len(returned) :
       /\ returned[i].row_key \in Asked /\ returned[i].row_key <= last_read_row_key_
       /\ \A j \in 1..Len(returned) : i < j => returned[i].row_key < returned[j].row_key
       /\ mode = "sync" => returned[i] = RowOf(returned[i].row_key)
  /\ \A k \in Asked : k <= last_read_row_key_ => \E i \in 1..Len(returned) : returned[i].row_key = k

(* The rows of the stream up to m are returned, except one that is not      *)
(* complete or was not taken from the parser.                               *)
FrontierInv(m) ==
  IF Taken(m)
    THEN \A k \in TableRows : Matches(row_set_, k) => (k <= m.row <=> k <= last_read_row_key_)
    ELSE /\ last_read_row_key_ < m.row
         /\ \A k \in TableRows : Matches(row_set_, k) /\ k < m.row => k <= last_read_row_key_

(* The limit of the request and the rows that came with it make the limit.  *)
LimitInv(m) ==
  /\ rows_limit_ = NO_ROWS_LIMIT => requested = NO_ROWS_LIMIT
  /\ rows_limit_ # NO_ROWS_LIMIT =>
       /\ mode = "sync" => requested > 0
       /\ IF requested <= 0 THEN rows_count_ >= rows_limit_
          ELSE rows_count_ + requested = rows_limit_ + (IF Taken(m) THEN m.nth ELSE m.nth - 1)

(* The chunks of the response are the ones sent last.                       *)
ResponseInv ==
  /\ mode = "sync" => processed_chunks_count_ \in Nat
  /\ response_ # <<>> =>
       /\ response_ \in Seq(Place)
       /\ processed_chunks_count_ \in Nat /\ processed_chunks_count_ < Len(response_)
       /\ sent = response_[Len(response_)]
       /\ \A i \in 1..Len(response_) : InStream(response_[i])
       /\ \A i \in 1..(Len(response_) - 1) : response_[i + 1] \in Following(response_[i])

(* The reader, once its parser has got the chunk at m.                      *)
ReaderAt(m) ==
  /\ InStream(m) /\ FrontierInv(m) /\ LimitInv(m)
  /\ Shape(parser_, m) /\ (mode = "sync" => Exact(parser_, m))

StreamInv ==
  Live => requested \in Int /\ ResponseInv /\ \A m \in {Handled} : ReaderAt(m)

(* What is left in the parser of AsyncRowReader between two attempts are    *)
(* cells of the row that comes first in the next one.                       *)
LeftoverInv ==
  mode = "async" /\ pc = "start" /\ status_ = "OK" =>
    /\ parser_ \in Parser /\ ~parser_.row_ready_
    /\ parser_.cells_ # <<>> =>
         \A k \in TableRows : IsNext(k, last_read_row_key_) => parser_.row_key_ = k

(* A read that ended well has returned all that it was asked for.           *)
EndInv ==
  pc = "end" /\ FinalStatus = "OK" =>
    \/ \A k \in Asked : k <= last_read_row_key_
    \/ rows_limit_ # NO_ROWS_LIMIT /\ rows_limit_ <= rows_count_

ReadInv ==
  /\ ReaderTypeInv /\ ControlInv /\ AskedInv /\ ReturnedInv
  /\ StreamInv /\ LeftoverInv /\ EndInv

LEMMA RowCells ==
  ASSUME NEW k \in Int
  PROVE  RowOf(k) = [row_key |-> k, cells |-> <<CellOf(k, 1), CellOf(k, 2)>>]
<1> DEFINE f == [c \in 1..2 |-> CellOf(k, c)]
           t == <<CellOf(k, 1), CellOf(k, 2)>>
<1>1. \A c \in 1..2 : CellOf(k, c) \in Cell
  BY CellOfIs
<1>2. f \in Seq(Cell) /\ Len(f) = 2
  BY <1>1
<1>3. t \in Seq(Cell) /\ Len(t) = 2
  BY <1>1
<1>4. f[1] = t[1] /\ f[2] = t[2]
  OBVIOUS
<1>5. \A i \in 1..2 : i = 1 \/ i = 2
  OBVIOUS
<1> HIDE DEF f, t
<1>6. f = t
  BY <1>2, <1>3, <1>4, <1>5, SameSeq
<1>7. RowOf(k) = [row_key |-> k, cells |-> f]
  BY DEF RowOf, f, CellOf
<1>8. QED
  BY <1>6, <1>7 DEF t

(* What is asked for after a failure.                                       *)
LEMMA RestOfIs ==
  ASSUME NEW set \in RowSet, last_read_row_key_ \in Key
  PROVE  /\ RestOf(set) \in RowSet
         /\ \A k \in Key : Matches(RestOf(set), k)
                             <=> /\ Matches(set, k)
                                 /\ last_read_row_key_ = NoKey \/ last_read_row_key_ < k
<1>1. CASE last_read_row_key_ = NoKey
  BY <1>1 DEF RestOf
<1>2. CASE last_read_row_key_ # NoKey
  <2> DEFINE r == OpenFrom(last_read_row_key_)
  <2>1. r \in Range
    BY KeyAssumption DEF OpenFrom, MakeRange, Range, Case
  <2>2. \A k \in Key : Contains(r, k) <=> last_read_row_key_ < k
    <3>1. /\ r.start_case = "OPEN" /\ r.start_key = last_read_row_key_
          /\ r.end_case = "NOT_SET"
      BY DEF OpenFrom, MakeRange
    <3> HIDE DEF r
    <3>2. \A k \in Key : BelowStart(r, k) <=> k <= last_read_row_key_
      BY <3>1 DEF BelowStart
    <3>3. \A k \in Key : ~AboveEnd(r, k)
      BY <3>1 DEF AboveEnd
    <3>4. QED
      BY <3>2, <3>3, KeyAssumption DEF Contains
  <2>3. RestOf(set) = SetIntersect(set, r)
    BY <1>2 DEF RestOf
  <2> HIDE DEF r
  <2>4. QED
    BY <1>2, <2>1, <2>2, <2>3, SetIntersectExact
<1>3. QED
  BY <1>1, <1>2

(* The responses that AdvanceRead chooses from.                             *)
LEMMA ResponsesAre ==
  ASSUME NEW r \in Responses, r # <<>>
  PROVE  \/ \E a \in Following(sent) : r = <<a>>
         \/ \E a \in Following(sent) : \E b \in Following(a) : r = <<a, b>>
<1> DEFINE E == Extended({<<>>})
<1>1. \A e \in E : e = <<>> \/ \E a \in Following(sent) : e = <<a>>
  <2>1. \A a : Append(<<>>, a) = <<a>>
    OBVIOUS
  <2>2. QED
    BY <2>1 DEF Extended
<1> HIDE DEF E
<1>2. r \in E \/ \E e \in E : \E b \in Following(IF e = <<>> THEN sent ELSE e[Len(e)]) :
                    r = Append(e, b)
  BY DEF Responses, Extended, E
<1>3. CASE r \in E
  BY <1>1, <1>3
<1>4. ASSUME NEW e \in E, NEW b \in Following(IF e = <<>> THEN sent ELSE e[Len(e)]),
             r = Append(e, b)
      PROVE  \/ \E a \in Following(sent) : r = <<a>>
             \/ \E a \in Following(sent) : \E c \in Following(a) : r = <<a, c>>
  <2>1. CASE e = <<>>
    BY <1>4, <2>1
  <2>2. CASE e # <<>>
    <3>1. PICK a \in Following(sent) : e = <<a>>
      BY <1>1, <2>2
    <3>2. e[Len(e)] = a
      BY <3>1
    <3>3. b \in Following(a)
      BY <1>4, <2>2, <3>2
    <3>4. r = <<a, b>>
      <4> DEFINE S == {a, b}
      <4>1. a \in S /\ b \in S
        OBVIOUS
      <4> HIDE DEF S
      <4>2. Append(<<a>>, b) = <<a, b>>
        BY <4>1, AppendToOne
      <4>3. QED
        BY <1>4, <3>1, <4>2
    <3>5. QED
      BY <3>3, <3>4
  <2>3. QED
    BY <2>1, <2>2
<1>5. QED
  BY <1>2, <1>3, <1>4

------------------------------------------------------------------------------
(* What the steps of the readers have in common.                            *)

(* Nothing is asked for or returned.                                        *)
LEMMA NothingReturned ==
  ASSUME ReaderTypeInv, AskedInv, ReturnedInv,
         UNCHANGED <<mode, asked, rows_limit_, row_set_, rows_count_, last_read_row_key_, returned>>
  PROVE  ReaderTypeInv' /\ AskedInv' /\ ReturnedInv'
<1>1. ReaderTypeInv'
  BY DEF ReaderTypeInv
<1>2. AskedInv'
  BY DEF AskedInv
<1>3. ReturnedInv'
  BY DEF ReturnedInv, Asked
<1>4. QED
  BY <1>1, <1>2, <1>3

(* The stream goes on.                                                      *)
LEMMA SameStream ==
  ASSUME UNCHANGED <<row_set_, requested>>, NEW m
  PROVE  /\ InStream(m)' <=> InStream(m)
         /\ Following(m)' = Following(m)
         /\ \A k, key : IsNext(k, key)' <=> IsNext(k, key)
<1>1. InStream(m)' <=> InStream(m)
  BY DEF InStream
<1>2. Following(m)' = Following(m)
  BY DEF Following, RowsAfter
<1>3. \A k, key : IsNext(k, key)' <=> IsNext(k, key)
  BY DEF IsNext, RowsAfter
<1>4. QED
  BY <1>1, <1>2, <1>3

LEMMA SameReader ==
  ASSUME UNCHANGED <<mode, rows_limit_, row_set_, rows_count_, last_read_row_key_,
                     requested, parser_>>,
         NEW m, ReaderAt(m)
  PROVE  ReaderAt(m)'
<1>1. InStream(m)'
  BY SameStream DEF ReaderAt
<1>2. FrontierInv(m)'
  BY DEF ReaderAt, FrontierInv, Taken
<1>3. LimitInv(m)'
  BY DEF ReaderAt, LimitInv, Taken
<1>4. Shape(parser_, m)'
  BY SameStream DEF ReaderAt, Shape
<1>5. (mode = "sync" => Exact(parser_, m))'
  BY DEF ReaderAt
<1>6. QED
  BY <1>1, <1>2, <1>3, <1>4, <1>5 DEF ReaderAt

(* The parser gets the next chunk of the stream.                            *)
LEMMA ChunkStep ==
  ASSUME ReaderTypeInv, NEW m, NEW n \in Following(m), ReaderAt(m), requested \in Int,
         HandleChunk(parser_, Chunk(n)).status = "OK",
         parser_' = HandleChunk(parser_, Chunk(n)).parser,
         UNCHANGED <<mode, rows_limit_, row_set_, rows_count_, last_read_row_key_, requested>>
  PROVE  ReaderAt(n)'
<1> DEFINE q == HandleChunk(parser_, Chunk(n)).parser
<1>0. /\ InStream(m) /\ FrontierInv(m) /\ LimitInv(m) /\ Shape(parser_, m)
      /\ mode = "sync" => Exact(parser_, m)
  BY DEF ReaderAt
<1>1. /\ Shape(q, n) /\ (q.row_ready_ <=> IsLast(n)) /\ ~parser_.row_ready_
      /\ Exact(parser_, m) => Exact(q, n)
  BY <1>0, ChunkShape
<1>2. /\ InStream(n)
      /\ ~IsLast(m) => n = [m EXCEPT !.at = m.at + 1]
      /\ IsLast(m) => IsNext(n.row, m.row) /\ n.row \in TableRows /\ n.nth = m.nth + 1
  BY <1>0, FollowingIs
<1>3. parser_' = q
  OBVIOUS
<1> HIDE DEF q
<1>4. InStream(n)'
  BY <1>2, SameStream
<1>5. Shape(parser_, n)'
  BY <1>1, <1>3, SameStream DEF Shape
<1>6. (mode = "sync" => Exact(parser_, n))'
  BY <1>0, <1>1, <1>3
<1>7. ~Taken(n)' /\ (Taken(m) <=> IsLast(m))
  BY <1>1, <1>3 DEF Taken
<1>8. m \in Place /\ m.row \in Int /\ m.nth \in Int /\ n.row \in Int
  BY <1>0, <1>2 DEF InStream, Place
<1>9. ~IsLast(m) => n.row = m.row /\ n.nth = m.nth
  BY <1>2, <1>8 DEF Place
<1>10. last_read_row_key_ \in Int
  BY KeyAssumption DEF ReaderTypeInv
<1>11. FrontierInv(n)'
  <2>1. SUFFICES /\ last_read_row_key_ < n.row
                 /\ \A k \in TableRows :
                      Matches(row_set_, k) /\ k < n.row => k <= last_read_row_key_
    BY <1>7 DEF FrontierInv
  <2>2. CASE ~IsLast(m)
    BY <1>0, <1>7, <1>9, <2>2 DEF FrontierInv
  <2>3. CASE IsLast(m)
    <3>1. \A k \in TableRows : Matches(row_set_, k) => (k <= m.row <=> k <= last_read_row_key_)
      BY <1>0, <1>7, <2>3 DEF FrontierInv
    <3>2. /\ n.row \in TableRows /\ Matches(row_set_, n.row) /\ m.row < n.row
          /\ \A k \in TableRows : Matches(row_set_, k) /\ m.row < k => n.row <= k
      BY <1>2, <2>3 DEF IsNext, RowsAfter
    <3>3. TableRows \subseteq Int
      BY TableKeys
    <3>4. QED
      BY <1>8, <1>10, <3>1, <3>2, <3>3
  <2>4. QED
    BY <2>2, <2>3
<1>12. LimitInv(n)'
  <2>1. n.nth - 1 = IF Taken(m) THEN m.nth ELSE m.nth - 1
    BY <1>2, <1>7, <1>8, <1>9
  <2>2. QED
    BY <1>0, <1>7, <2>1 DEF LimitInv
<1>13. QED
  BY <1>4, <1>5, <1>6, <1>11, <1>12 DEF ReaderAt

(* A stream is opened for the rows after the last one that was returned.    *)
LEMMA OpenStep ==
  ASSUME ReaderTypeInv', OpenStream(RequestLimit),
         UNCHANGED <<mode, rows_limit_, rows_count_, last_read_row_key_>>,
         \A k \in TableRows : Matches(row_set_', k) => last_read_row_key_ < k,
         mode = "sync" /\ rows_limit_ # NO_ROWS_LIMIT => rows_count_ < rows_limit_,
         parser_' \in Parser, ~parser_'.row_ready_,
         mode = "sync" => Clean(parser_'),
         parser_'.cells_ # <<>> =>
           \A k \in TableRows : IsNext(k, NoKey)' => parser_'.row_key_ = k
  PROVE  requested' \in Int /\ sent' = Nothing /\ ReaderAt(Nothing)'
<1>1. sent' = Nothing /\ requested' = RequestLimit
  BY DEF OpenStream
<1>2. /\ rows_limit_ \in Nat /\ rows_count_ \in Nat /\ last_read_row_key_ \in Int
      /\ last_read_row_key_ >= 0
  BY TableKeys DEF ReaderTypeInv
<1>3. requested' \in Int
  BY <1>1, <1>2 DEF RequestLimit, NO_ROWS_LIMIT
<1>4. Taken(Nothing)'
  BY NothingIs DEF Taken
<1>5. InStream(Nothing)'
  BY NothingIs DEF InStream
<1>6. FrontierInv(Nothing)'
  <2>1. \A k \in TableRows : Matches(row_set_', k) => (k <= NoKey <=> k <= last_read_row_key_)
    <3>1. \A k \in TableRows : k \in Int /\ k > 0
      BY TableKeys DEF NoKey
    <3>2. QED
      BY <1>2, <3>1 DEF NoKey
  <2>2. QED
    BY <1>4, <2>1, NothingIs DEF FrontierInv
<1>7. LimitInv(Nothing)'
  <2>1. rows_limit_ = NO_ROWS_LIMIT => requested' = NO_ROWS_LIMIT
    BY <1>1 DEF RequestLimit
  <2>2. rows_limit_ # NO_ROWS_LIMIT => requested' = rows_limit_ - rows_count_
    BY <1>1 DEF RequestLimit
  <2>3. QED
    BY <1>2, <1>4, <2>1, <2>2, NothingIs DEF LimitInv, NO_ROWS_LIMIT
<1>8. Shape(parser_, Nothing)'
  BY NothingIs DEF Shape
<1>9. (mode = "sync" => Exact(parser_, Nothing))'
  BY NothingIs DEF Exact
<1>10. QED
  BY <1>1, <1>3, <1>5, <1>6, <1>7, <1>8, <1>9 DEF ReaderAt

(* The row is taken from the parser.                                        *)
LEMMA TakeStep ==
  ASSUME ReaderTypeInv, AskedInv, ReturnedInv, NEW m, ReaderAt(m), requested \in Int,
         parser_.row_ready_, TakeRow,
         UNCHANGED <<mode, asked, rows_limit_, row_set_, requested>>
  PROVE  /\ ReaderTypeInv' /\ AskedInv' /\ ReturnedInv' /\ ReaderAt(m)'
         /\ mode = "sync" /\ rows_limit_ # NO_ROWS_LIMIT => rows_count_' <= rows_limit_
<1> DEFINE p == parser_
           row == Row(p)
<1>0. /\ InStream(m) /\ FrontierInv(m) /\ LimitInv(m) /\ Shape(p, m)
      /\ mode = "sync" => Exact(p, m)
  BY DEF ReaderAt
<1>1. p \in Parser /\ IsLast(m) /\ p.row_key_ = m.row
  BY <1>0 DEF Shape, Inside
<1>2. row.row_key = m.row /\ row \in RowType
  BY <1>1 DEF Row, RowType, Parser
<1>3. /\ parser_' = AfterNext(p) /\ rows_count_' = rows_count_ + 1
      /\ last_read_row_key_' = m.row /\ returned' = Append(returned, row)
  BY <1>2 DEF TakeRow
<1>4. mode = "sync" => row = RowOf(m.row) /\ Clean(AfterNext(p))
  <2> SUFFICES ASSUME mode = "sync" PROVE row = RowOf(m.row) /\ Clean(AfterNext(p))
    OBVIOUS
  <2>1. HasBoth(p, m.row)
    BY <1>0, <1>1 DEF Exact
  <2>2. row = RowOf(m.row)
    BY <1>1, <2>1, RowCells DEF HasBoth, Row, Parser
  <2>3. Clean(AfterNext(p))
    BY <1>1, <2>1 DEF HasBoth, AfterNext, Clean, Parser
  <2>4. QED
    BY <2>2, <2>3
<1>5. /\ AfterNext(p) \in Parser /\ AfterNext(p).row_ready_ = FALSE
      /\ AfterNext(p).cells_ = <<>>
  <2>1. <<>> \in Seq(Cell) /\ NoKey \in Int
    BY DEF NoKey
  <2>2. QED
    BY <1>1, <2>1 DEF AfterNext, Parser
<1> HIDE DEF row
<1>6. m.row \in Int /\ m.nth \in Int /\ last_read_row_key_ \in Int
  BY <1>0, KeyAssumption DEF InStream, Place, ReaderTypeInv
<1>7. ~Taken(m) /\ Taken(m)'
  BY <1>1, <1>3, <1>5 DEF Taken
<1>8. /\ last_read_row_key_ < m.row
      /\ \A k \in TableRows : Matches(row_set_, k) /\ k < m.row => k <= last_read_row_key_
  BY <1>0, <1>7 DEF FrontierInv
<1>9. m # Nothing
  <2>1. last_read_row_key_ >= 0
    BY TableKeys DEF ReaderTypeInv
  <2>2. QED
    BY <1>6, <1>8, <2>1, NothingIs DEF NoKey
<1>10. /\ m.row \in TableRows /\ Matches(row_set_, m.row) /\ m.row \in Key
       /\ m.nth > 0 /\ (requested = NO_ROWS_LIMIT \/ m.nth <= requested)
  BY <1>0, <1>9, ReadRowsAssumption DEF InStream
<1>11. m.row \in Asked
  BY <1>10 DEF AskedInv, Asked
<1>12. ReaderTypeInv'
  BY <1>2, <1>3, <1>10 DEF ReaderTypeInv
<1>13. AskedInv'
  <2> SUFFICES ASSUME NEW k \in Key
               PROVE  /\ Matches(row_set_, k) => Matches(asked, k)
                      /\ Matches(asked, k) /\ ~Matches(row_set_, k) => k <= m.row
    BY <1>3 DEF AskedInv
  <2>1. k \in Int
    BY KeyAssumption
  <2>2. QED
    BY <1>6, <1>8, <2>1 DEF AskedInv
<1>14. ReturnedInv'
  <2> DEFINE R == returned'
             n == Len(returned)
  <2>1. /\ returned \in Seq(RowType) /\ n \in Nat /\ rows_count_ = n
        /\ Len(R) = n + 1 /\ R[n + 1] = row /\ \A i \in 1..n : R[i] = returned[i]
    BY <1>2, <1>3 DEF ReaderTypeInv, ReturnedInv
  <2>2. \A i \in 1..n :
          /\ R[i].row_key \in Asked /\ R[i].row_key \in Int /\ R[i].row_key < m.row
          /\ \A j \in 1..n : i < j => R[i].row_key < R[j].row_key
          /\ mode = "sync" => R[i] = RowOf(R[i].row_key)
    <3>1. \A i \in 1..n : returned[i].row_key \in Asked /\ returned[i].row_key <= last_read_row_key_
      BY DEF ReturnedInv
    <3>2. \A k \in Asked : k \in Int
      BY TableKeys DEF Asked
    <3>3. \A i \in 1..n : returned[i].row_key \in Int /\ returned[i].row_key < m.row
      <4> TAKE i \in 1..n
      <4> DEFINE k == returned[i].row_key
      <4>1. k \in Int /\ k <= last_read_row_key_
        BY <3>1, <3>2
      <4> HIDE DEF k
      <4>2. k < m.row
        BY <1>6, <1>8, <4>1
      <4>3. QED
        BY <4>1, <4>2 DEF k
    <3>4. QED
      BY <2>1, <3>1, <3>3 DEF ReturnedInv
  <2>3. /\ R[n + 1].row_key = m.row /\ (mode = "sync" => R[n + 1] = RowOf(R[n + 1].row_key))
    BY <1>2, <1>4, <2>1
  <2>4. \A k \in Asked : k <= m.row => \E i \in 1..(n + 1) : R[i].row_key = k
    <3> SUFFICES ASSUME NEW k \in Asked, k <= m.row
                 PROVE  \E i \in 1..(n + 1) : R[i].row_key = k
      OBVIOUS
    <3>1. k \in TableRows /\ k \in Key /\ k \in Int /\ Matches(asked, k)
      BY ReadRowsAssumption, TableKeys DEF Asked
    <3>2. CASE k = m.row
      BY <2>1, <2>3, <3>2
    <3>3. CASE k # m.row
      <4>1. k <= last_read_row_key_
        BY <1>6, <1>8, <3>1, <3>3 DEF AskedInv
      <4>2. PICK i \in 1..n : returned[i].row_key = k
        BY <4>1 DEF ReturnedInv
      <4>3. QED
        BY <2>1, <4>2
    <3>4. QED
      BY <3>2, <3>3
  <2> HIDE DEF n
  <2>5. \A i \in 1..(n + 1) : i \in 1..n \/ i = n + 1
    BY <2>1
  <2>6. \A i \in 1..(n + 1) :
          /\ R[i].row_key \in Asked /\ R[i].row_key <= m.row
          /\ \A j \in 1..(n + 1) : i < j => R[i].row_key < R[j].row_key
          /\ mode = "sync" => R[i] = RowOf(R[i].row_key)
    <3> SUFFICES ASSUME NEW i \in 1..(n + 1)
                 PROVE  /\ R[i].row_key \in Asked /\ R[i].row_key <= m.row
                        /\ \A j \in 1..(n + 1) : i < j => R[i].row_key < R[j].row_key
                        /\ mode = "sync" => R[i] = RowOf(R[i].row_key)
      OBVIOUS
    <3>1. CASE i = n + 1
      <4>1. \A j \in 1..(n + 1) : ~(i < j)
        BY <2>1, <3>1
      <4>2. QED
        BY <1>6, <1>11, <2>3, <3>1, <4>1
    <3>2. CASE i \in 1..n
      <4>1. R[i].row_key <= m.row
        BY <1>6, <2>2, <3>2
      <4>2. QED
        BY <2>2, <2>3, <2>5, <3>2, <4>1
    <3>3. QED
      BY <2>5, <3>1, <3>2
  <2>7. Asked' = Asked
    BY DEF Asked
  <2>8. rows_count_' = Len(R)
    BY <1>3, <2>1
  <2>9. QED
    BY <1>3, <2>1, <2>4, <2>6, <2>7, <2>8 DEF ReturnedInv
<1>15. InStream(m)'
  BY <1>0, SameStream
<1>16. FrontierInv(m)'
  BY <1>3, <1>7 DEF FrontierInv
<1>17. /\ LimitInv(m)'
       /\ mode = "sync" /\ rows_limit_ # NO_ROWS_LIMIT => rows_count_' <= rows_limit_
  <2>1. /\ rows_limit_ = NO_ROWS_LIMIT => requested = NO_ROWS_LIMIT
        /\ rows_limit_ # NO_ROWS_LIMIT =>
             /\ mode = "sync" => requested > 0
             /\ IF requested <= 0 THEN rows_count_ >= rows_limit_
                ELSE rows_count_ + requested = rows_limit_ + (m.nth - 1)
    BY <1>0, <1>7 DEF LimitInv
  <2>2. rows_count_ \in Nat /\ rows_limit_ \in Nat /\ requested \in Int
    BY DEF ReaderTypeInv
  <2>3. rows_limit_ # NO_ROWS_LIMIT =>
          /\ mode = "sync" => requested > 0
          /\ IF requested <= 0 THEN rows_count_ + 1 >= rows_limit_
             ELSE (rows_count_ + 1) + requested = rows_limit_ + m.nth
    BY <1>6, <2>1, <2>2
  <2>4. LimitInv(m)'
    BY <1>3, <1>7, <2>1, <2>3 DEF LimitInv
  <2>5. QED
    BY <1>3, <1>6, <1>10, <2>1, <2>2, <2>4 DEF NO_ROWS_LIMIT
<1>18. Shape(parser_, m)'
  BY <1>1, <1>3, <1>5 DEF Shape
<1>19. (mode = "sync" => Exact(parser_, m))'
  BY <1>1, <1>3, <1>4, <1>5 DEF Exact
<1>20. QED
  BY <1>12, <1>13, <1>14, <1>15, <1>16, <1>17, <1>18, <1>19 DEF ReaderAt

------------------------------------------------------------------------------
(* The steps of RowReader.                                                  *)

(* The chunk that the parser got last is the one sent last.                 *)
LEMMA LastChunk ==
  ASSUME StreamInv, Live, processed_chunks_count_ + 1 >= Len(response_)
  PROVE  Handled = sent /\ InStream(sent)
<1>1. ReaderAt(Handled) /\ ResponseInv
  BY DEF StreamInv
<1>2. Handled = sent
  <2>1. CASE response_ = <<>>
    BY <2>1 DEF Handled
  <2>2. CASE response_ # <<>>
    <3>1. /\ processed_chunks_count_ \in Nat /\ Len(response_) \in Nat
          /\ processed_chunks_count_ < Len(response_) /\ sent = response_[Len(response_)]
      BY <1>1, <2>2 DEF ResponseInv
    <3>2. processed_chunks_count_ + 1 = Len(response_)
      BY <3>1
    <3>3. QED
      BY <2>2, <3>1, <3>2 DEF Handled
  <2>3. QED
    BY <2>1, <2>2
<1>3. InStream(Handled)
  BY <1>1 DEF ReaderAt
<1>4. QED
  BY <1>2, <1>3

LEMMA NewParserIs == NewParser \in Parser /\ Clean(NewParser)
<1>1. NoCell \in Cell
  BY Values DEF NoCell, Cell, NoKey, NoName
<1>2. <<>> \in Seq(Cell)
  OBVIOUS
<1>3. NewParser \in Parser
  BY <1>1, <1>2 DEF NewParser, Parser, NoKey
<1>4. Clean(NewParser)
  BY DEF NewParser, Clean
<1>5. QED
  BY <1>3, <1>4

(* MakeRequest(), once row_set_ holds the rest of what was asked for.       *)
LEMMA RequestStep ==
  ASSUME ReaderTypeInv', mode = "sync", MakeRequest,
         UNCHANGED <<mode, rows_limit_, rows_count_, last_read_row_key_>>,
         \A k \in TableRows : Matches(row_set_', k) => last_read_row_key_ < k,
         rows_limit_ # NO_ROWS_LIMIT => rows_count_ < rows_limit_
  PROVE  StreamInv'
<1>1. /\ response_' = <<>> /\ processed_chunks_count_' = 0
      /\ parser_' = NewParser /\ OpenStream(RequestLimit)
  BY DEF MakeRequest, CreateParser
<1>2. parser_' \in Parser /\ ~parser_'.row_ready_ /\ parser_'.cells_ = <<>> /\ Clean(parser_')
  BY <1>1, NewParserIs DEF Clean
<1>3. requested' \in Int /\ sent' = Nothing /\ ReaderAt(Nothing)'
  BY <1>1, <1>2, OpenStep
<1>4. Handled' = Nothing /\ ResponseInv'
  BY <1>1, <1>3 DEF Handled, ResponseInv
<1>5. QED
  BY <1>3, <1>4 DEF StreamInv

(* Nobody can take rows any more, and the call did not end well.            *)
LEMMA DeadStep ==
  ASSUME ReadInv, UNCHANGED <<inputVars, requestVars, returned>>,
         ControlInv', ~Live', LeftoverInv', pc' = "end" => FinalStatus' # "OK"
  PROVE  ReadInv'
<1>1. ReaderTypeInv' /\ AskedInv' /\ ReturnedInv'
  BY NothingReturned DEF ReadInv, inputVars, requestVars
<1>2. StreamInv' /\ EndInv'
  BY DEF StreamInv, EndInv
<1>3. QED
  BY <1>1, <1>2 DEF ReadInv

LEMMA BeginStep == ASSUME ReadInv, Begin PROVE ReadInv'
<1> USE DEF ReadInv, Begin
<1>0. UNCHANGED <<mode, asked, rows_limit_, row_set_, rows_count_, last_read_row_key_, returned>>
  BY DEF callVars, inputVars, requestVars
<1>1. ReaderTypeInv' /\ AskedInv' /\ ReturnedInv'
  BY <1>0, NothingReturned
<1>2. rows_count_ = 0 /\ last_read_row_key_ = NoKey /\ mode' = "sync"
  BY <1>0 DEF ControlInv
<1>3. LeftoverInv'
  BY <1>2 DEF LeftoverInv
<1>4. CASE operation_cancelled_
  <2>1. status_' = "CANCELLED" /\ pc' = "end"
    BY <1>4
  <2>2. ControlInv' /\ EndInv' /\ StreamInv'
    BY <1>0, <1>2, <2>1 DEF ControlInv, EndInv, StreamInv, FinalStatus, Live
  <2>3. QED
    BY <1>1, <1>3, <2>2
<1>5. CASE ~operation_cancelled_
  <2>1. MakeRequest /\ pc' = "advance" /\ operation_cancelled_' = operation_cancelled_
    BY <1>5
  <2>2. StreamInv'
    <3>1. \A k \in TableRows : last_read_row_key_ < k
      BY <1>2, TableKeys DEF NoKey
    <3>2. rows_limit_ # NO_ROWS_LIMIT => rows_count_ < rows_limit_
      BY <1>2 DEF ReaderTypeInv, NO_ROWS_LIMIT
    <3>3. QED
      BY <1>0, <1>1, <2>1, <3>1, <3>2, RequestStep
  <2>3. ControlInv' /\ EndInv'
    BY <1>0, <1>2, <1>5, <2>1 DEF ControlInv, EndInv
  <2>4. QED
    BY <1>1, <1>3, <2>2, <2>3
<1>6. QED
  BY <1>4, <1>5

LEMMA IncrementStep == ASSUME ReadInv, Increment PROVE ReadInv'
<1> USE DEF ReadInv, Increment
<1>0. /\ UNCHANGED <<mode, asked, rows_limit_, row_set_, rows_count_, last_read_row_key_, returned>>
      /\ UNCHANGED <<parser_, status_, response_, processed_chunks_count_, requested, sent,
                     operation_cancelled_>>
  BY DEF callVars, inputVars, requestVars, streamVars
<1>1. ReaderTypeInv' /\ AskedInv' /\ ReturnedInv'
  BY <1>0, NothingReturned
<1>2. ControlInv' /\ LeftoverInv' /\ EndInv'
  BY <1>0 DEF ControlInv, LeftoverInv, EndInv
<1>3. StreamInv'
  <2>1. requested \in Int /\ ResponseInv /\ ReaderAt(Handled)
    BY DEF StreamInv, Live
  <2>2. ResponseInv'
    BY <1>0, <2>1, SameStream DEF ResponseInv
  <2>3. Handled' = Handled
    BY <1>0 DEF Handled
  <2>4. \A m \in {Handled} : ReaderAt(m)'
    BY <1>0, <2>1, SameReader
  <2>5. QED
    BY <1>0, <2>1, <2>2, <2>3, <2>4 DEF StreamInv
<1>4. QED
  BY <1>1, <1>2, <1>3

(* HandleChunk() in NextChunk(): n is the chunk after the last one.         *)
LEMMA ParseStep ==
  ASSUME ReadInv, mode = "sync", pc = "advance", NEW n \in Following(Handled),
         NEW response \in Seq(Place), NEW index \in Nat, index < Len(response),
         response[index + 1] = n, ParseChunk(response, index),
         sent' = response[Len(response)],
         \A i \in 1..Len(response) : InStream(response[i]),
         \A i \in 1..(Len(response) - 1) : response[i + 1] \in Following(response[i]),
         UNCHANGED <<inputVars, requestVars, returned, requested, operation_cancelled_>>
  PROVE  ReadInv'
<1> DEFINE r == HandleChunk(parser_, Chunk(n))
<1>0. UNCHANGED <<mode, asked, rows_limit_, row_set_, rows_count_, last_read_row_key_, returned,
                  requested, operation_cancelled_>>
  BY DEF inputVars, requestVars
<1>1. ReaderTypeInv' /\ AskedInv' /\ ReturnedInv' /\ ReaderTypeInv
  BY <1>0, NothingReturned DEF ReadInv
<1>2. Live /\ requested \in Int /\ ReaderAt(Handled)
  BY DEF ReadInv, ControlInv, StreamInv, Live
<1>3. /\ response_' = response /\ processed_chunks_count_' = index
      /\ parser_' = r.parser
      /\ r.status = "OK" => pc' = "advance" /\ status_' = status_
      /\ r.status # "OK" => pc' = "failed" /\ status_' # "OK"
  BY DEF ParseChunk
<1>4. ControlInv' /\ LeftoverInv' /\ EndInv'
  BY <1>0, <1>3 DEF ReadInv, ControlInv, LeftoverInv, EndInv
<1>5. CASE r.status = "OK"
  <2>1. ReaderAt(n)'
    BY <1>0, <1>1, <1>2, <1>3, <1>5, ChunkStep
  <2>2. response # <<>>
    OBVIOUS
  <2>3. Handled' = n
    BY <1>3, <2>2 DEF Handled
  <2>4. ResponseInv'
    BY <1>0, <1>3, SameStream DEF ResponseInv
  <2>5. QED
    BY <1>0, <1>1, <1>2, <1>4, <2>1, <2>3, <2>4 DEF StreamInv, ReadInv
<1>6. CASE r.status # "OK"
  <2>1. ~Live'
    BY <1>0, <1>3, <1>6 DEF Live
  <2>2. QED
    BY <1>1, <1>4, <2>1 DEF StreamInv, ReadInv
<1>7. QED
  BY <1>5, <1>6

LEMMA AdvanceChunkStep == ASSUME ReadInv, AdvanceChunk PROVE ReadInv'
<1>0. /\ mode = "sync" /\ pc = "advance"
      /\ processed_chunks_count_ + 1 < Len(response_)
      /\ ParseChunk(response_, processed_chunks_count_ + 1)
      /\ UNCHANGED <<inputVars, requestVars, returned, requested, sent, operation_cancelled_>>
  BY DEF AdvanceChunk, callVars
<1>1. Live /\ ResponseInv
  BY <1>0 DEF ReadInv, ControlInv, StreamInv, Live
<1>2. response_ # <<>>
  <2>1. SUFFICES ASSUME response_ = <<>> PROVE FALSE
    OBVIOUS
  <2>2. Len(response_) = 0
    BY <2>1
  <2>3. QED
    BY <1>0, <1>1, <2>1, <2>2 DEF ResponseInv
<1>3. /\ response_ \in Seq(Place) /\ processed_chunks_count_ \in Nat
      /\ sent = response_[Len(response_)]
      /\ \A i \in 1..Len(response_) : InStream(response_[i])
      /\ \A i \in 1..(Len(response_) - 1) : response_[i + 1] \in Following(response_[i])
  BY <1>1, <1>2 DEF ResponseInv
<1> DEFINE index == processed_chunks_count_ + 1
           n == response_[index + 1]
<1>4. Handled = response_[index] /\ index \in Nat /\ index \in 1..(Len(response_) - 1)
  BY <1>0, <1>2, <1>3 DEF Handled
<1>5. n \in Following(Handled)
  BY <1>3, <1>4
<1>6. QED
  BY <1>0, <1>3, <1>4, <1>5, ParseStep

LEMMA AdvanceReadStep ==
  ASSUME ReadInv, NEW response \in Responses, AdvanceRead(response)
  PROVE  ReadInv'
<1>0. /\ mode = "sync" /\ pc = "advance"
      /\ processed_chunks_count_ + 1 >= Len(response_)
      /\ sent' = IF response = <<>> THEN sent ELSE response[Len(response)]
      /\ UNCHANGED <<inputVars, requestVars, returned, requested, operation_cancelled_>>
  BY DEF AdvanceRead, callVars
<1>1. Live
  BY <1>0 DEF ReadInv, ControlInv, Live
<1>2. Handled = sent /\ InStream(sent) /\ requested \in Int
  BY <1>0, <1>1, LastChunk DEF ReadInv, StreamInv
<1>3. CASE response = <<>>
  <2>0. /\ UNCHANGED <<mode, asked, rows_limit_, row_set_, rows_count_, last_read_row_key_,
                       returned>>
        /\ UNCHANGED <<requested, operation_cancelled_, sent, parser_, status_, pc>>
        /\ response_' = <<>> /\ processed_chunks_count_' = 0
    <3>1. ~(FirstChunk < Len(response))
      BY <1>3 DEF FirstChunk
    <3>2. QED
      BY <1>0, <1>3, <3>1 DEF AdvanceRead, inputVars, requestVars, FirstChunk
  <2>1. ReaderTypeInv' /\ AskedInv' /\ ReturnedInv'
    BY <2>0, NothingReturned DEF ReadInv
  <2>2. ControlInv' /\ LeftoverInv' /\ EndInv'
    BY <1>0, <2>0 DEF ReadInv, ControlInv, LeftoverInv, EndInv
  <2>3. ReaderAt(Handled)
    BY <1>1 DEF ReadInv, StreamInv
  <2>4. \A m \in {Handled} : ReaderAt(m)'
    BY <2>0, <2>3, SameReader
  <2>5. Handled' = Handled
    BY <1>2, <2>0 DEF Handled
  <2>6. ResponseInv'
    BY <2>0 DEF ResponseInv
  <2>7. StreamInv'
    BY <1>2, <2>0, <2>4, <2>5, <2>6 DEF StreamInv
  <2>8. QED
    BY <2>1, <2>2, <2>7 DEF ReadInv
<1>4. CASE response # <<>>
  <2>1. /\ response \in Seq(Place) /\ Len(response) > 0 /\ response[1] \in Following(sent)
        /\ \A i \in 1..Len(response) : InStream(response[i])
        /\ \A i \in 1..(Len(response) - 1) : response[i + 1] \in Following(response[i])
    <3>1. \A a \in Following(sent) : InStream(a) /\ a \in Place
      BY <1>2, FollowingIs DEF InStream
    <3>2. CASE \E a \in Following(sent) : response = <<a>>
      <4>1. PICK a \in Following(sent) : response = <<a>>
        BY <3>2
      <4>2. QED
        BY <3>1, <4>1
    <3>3. CASE \E a \in Following(sent) : \E b \in Following(a) : response = <<a, b>>
      <4>a. PICK a \in Following(sent) : \E b \in Following(a) : response = <<a, b>>
        BY <3>3
      <4>1. PICK b \in Following(a) : response = <<a, b>>
        BY <4>a
      <4>2. InStream(b) /\ b \in Place
        BY <1>2, <3>1, FollowingIs DEF InStream
      <4>3. Len(response) = 2 /\ response[1] = a /\ response[2] = b /\ response \in Seq(Place)
        BY <3>1, <4>1, <4>2
      <4>4. \A i \in 1..2 : i = 1 \/ i = 2
        OBVIOUS
      <4>5. \A i \in 1..(2 - 1) : i = 1
        OBVIOUS
      <4>6. QED
        BY <3>1, <4>2, <4>3, <4>4, <4>5
    <3>4. QED
      BY <1>4, <3>2, <3>3, ResponsesAre
  <2>2. ParseChunk(response, 0)
    BY <2>1 DEF AdvanceRead, FirstChunk
  <2>3. sent' = response[Len(response)] /\ response[0 + 1] \in Following(Handled)
    BY <1>0, <1>2, <1>4, <2>1
  <2>4. QED
    BY <1>0, <2>1, <2>2, <2>3, ParseStep
<1>5. QED
  BY <1>3, <1>4

(* A stream that has nothing more to send has sent what it was asked for.   *)
LEMMA Complete ==
  ASSUME ReaderTypeInv, AskedInv, NEW m, ReaderAt(m), ~parser_.row_ready_, Following(m) = {},
         requested \in Int
  PROVE  \/ \A k \in Asked : k <= last_read_row_key_
         \/ rows_limit_ # NO_ROWS_LIMIT /\ rows_limit_ <= rows_count_
<1>1. IsLast(m)
  <2>1. SUFFICES ASSUME ~IsLast(m) PROVE FALSE
    OBVIOUS
  <2>2. [m EXCEPT !.at = @ + 1] \in Following(m)
    BY <2>1 DEF Following
  <2>3. QED
    BY <2>2
<1>2. Taken(m) /\ m \in Place /\ m.row \in Int /\ m.nth \in Int
  BY <1>1 DEF Taken, ReaderAt, InStream, Place
<1>3. \A k \in TableRows : Matches(row_set_, k) => (k <= m.row <=> k <= last_read_row_key_)
  BY <1>2 DEF ReaderAt, FrontierInv
<1>4. CASE requested # NO_ROWS_LIMIT /\ ~(m.nth < requested)
  <2>1. rows_count_ \in Nat /\ rows_limit_ \in Nat
    BY DEF ReaderTypeInv
  <2>2. /\ rows_limit_ = NO_ROWS_LIMIT => requested = NO_ROWS_LIMIT
        /\ rows_limit_ # NO_ROWS_LIMIT =>
             IF requested <= 0 THEN rows_count_ >= rows_limit_
             ELSE rows_count_ + requested = rows_limit_ + m.nth
    BY <1>2 DEF ReaderAt, LimitInv
  <2>3. QED
    BY <1>2, <1>4, <2>1, <2>2
<1>5. CASE requested = NO_ROWS_LIMIT \/ m.nth < requested
  <2> DEFINE R == RowsAfter(row_set_, m.row)
  <2>1. R = {}
    <3>1. SUFFICES ASSUME R # {} PROVE FALSE
      OBVIOUS
    <3>2. R \subseteq Nat
      BY TableKeys DEF RowsAfter
    <3>3. PICK k \in R : \A q \in R : k <= q
      BY <3>1, <3>2, FirstPosition
    <3>4. "whole" \in Ways
      BY DEF Ways
    <3>5. [row |-> k, way |-> "whole", at |-> 1, nth |-> m.nth + 1] \in Following(m)
      BY <1>1, <1>5, <3>3, <3>4 DEF Following
    <3>6. QED
      BY <3>5
  <2>2. ASSUME NEW k \in Asked PROVE k <= last_read_row_key_
    <3>1. k \in TableRows /\ k \in Key /\ k \in Int /\ Matches(asked, k)
      BY ReadRowsAssumption, TableKeys DEF Asked
    <3>2. CASE ~Matches(row_set_, k)
      BY <3>1, <3>2 DEF AskedInv
    <3>3. CASE Matches(row_set_, k)
      <4>1. ~(m.row < k)
        BY <2>1, <3>1, <3>3 DEF RowsAfter
      <4>2. QED
        BY <1>2, <1>3, <3>1, <3>3, <4>1
    <3>4. QED
      BY <3>2, <3>3
  <2>3. QED
    BY <2>2
<1>6. QED
  BY <1>4, <1>5

LEMMA AdvanceFinishStep ==
  ASSUME ReadInv, NEW st \in Status, AdvanceFinish(st)
  PROVE  ReadInv'
<1>0. /\ mode = "sync" /\ pc = "advance" /\ ~parser_.row_ready_
      /\ processed_chunks_count_ + 1 >= Len(response_)
      /\ st = "OK" => Following(sent) = {}
      /\ UNCHANGED <<mode, asked, rows_limit_, row_set_, rows_count_, last_read_row_key_, returned,
                     operation_cancelled_>>
  BY DEF AdvanceFinish, callVars, inputVars, requestVars, HasNext
<1>1. ReaderTypeInv' /\ AskedInv' /\ ReturnedInv'
  BY <1>0, NothingReturned DEF ReadInv
<1>2. Live
  BY <1>0 DEF ReadInv, ControlInv, Live
<1>3. /\ pc' \in {"end", "failed"} /\ (pc' = "failed" => status_' # "OK")
      /\ pc' = "end" => st = "OK"
  <2>1. CASE st # "OK"
    BY <2>1 DEF AdvanceFinish
  <2>2. CASE st = "OK"
    BY <2>2 DEF AdvanceFinish
  <2>3. QED
    BY <2>1, <2>2
<1>4. ControlInv' /\ LeftoverInv'
  BY <1>0, <1>3 DEF ReadInv, ControlInv, LeftoverInv
<1>5. StreamInv'
  BY <1>0, <1>3 DEF StreamInv, Live
<1>6. EndInv'
  <2>1. CASE pc' = "end"
    <3>1. Following(sent) = {} /\ Handled = sent /\ requested \in Int /\ ReaderAt(Handled)
      BY <1>0, <1>2, <1>3, <2>1, LastChunk DEF ReadInv, StreamInv
    <3>2. \/ \A k \in Asked : k <= last_read_row_key_
          \/ rows_limit_ # NO_ROWS_LIMIT /\ rows_limit_ <= rows_count_
      BY <1>0, <3>1, Complete DEF ReadInv
    <3>3. QED
      BY <1>0, <3>2 DEF EndInv, Asked
  <2>2. CASE pc' # "end"
    BY <2>2 DEF EndInv
  <2>3. QED
    BY <2>1, <2>2
<1>7. QED
  BY <1>1, <1>4, <1>5, <1>6 DEF ReadInv

LEMMA AdvanceRowStep == ASSUME ReadInv, AdvanceRow PROVE ReadInv'
<1>0. /\ mode = "sync" /\ pc = "advance" /\ parser_.row_ready_ /\ TakeRow
      /\ status_' = "OK" /\ pc' = "row"
      /\ UNCHANGED <<mode, asked, rows_limit_, row_set_, response_, processed_chunks_count_,
                     requested, sent, operation_cancelled_>>
  BY DEF AdvanceRow, callVars, inputVars, streamVars, HasNext
<1>1. Live /\ ResponseInv /\ requested \in Int /\ ReaderAt(Handled)
  BY <1>0 DEF ReadInv, ControlInv, StreamInv, Live
<1>2. PICK m : m = Handled
  OBVIOUS
<1>3. /\ ReaderTypeInv' /\ AskedInv' /\ ReturnedInv' /\ ReaderAt(m)'
      /\ rows_limit_ # NO_ROWS_LIMIT => rows_count_' <= rows_limit_
  BY <1>0, <1>1, <1>2, TakeStep DEF ReadInv
<1>4. ResponseInv'
  BY <1>0, <1>1, SameStream DEF ResponseInv
<1>5. Handled' = m
  BY <1>0, <1>2 DEF Handled
<1>6. StreamInv'
  BY <1>0, <1>1, <1>3, <1>4, <1>5 DEF StreamInv
<1>7. ControlInv' /\ LeftoverInv' /\ EndInv'
  BY <1>0, <1>3 DEF ReadInv, ControlInv, LeftoverInv, EndInv
<1>8. QED
  BY <1>3, <1>6, <1>7 DEF ReadInv

(* row_set_ becomes what was not returned of it.                            *)
LEMMA RestStep ==
  ASSUME ReaderTypeInv, AskedInv, ReturnedInv, row_set_' = RestOf(row_set_),
         UNCHANGED <<mode, asked, rows_limit_, rows_count_, last_read_row_key_, returned>>
  PROVE  /\ ReaderTypeInv' /\ AskedInv' /\ ReturnedInv'
         /\ \A k \in TableRows : Matches(row_set_', k) <=>
                                   Matches(row_set_, k) /\ last_read_row_key_ < k
<1>1. /\ row_set_' \in RowSet
      /\ \A k \in Key : Matches(row_set_', k)
                          <=> /\ Matches(row_set_, k)
                              /\ last_read_row_key_ = NoKey \/ last_read_row_key_ < k
  BY RestOfIs DEF ReaderTypeInv
<1>2. ReaderTypeInv'
  BY <1>1 DEF ReaderTypeInv
<1>3. ReturnedInv'
  BY DEF ReturnedInv, Asked
<1>4. last_read_row_key_ \in Int /\ \A k \in Key : k \in Int
  BY KeyAssumption DEF ReaderTypeInv
<1>5. AskedInv'
  <2> SUFFICES ASSUME NEW k \in Key
               PROVE  /\ Matches(row_set_', k) => Matches(asked, k)
                      /\ Matches(asked, k) /\ ~Matches(row_set_', k) => k <= last_read_row_key_
    BY DEF AskedInv
  <2>1. /\ Matches(row_set_, k) => Matches(asked, k)
        /\ Matches(asked, k) /\ ~Matches(row_set_, k) => k <= last_read_row_key_
    BY DEF AskedInv
  <2>2. QED
    BY <1>1, <1>4, <2>1
<1>6. \A k \in TableRows : k \in Key /\ (last_read_row_key_ = NoKey => last_read_row_key_ < k)
  <2>1. \A k \in TableRows : k \in Key /\ k \in Nat /\ k # 0
    BY ReadRowsAssumption, TableKeys DEF NoKey
  <2>2. QED
    BY <2>1 DEF NoKey
<1>7. QED
  BY <1>1, <1>2, <1>3, <1>5, <1>6

LEMMA AdvanceFailedStep == ASSUME ReadInv, AdvanceFailed PROVE ReadInv'
<1>0. /\ mode = "sync" /\ pc = "failed" /\ status_ # "OK"
      /\ UNCHANGED <<mode, asked, rows_limit_, rows_count_, last_read_row_key_, returned,
                     status_, operation_cancelled_>>
  BY DEF AdvanceFailed, callVars, inputVars, ReadInv, ControlInv
<1>1. CASE LimitReached
  <2>1. row_set_' = row_set_ /\ pc' = "end"
    BY <1>1 DEF AdvanceFailed
  <2>2. ControlInv' /\ LeftoverInv' /\ ~Live' /\ FinalStatus' # "OK"
    BY <1>0, <2>1 DEF ReadInv, ControlInv, LeftoverInv, Live, FinalStatus
  <2>3. QED
    BY <1>0, <2>1, <2>2, DeadStep DEF inputVars, requestVars
<1>2. CASE ~LimitReached
  <2>1. row_set_' = RestOf(row_set_)
    BY <1>2 DEF AdvanceFailed
  <2>2. /\ ReaderTypeInv' /\ AskedInv' /\ ReturnedInv'
        /\ \A k \in TableRows : Matches(row_set_', k) => last_read_row_key_ < k
    BY <1>0, <2>1, RestStep DEF ReadInv
  <2>3. pc' = "end" \/ (pc' = "advance" /\ MakeRequest)
    BY <1>2 DEF AdvanceFailed
  <2>4. CASE pc' = "end"
    <3>1. ControlInv' /\ LeftoverInv' /\ ~Live' /\ FinalStatus' # "OK"
      BY <1>0, <2>4 DEF ReadInv, ControlInv, LeftoverInv, Live, FinalStatus
    <3>2. QED
      BY <2>2, <3>1 DEF ReadInv, StreamInv, EndInv
  <2>5. CASE pc' = "advance" /\ MakeRequest
    <3>1. rows_limit_ # NO_ROWS_LIMIT => rows_count_ < rows_limit_
      BY <1>2 DEF LimitReached, ReadInv, ReaderTypeInv
    <3>2. StreamInv'
      BY <1>0, <2>2, <2>5, <3>1, RequestStep
    <3>3. ~operation_cancelled_
      BY <1>0 DEF ReadInv, ControlInv
    <3>4. ControlInv' /\ LeftoverInv' /\ EndInv'
      BY <1>0, <2>5, <3>3 DEF ReadInv, ControlInv, LeftoverInv, EndInv
    <3>5. QED
      BY <2>2, <3>2, <3>4 DEF ReadInv
  <2>6. QED
    BY <2>3, <2>4, <2>5
<1>3. QED
  BY <1>1, <1>2

LEMMA CancelStep == ASSUME ReadInv, Cancel PROVE ReadInv'
<1>0. /\ mode = "sync" /\ pc \in {"start", "row"} /\ operation_cancelled_'
      /\ UNCHANGED <<mode, asked, rows_limit_, row_set_, rows_count_, last_read_row_key_, returned,
                     pc, status_>>
  BY DEF Cancel, CancelBody, callVars, inputVars, requestVars
<1>1. ControlInv' /\ LeftoverInv' /\ ~Live' /\ pc' # "end"
  BY <1>0 DEF ReadInv, ControlInv, LeftoverInv, Live
<1>2. QED
  BY <1>0, <1>1, DeadStep DEF inputVars, requestVars

LEMMA DestroyStep == ASSUME ReadInv, Destroy PROVE ReadInv'
<1>0. /\ mode = "sync" /\ pc' = "destroyed"
      /\ UNCHANGED <<mode, asked, rows_limit_, row_set_, rows_count_, last_read_row_key_, returned>>
  BY DEF Destroy, callVars, inputVars, requestVars
<1>1. ControlInv' /\ LeftoverInv' /\ ~Live' /\ pc' # "end"
  BY <1>0 DEF ReadInv, ControlInv, LeftoverInv, Live
<1>2. QED
  BY <1>0, <1>1, DeadStep DEF inputVars, requestVars

------------------------------------------------------------------------------
(* The steps of AsyncRowReader.                                             *)

LEMMA AsyncStartStep == ASSUME ReadInv, AsyncStart PROVE ReadInv'
<1>0. /\ mode = "async" /\ pc = "start" /\ row_set_' = RestOf(row_set_)
      /\ OpenStream(RequestLimit) /\ pc' = "stream"
      /\ UNCHANGED <<mode, asked, rows_limit_, rows_count_, last_read_row_key_, returned,
                     parser_, status_, response_>>
  BY DEF AsyncStart, callVars, inputVars
<1>1. /\ ReaderTypeInv' /\ AskedInv' /\ ReturnedInv'
      /\ \A k \in TableRows : Matches(row_set_', k) <=>
                                Matches(row_set_, k) /\ last_read_row_key_ < k
  BY <1>0, RestStep DEF ReadInv
<1>2. ControlInv' /\ LeftoverInv' /\ EndInv'
  BY <1>0 DEF ReadInv, ControlInv, LeftoverInv, EndInv
<1>3. StreamInv'
  <2> SUFFICES ASSUME status_ = "OK"
               PROVE  requested' \in Int /\ ResponseInv' /\ \A m \in {Handled'} : ReaderAt(m)'
    BY <1>0 DEF StreamInv, Live
  <2>1. /\ parser_ \in Parser /\ ~parser_.row_ready_
        /\ parser_.cells_ # <<>> =>
             \A k \in TableRows : IsNext(k, last_read_row_key_) => parser_.row_key_ = k
    BY <1>0 DEF ReadInv, LeftoverInv
  <2>2. \A k \in TableRows : IsNext(k, NoKey)' => IsNext(k, last_read_row_key_)
    <3>1. \A k \in TableRows : NoKey < k
      BY TableKeys DEF NoKey
    <3>2. RowsAfter(row_set_, NoKey)' = RowsAfter(row_set_, last_read_row_key_)
      BY <1>1, <3>1 DEF RowsAfter
    <3>3. QED
      BY <3>2 DEF IsNext
  <2>3. requested' \in Int /\ sent' = Nothing /\ ReaderAt(Nothing)'
    BY <1>0, <1>1, <2>1, <2>2, OpenStep
  <2>4. response_' = <<>>
    BY <1>0 DEF ReadInv, ControlInv
  <2>5. QED
    BY <1>0, <2>3, <2>4 DEF ResponseInv, Handled
<1>4. QED
  BY <1>1, <1>2, <1>3 DEF ReadInv

LEMMA AsyncChunkStep == ASSUME ReadInv, AsyncChunk PROVE ReadInv'
<1>1. PICK n \in Following(sent) : n = sent'
  BY DEF AsyncChunk
<1> DEFINE r == HandleChunk(parser_, Chunk(n))
<1>0. /\ mode = "async" /\ pc = "stream"
      /\ parser_' = r.parser /\ status_' = IF r.status = "OK" THEN status_ ELSE r.status
      /\ UNCHANGED <<mode, asked, rows_limit_, row_set_, rows_count_, last_read_row_key_, returned,
                     response_, requested, pc>>
  BY <1>1 DEF AsyncChunk, callVars, inputVars, requestVars
<1>2. ReaderTypeInv' /\ AskedInv' /\ ReturnedInv'
  BY <1>0, NothingReturned DEF ReadInv
<1>3. ControlInv' /\ LeftoverInv' /\ EndInv'
  BY <1>0 DEF ReadInv, ControlInv, LeftoverInv, EndInv
<1>4. response_ = <<>> /\ Handled = sent
  BY <1>0 DEF ReadInv, ControlInv, Handled
<1> HIDE DEF r
<1>5. StreamInv'
  <2> SUFFICES ASSUME Live'
               PROVE  requested' \in Int /\ ResponseInv' /\ \A m \in {Handled'} : ReaderAt(m)'
    BY DEF StreamInv
  <2>1. status_ = "OK" /\ r.status = "OK"
    BY <1>0 DEF Live
  <2>2. requested \in Int /\ ReaderAt(sent)
    BY <1>0, <1>4, <2>1 DEF ReadInv, StreamInv, Live
  <2>3. ReaderAt(n)'
    BY <1>0, <2>1, <2>2, ChunkStep DEF ReadInv, r
  <2>4. Handled' = n
    BY <1>0, <1>1, <1>4 DEF Handled
  <2>5. QED
    BY <1>0, <1>4, <2>2, <2>3, <2>4 DEF ResponseInv
<1>6. QED
  BY <1>2, <1>3, <1>5 DEF ReadInv

LEMMA AsyncRowStep == ASSUME ReadInv, AsyncRow PROVE ReadInv'
<1>0. /\ mode = "async" /\ pc = "stream" /\ parser_.row_ready_ /\ status_ = "OK" /\ TakeRow
      /\ UNCHANGED <<mode, asked, rows_limit_, row_set_, response_, requested, sent, status_, pc>>
  BY DEF AsyncRow, callVars, inputVars, streamVars, HasNext
<1>1. response_ = <<>> /\ Handled = sent /\ requested \in Int /\ ReaderAt(Handled)
  BY <1>0 DEF ReadInv, ControlInv, StreamInv, Live, Handled
<1>2. PICK m : m = Handled
  OBVIOUS
<1>3. ReaderTypeInv' /\ AskedInv' /\ ReturnedInv' /\ ReaderAt(m)'
  BY <1>0, <1>1, <1>2, TakeStep DEF ReadInv
<1>4. Handled' = m /\ ResponseInv'
  BY <1>0, <1>1, <1>2 DEF Handled, ResponseInv
<1>5. StreamInv'
  BY <1>0, <1>1, <1>3, <1>4 DEF StreamInv
<1>6. ControlInv' /\ LeftoverInv' /\ EndInv'
  BY <1>0 DEF ReadInv, ControlInv, LeftoverInv, EndInv
<1>7. QED
  BY <1>3, <1>5, <1>6 DEF ReadInv

LEMMA EndOfStreamIs ==
  ASSUME NEW p \in Parser
  PROVE  LET q == HandleEndOfStream(p).parser
         IN  /\ q \in Parser /\ q.row_ready_ = p.row_ready_ /\ q.cells_ = p.cells_
             /\ q.row_key_ = p.row_key_
<1> DEFINE q == [p EXCEPT !.end_of_stream_ = TRUE]
<1>1. /\ q \in Parser /\ q.row_ready_ = p.row_ready_ /\ q.cells_ = p.cells_
      /\ q.row_key_ = p.row_key_
  BY DEF Parser
<1>2. HandleEndOfStream(p).parser = p \/ HandleEndOfStream(p).parser = q
  BY DEF HandleEndOfStream, Ok, Internal
<1> HIDE DEF q
<1>3. QED
  BY <1>1, <1>2

(* Cells that are left of a broken stream are of the first row of the next. *)
LEMMA LeftCells ==
  ASSUME ReaderTypeInv, NEW m, ReaderAt(m), ~parser_.row_ready_, parser_.cells_ # <<>>,
         NEW k \in TableRows, IsNext(k, last_read_row_key_)
  PROVE  parser_.row_key_ = k
<1>1. /\ InStream(m) /\ FrontierInv(m) /\ Shape(parser_, m)
      /\ last_read_row_key_ \in Int /\ TableRows \subseteq Int
  BY KeyAssumption, ReadRowsAssumption DEF ReaderAt, ReaderTypeInv
<1>2. m \in Place /\ m.row \in Int
  BY <1>1 DEF InStream, Place
<1>3. CASE IsLast(m)
  <2>1. \A q \in TableRows : Matches(row_set_, q) => (q <= m.row <=> q <= last_read_row_key_)
    BY <1>1, <1>3 DEF FrontierInv, Taken
  <2>2. RowsAfter(row_set_, m.row) = RowsAfter(row_set_, last_read_row_key_)
    <3>1. \A q \in TableRows : Matches(row_set_, q) => (m.row < q <=> last_read_row_key_ < q)
      <4> SUFFICES ASSUME NEW q \in TableRows, Matches(row_set_, q)
                   PROVE  m.row < q <=> last_read_row_key_ < q
        OBVIOUS
      <4>1. q \in Int /\ (q <= m.row <=> q <= last_read_row_key_)
        BY <1>1, <2>1
      <4>2. m.row \in Int /\ last_read_row_key_ \in Int
        BY <1>1, <1>2
      <4>3. QED
        BY <4>1, <4>2
    <3>2. QED
      BY <3>1 DEF RowsAfter
  <2>3. IsNext(k, m.row)
    BY <2>2 DEF IsNext
  <2>4. QED
    BY <1>1, <1>3, <2>3 DEF Shape
<1>4. CASE ~IsLast(m)
  <2>1. /\ last_read_row_key_ < m.row
        /\ \A q \in TableRows : Matches(row_set_, q) /\ q < m.row => q <= last_read_row_key_
    BY <1>1, <1>4 DEF FrontierInv, Taken
  <2>2. m.row \in TableRows /\ Matches(row_set_, m.row)
    BY <1>1, <1>4, InsideRow
  <2>3. /\ Matches(row_set_, k) /\ last_read_row_key_ < k
        /\ \A q \in TableRows : Matches(row_set_, q) /\ last_read_row_key_ < q => k <= q
    BY DEF IsNext, RowsAfter
  <2>4. k = m.row
    BY <1>1, <1>2, <2>1, <2>2, <2>3
  <2>5. Inside(parser_, m.row)
    BY <1>1, <1>4 DEF Shape
  <2>6. QED
    BY <2>4, <2>5 DEF Inside
<1>5. QED
  BY <1>3, <1>4

LEMMA AsyncFinishStep ==
  ASSUME ReadInv, NEW st \in Status, AsyncFinish(st)
  PROVE  ReadInv'
<1> DEFINE closes == st = "OK" /\ status_ = "OK"
           r      == HandleEndOfStream(parser_)
           final  == IF closes THEN r.status
                     ELSE IF st = "OK" THEN "UNAVAILABLE" ELSE st
<1>0. /\ mode = "async" /\ pc = "stream" /\ (parser_.row_ready_ => status_ # "OK")
      /\ st = "OK" => Following(sent) = {}
      /\ UNCHANGED <<mode, asked, rows_limit_, row_set_, rows_count_, last_read_row_key_, returned,
                     status_, response_>>
  BY DEF AsyncFinish, inputVars, requestVars, HasNext
<1>1. /\ parser_' = IF closes THEN r.parser ELSE parser_
      /\ \/ pc' = "start" /\ done_status' = done_status
         \/ pc' = "end" /\ done_status' = final
  BY DEF AsyncFinish
<1>2. ReaderTypeInv' /\ AskedInv' /\ ReturnedInv'
  BY <1>0, NothingReturned DEF ReadInv
<1>3. ControlInv' /\ StreamInv'
  BY <1>0, <1>1 DEF ReadInv, ControlInv, StreamInv, Live
<1>4. response_ = <<>> /\ Handled = sent
  BY <1>0 DEF ReadInv, ControlInv, Handled
<1>5. status_ = "OK" => requested \in Int /\ ReaderAt(Handled) /\ ~parser_.row_ready_
  BY <1>0 DEF ReadInv, StreamInv, Live
<1>6. LeftoverInv'
  <2> SUFFICES ASSUME status_ = "OK"
               PROVE  /\ parser_' \in Parser /\ ~parser_'.row_ready_
                      /\ parser_'.cells_ # <<>> =>
                           \A k \in TableRows : IsNext(k, last_read_row_key_)'
                                                  => parser_'.row_key_ = k
    BY <1>0 DEF LeftoverInv
  <2>1. parser_ \in Parser
    BY <1>5 DEF ReaderAt, Shape
  <2>2. /\ parser_' \in Parser /\ parser_'.row_ready_ = parser_.row_ready_
        /\ parser_'.cells_ = parser_.cells_ /\ parser_'.row_key_ = parser_.row_key_
    <3>1. CASE closes
      BY <1>1, <2>1, <3>1, EndOfStreamIs
    <3>2. CASE ~closes
      BY <1>1, <2>1, <3>2
    <3>3. QED
      BY <3>1, <3>2
  <2>3. \A k \in TableRows : IsNext(k, last_read_row_key_)' => IsNext(k, last_read_row_key_)
    BY <1>0 DEF IsNext, RowsAfter
  <2>4. QED
    BY <1>5, <2>2, <2>3, LeftCells DEF ReadInv
<1>7. EndInv'
  <2> SUFFICES ASSUME pc' = "end", done_status' = "OK"
               PROVE  \/ \A k \in Asked : k <= last_read_row_key_
                      \/ rows_limit_ # NO_ROWS_LIMIT /\ rows_limit_ <= rows_count_
    BY <1>0 DEF EndInv, FinalStatus, Asked
  <2>1. closes
    BY <1>1
  <2>2. QED
    BY <1>0, <1>4, <1>5, <2>1, Complete DEF ReadInv
<1>8. QED
  BY <1>2, <1>3, <1>6, <1>7 DEF ReadInv

LEMMA AsyncCancelStep == ASSUME ReadInv, AsyncCancel PROVE ReadInv'
<1>0. /\ mode = "async" /\ pc' = "end" /\ done_status' = "CANCELLED"
      /\ UNCHANGED <<mode, asked, rows_limit_, row_set_, rows_count_, last_read_row_key_, returned,
                     response_>>
  BY DEF AsyncCancel, inputVars, requestVars, streamVars
<1>1. ControlInv' /\ LeftoverInv' /\ ~Live' /\ FinalStatus' # "OK"
  BY <1>0 DEF ReadInv, ControlInv, LeftoverInv, Live, FinalStatus
<1>2. QED
  BY <1>0, <1>1, DeadStep DEF inputVars, requestVars

LEMMA StutterStep == ASSUME ReadInv, UNCHANGED vars PROVE ReadInv'
<1>0. /\ UNCHANGED <<mode, asked, rows_limit_, row_set_, rows_count_, last_read_row_key_, returned>>
      /\ UNCHANGED <<parser_, status_, response_, processed_chunks_count_, requested, sent,
                     operation_cancelled_, done_status, pc>>
  BY DEF vars, inputVars, requestVars, streamVars
<1>1. ReaderTypeInv' /\ AskedInv' /\ ReturnedInv'
  BY <1>0, NothingReturned DEF ReadInv
<1>2. ControlInv' /\ EndInv'
  BY <1>0 DEF ReadInv, ControlInv, EndInv, FinalStatus, Asked
<1>3. LeftoverInv'
  BY <1>0 DEF ReadInv, LeftoverInv, IsNext, RowsAfter
<1>4. Live' <=> Live
  BY <1>0 DEF Live
<1>5. StreamInv'
  <2> SUFFICES ASSUME Live
               PROVE  requested' \in Int /\ ResponseInv' /\ \A m \in {Handled'} : ReaderAt(m)'
    BY <1>4 DEF StreamInv
  <2>1. requested \in Int /\ ResponseInv /\ ReaderAt(Handled)
    BY DEF ReadInv, StreamInv
  <2>2. ResponseInv'
    BY <1>0, <2>1, SameStream DEF ResponseInv
  <2>3. \A m \in {Handled} : ReaderAt(m)'
    BY <1>0, <2>1, SameReader
  <2>4. Handled' = Handled
    BY <1>0 DEF Handled
  <2>5. QED
    BY <1>0, <2>1, <2>2, <2>3, <2>4
<1>6. QED
  BY <1>1, <1>2, <1>3, <1>5 DEF ReadInv

LEMMA ReadInvInit == Init => ReadInv
<1> SUFFICES ASSUME Init PROVE ReadInv
  OBVIOUS
<1> USE DEF Init
<1>1. ReaderTypeInv
  <2>1. <<>> \in Seq(RowType)
    OBVIOUS
  <2>2. QED
    BY <2>1, KeyAssumption, ReadRowsAssumption DEF ReaderTypeInv
<1>2. ControlInv
  BY <1>1 DEF ControlInv, ReaderTypeInv, NO_ROWS_LIMIT
<1>3. AskedInv
  BY DEF AskedInv
<1>4. ReturnedInv
  <2>1. Len(returned) = 0 /\ \A i \in 1..0 : FALSE
    OBVIOUS
  <2>2. \A k \in Asked : ~(k <= last_read_row_key_)
    BY TableKeys DEF Asked, NoKey
  <2>3. QED
    BY <2>1, <2>2 DEF ReturnedInv
<1>5. StreamInv /\ EndInv
  BY DEF StreamInv, Live, EndInv
<1>6. LeftoverInv
  BY NewParserIs DEF LeftoverInv, Clean
<1>7. QED
  BY <1>1, <1>2, <1>3, <1>4, <1>5, <1>6 DEF ReadInv

LEMMA ReadInvStep == ASSUME ReadInv, [Next]_vars PROVE ReadInv'
<1>1. CASE Begin \/ Increment \/ Cancel \/ Destroy
  BY <1>1, BeginStep, IncrementStep, CancelStep, DestroyStep
<1>2. CASE Advance
  <2>1. CASE AdvanceChunk \/ AdvanceRow \/ AdvanceFailed
    BY <2>1, AdvanceChunkStep, AdvanceRowStep, AdvanceFailedStep
  <2>2. CASE \E response \in Responses : AdvanceRead(response)
    BY <2>2, AdvanceReadStep
  <2>3. CASE \E st \in Status : AdvanceFinish(st)
    BY <2>3, AdvanceFinishStep
  <2>4. QED
    BY <1>2, <2>1, <2>2, <2>3 DEF Advance
<1>3. CASE Attempt
  <2>1. CASE AsyncStart \/ AsyncChunk \/ AsyncRow
    BY <2>1, AsyncStartStep, AsyncChunkStep, AsyncRowStep
  <2>2. CASE \E st \in Status : AsyncFinish(st)
    BY <2>2, AsyncFinishStep
  <2>3. QED
    BY <1>3, <2>1, <2>2 DEF Attempt
<1>4. CASE AsyncCancel
  BY <1>4, AsyncCancelStep
<1>5. CASE Terminated \/ UNCHANGED vars
  BY <1>5, StutterStep DEF Terminated
<1>6. QED
  BY <1>1, <1>2, <1>3, <1>4, <1>5 DEF Next

LEMMA ReadInvHolds == Spec => []ReadInv
  BY ReadInvInit, ReadInvStep, PTL DEF Spec

------------------------------------------------------------------------------
(* What the application can rely on.                                        *)

LEMMA KeysReturned ==
  ASSUME ReadInv
  PROVE  /\ DOMAIN returned = 1..Len(returned) /\ Len(returned) \in Nat
         /\ \A k \in KeyReturned : k \in Asked /\ k <= last_read_row_key_
         /\ \A k \in Asked : k <= last_read_row_key_ => k \in KeyReturned
<1>1. DOMAIN returned = 1..Len(returned) /\ Len(returned) \in Nat
  BY DEF ReadInv, ReaderTypeInv
<1>2. QED
  BY <1>1 DEF ReadInv, ReturnedInv, KeyReturned

(* Rows are returned in order, none twice and none left out, however often  *)
(* the stream breaks, and RowReader keeps to its limit (row_reader.cc:      *)
(* Advance; async_row_reader.h: Start).                                     *)
THEOREM RowsInOrder == Spec => []NoRowSkipped
<1>1. ReadInv => NoRowSkipped
  <2> SUFFICES ASSUME ReadInv PROVE NoRowSkipped
    OBVIOUS
  <2>1. KeyReturned \subseteq Asked
    BY KeysReturned
  <2>2. \A i, j \in DOMAIN returned : i < j => returned[i].row_key < returned[j].row_key
    BY KeysReturned DEF ReadInv, ReturnedInv
  <2>3. \A k \in KeyReturned, q \in Asked \ KeyReturned : k < q
    <3> TAKE k \in KeyReturned, q \in Asked \ KeyReturned
    <3>1. k \in Asked /\ k <= last_read_row_key_ /\ ~(q <= last_read_row_key_)
      BY KeysReturned
    <3>2. k \in Int /\ q \in Int /\ last_read_row_key_ \in Int
      BY <3>1, TableKeys DEF Asked, ReadInv, ReaderTypeInv
    <3>3. QED
      BY <3>1, <3>2
  <2>4. mode = "sync" /\ rows_limit_ # NO_ROWS_LIMIT => Len(returned) <= rows_limit_
    BY DEF ReadInv, ControlInv, ReturnedInv
  <2>5. QED
    BY <2>1, <2>2, <2>3, <2>4 DEF NoRowSkipped
<1>2. QED
  BY <1>1, ReadInvHolds, PTL

(* An OK at the end means that every row that was asked for was returned,   *)
(* or as many as the limit allows, so ReadRow() and AsyncReadRow() are      *)
(* right about whether a row exists (row_reader.cc: AdvanceOrFail;          *)
(* table.cc: ReadRow).                                                      *)
THEOREM OkIsComplete == Spec => []OkMeansComplete
<1>1. ReadInv => OkMeansComplete
  <2> SUFFICES ASSUME ReadInv, pc = "end" PROVE
        /\ FinalStatus = "OK" =>
             \/ Asked \subseteq KeyReturned
             \/ rows_limit_ # NO_ROWS_LIMIT /\ rows_limit_ <= Len(returned)
        /\ \A k \in Key :
             asked = SingleRow(k) /\ rows_limit_ = 1 /\ RowRead.status = "OK" =>
               RowRead.found = (k \in TableRows)
    BY DEF OkMeansComplete
  <2>1. FinalStatus = "OK" =>
          \/ Asked \subseteq KeyReturned
          \/ rows_limit_ # NO_ROWS_LIMIT /\ rows_limit_ <= Len(returned)
    BY KeysReturned DEF ReadInv, EndInv, ReturnedInv
  <2>2. ASSUME NEW k \in Key, asked = SingleRow(k), rows_limit_ = 1, RowRead.status = "OK"
        PROVE  RowRead.found = (k \in TableRows)
    <3>1. \A q \in Asked : q \in TableRows /\ q = k
      BY <2>2 DEF Asked, Matches, SingleRow, AllRows
    <3>2. k \in TableRows => k \in Asked
      BY <2>2 DEF Asked, Matches, SingleRow
    <3>3. CASE Len(returned) = 1
      <4>1. returned[1].row_key \in Asked
        BY <3>3 DEF ReadInv, ReturnedInv
      <4>2. k \in TableRows
        BY <3>1, <4>1
      <4>3. RowRead.found = TRUE
        BY <2>2, <3>3 DEF RowRead, ReadRow, AsyncReadRow, Found, NotFound
      <4>4. QED
        BY <4>2, <4>3
    <3>4. CASE Len(returned) = 0
      <4>1. RowRead = NotFound(FinalStatus)
        BY <3>4 DEF RowRead, ReadRow, AsyncReadRow, FinalStatus
      <4>2. FinalStatus = "OK" /\ RowRead.found = FALSE
        BY <2>2, <4>1 DEF NotFound
      <4>3. Asked \subseteq KeyReturned
        BY <2>1, <2>2, <3>4, <4>2
      <4>4. KeyReturned = {}
        BY <3>4, KeysReturned DEF KeyReturned
      <4>5. (k \in TableRows) = FALSE
        BY <3>2, <4>3, <4>4
      <4>6. QED
        BY <4>2, <4>5
    <3>5. CASE Len(returned) # 0 /\ Len(returned) # 1
      <4>1. RowRead.status # "OK"
        BY <3>5 DEF RowRead, ReadRow, AsyncReadRow, NotFound
      <4>2. QED
        BY <2>2, <4>1
    <3>6. QED
      BY <3>3, <3>4, <3>5
  <2>3. QED
    BY <2>1, <2>2
<1>2. QED
  BY <1>1, ReadInvHolds, PTL

(* Every row of RowReader has all its cells, each once and with its value,  *)
(* for each stream has a parser of its own (row_reader.cc: MakeRequest).    *)
THEOREM RowsAreWhole == Spec => []RowsWhole
<1>1. ReadInv => RowsWhole
  BY KeysReturned DEF ReadInv, ReturnedInv, RowsWhole
<1>2. QED
  BY <1>1, ReadInvHolds, PTL
==============================================================================
