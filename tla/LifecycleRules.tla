--------------------------- MODULE LifecycleRules ---------------------------
(***************************************************************************)
(* Conditions of the lifecycle rules of a bucket.  ConditionConjunction    *)
(* starts with an empty condition and merges its arguments into it one by  *)
(* one; the service applies the rule to the objects that satisfy the       *)
(* result.                                                                 *)
(***************************************************************************)
EXTENDS Integers, FiniteSets, FiniteSetsExt

CONSTANTS Days,       \* ages, dates and numbers of versions
          Classes,    \* storage classes
          MaxParts    \* arguments of ConditionConjunction

VARIABLES result,     \* the condition made so far
          parts,      \* the arguments merged into it
          thrown      \* the arguments contradict each other

vars == <<result, parts, thrown>>

None == {}            \* an optional without a value; {x} has the value x

Empty == [age |-> None, createdBefore |-> None, isLive |-> None,
          matches |-> None, newer |-> None]

MaxAge(d) == [Empty EXCEPT !.age = {d}]
CreatedBefore(t) == [Empty EXCEPT !.createdBefore = {t}]
IsLive(b) == [Empty EXCEPT !.isLive = {b}]
MatchesStorageClasses(cs) == [Empty EXCEPT !.matches = {cs}]
NumNewerVersions(n) == [Empty EXCEPT !.newer = {n}]

Conditions ==
  {MaxAge(d) : d \in Days} \cup {CreatedBefore(d) : d \in Days}
    \cup {IsLive(b) : b \in BOOLEAN} \cup {NumNewerVersions(n) : n \in Days}
    \cup {MatchesStorageClasses(cs) : cs \in SUBSET Classes \ {{}}}

(* The smaller age, the later date, the larger number of versions, the     *)
(* storage classes that are in both.                                       *)
MergeConditions(a, b) ==
  LET least(f) == IF f = None THEN None ELSE {Min(f)}
      most(f)  == IF f = None THEN None ELSE {Max(f)}
  IN  [age           |-> least(a.age \cup b.age),
       createdBefore |-> most(a.createdBefore \cup b.createdBefore),
       isLive        |-> a.isLive \cup b.isLive,
       matches       |-> IF a.matches = None \/ b.matches = None
                         THEN a.matches \cup b.matches
                         ELSE {x \cap y : x \in a.matches, y \in b.matches},
       newer         |-> most(a.newer \cup b.newer)]

Init == result = Empty /\ parts = {} /\ thrown = FALSE

ConditionConjunction ==
  /\ ~thrown /\ Cardinality(parts) < MaxParts
  /\ \E c \in Conditions \ parts :
       /\ parts' = parts \cup {c}
       /\ result' = MergeConditions(result, c)
       /\ thrown' = (Cardinality(result'.isLive) = 2)

Next == ConditionConjunction

Spec == Init /\ [][Next]_vars

-----------------------------------------------------------------------------
(* What the conditions mean (lifecycle_rule.h): an object at least so many *)
(* days old, created before a date, with at least so many newer versions.  *)
Satisfies(o, c) ==
  /\ \A d \in c.age : o.age >= d
  /\ \A t \in c.createdBefore : o.created < t
  /\ \A b \in c.isLive : o.live = b
  /\ \A cs \in c.matches : o.class \in cs
  /\ \A n \in c.newer : o.newer >= n

Objects == [age : Days, created : Days, live : BOOLEAN, class : Classes,
            newer : Days]

(* ConditionConjunction: a condition that is satisfied when all the        *)
(* conditions it was made of are satisfied, and by no other object.        *)
SatisfiedWhenAll ==
  ~thrown => \A o \in Objects :
               Satisfies(o, result) <=> \A c \in parts : Satisfies(o, c)

=============================================================================
