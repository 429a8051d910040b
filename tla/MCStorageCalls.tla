--------------------------- MODULE MCStorageCalls ---------------------------
(***************************************************************************)
(* Two threads of a client with the strict idempotency policy.  One may    *)
(* ask for any operation with a precondition; the other makes a few        *)
(* of the calls that get in its way.                                       *)
(***************************************************************************)
EXTENDS StorageCalls

CONSTANTS c1, c2

(* At most one option, and for an upload one of those that choose the API  *)
(* along with a precondition.                                              *)
OptionSets(op) ==
  {o \in SUBSET Accepts(op) :
     \/ Cardinality(o) <= 1
     \/ op = "InsertObjectMedia" /\ Cardinality(o) = 2
          /\ o \cap {"EmptyFields", "DisableMD5Hash"} # {}
          /\ o \cap {"IfGenerationMatch", "IfMetagenerationMatch"} # {}}

AnyCall ==
  {a \in UNION {{<<op, o>> : o \in OptionSets(op)} : op \in Ops} :
     Checked(a[1], a[2])}

Disturbing ==
  {<<"UpdateBucket", {}>>, <<"DeleteObject", {}>>,
   <<"InsertObjectMedia", {"IfGenerationMatch"}>>}

MCAsked == (c1 :> AnyCall) @@ (c2 :> Disturbing)

=============================================================================
