----------------------------- MODULE AtMostOnce -----------------------------
(***************************************************************************)
(* What an application may count on when a client retries its calls only   *)
(* if they are idempotent: a call that is under way changes the service at *)
(* most once, unless somebody else changed the service after it; a call    *)
(* that has ended changes nothing.                                         *)
(***************************************************************************)
EXTENDS Naturals

CONSTANT Callers

VARIABLES phase,     \* phase[c]: "idle", "open" or "closed"
          changes,   \* changes[c]: how often the call changed the service
          stirred    \* stirred[c]: somebody else has, since then

vars == <<phase, changes, stirred>>

Init == /\ phase = [c \in Callers |-> "idle"]
        /\ changes = [c \in Callers |-> 0]
        /\ stirred = [c \in Callers |-> FALSE]

Begin(c) == /\ phase[c] = "idle"
            /\ phase' = [phase EXCEPT ![c] = "open"]
            /\ UNCHANGED <<changes, stirred>>

Change(c) == /\ phase[c] = "open"
             /\ changes[c] = 0 \/ stirred[c]
             /\ changes' = [changes EXCEPT ![c] = @ + 1]
             /\ stirred' = [d \in Callers |-> /\ d # c
                                              /\ stirred[d] \/ changes[d] > 0]
             /\ UNCHANGED phase

End(c) == /\ phase[c] = "open"
          /\ phase' = [phase EXCEPT ![c] = "closed"]
          /\ UNCHANGED <<changes, stirred>>

Next == \E c \in Callers : Begin(c) \/ Change(c) \/ End(c)

Spec == Init /\ [][Next]_vars

=============================================================================
