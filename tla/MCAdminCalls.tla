---------------------------- MODULE MCAdminCalls ----------------------------
(***************************************************************************)
(* One call of any kind, and another one that gets in its way.             *)
(***************************************************************************)
EXTENDS AdminCalls, TLC

CONSTANTS c1, c2

AnyCall ==
  {<<op, "sync">> : op \in DOMAIN Sync}
    \cup {<<op, "async">> : op \in DOMAIN Async \ Paged}

Disturbing ==
  {<<"DeleteInstance", "sync">>, <<"CreateTable", "sync">>}

MCAsked == (c1 :> AnyCall) @@ (c2 :> Disturbing)

=============================================================================
