------------------------------ MODULE MCFuture ------------------------------
(* Two threads race for the promise; two continuations, each plain or       *)
(* unwrapping.                                                              *)
EXTENDS Future
=============================================================================
