----------------------------- MODULE MCTransfers -----------------------------
(* Files of up to three chunks of two quanta of two bytes; streams with a   *)
(* buffer of four bytes and writes of one, four and six; objects of up to   *)
(* five blocks read through a buffer of two; and two threads that make      *)
(* three requests each, with pools of one handle.                           *)
EXTENDS Transfers
=============================================================================
