---------------------------- MODULE MCCoalesced ----------------------------
(* Model-checking instance of Coalesced. *)
EXTENDS Coalesced
=============================================================================
