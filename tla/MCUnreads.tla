----------------------------- MODULE MCUnreads -----------------------------
(* One user, and two workers of either kind. *)
EXTENDS Unreads, TLC

CONSTANTS ann, w1, w2

Symmetry == Permutations({w1, w2})
=============================================================================
