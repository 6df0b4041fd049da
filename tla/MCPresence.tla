----------------------------- MODULE MCPresence -----------------------------
(* Model-checking instance of Presence: one user on two regions, so that     *)
(* sessions race across processes.                                           *)
EXTENDS Presence

CONSTANTS u1, r1, r2, c1, c2, c3

MCUserOf == [c \in Conns |-> u1]

\* The third connection comes from another region.
MCRegionOf == [c \in Conns |-> IF c = c3 THEN r2 ELSE r1]
=============================================================================
