---------------------------- MODULE MCVoiceState ----------------------------
(* Two voice channels of one server.  One user connects twice to the first channel and
   once to the second. *)
EXTENDS VoiceState, TLC

CONSTANTS ann, lobby, den, server, k1, k2, k3

MCParentOf == (lobby :> server) @@ (den :> server)

MCUserOf == [k \in {k1, k2, k3} |-> ann]

MCChannelOf == (k1 :> lobby) @@ (k2 :> lobby) @@ (k3 :> den)

=============================================================================
