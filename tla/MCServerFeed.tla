---------------------------- MODULE MCServerFeed ----------------------------
(* A server with one role and one channel; another role and another channel can be made. *)
EXTENDS ServerFeed, TLC

CONSTANTS mod, vip, general, news

MCRank == (mod :> 0) @@ (vip :> 1)

=============================================================================
