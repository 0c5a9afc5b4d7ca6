-------------------------- MODULE MCLiveEventStream --------------------------
(* LiveEventStream for TLC.  With one connection place and two identities a *)
(* reconnect has to wait for the server to notice that the old one is dead. *)
EXTENDS LiveEventStream

CONSTANTS w1, w2, v1, c1, c2
=============================================================================
