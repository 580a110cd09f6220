----------------------------- MODULE MCReplica -----------------------------
(* An instance of Replica for TLC: one upload of two chunks.               *)
EXTENDS Replica, TLC

CONSTANTS u1, p1, h1, h2

OnePath == u1 :> p1
TwoChunks == u1 :> 2
BothNumbers == u1 :> {1, 2}

=============================================================================
