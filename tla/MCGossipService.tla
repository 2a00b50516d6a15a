-------------------------- MODULE MCGossipService --------------------------
(* Model-checking instance of GossipService: two peers, a handful of       *)
(* streams and environment steps.                                          *)
EXTENDS GossipService, TLC

CONSTANTS p1, p2
MCPeers == {p1, p2}
MCSymmetry == Permutations(MCPeers)
=============================================================================
