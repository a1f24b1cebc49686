---------------------------- MODULE MCRateLimit ----------------------------
(***************************************************************************)
(* A small instance of RateLimit for TLC.                                  *)
(***************************************************************************)
EXTENDS RateLimit, TLC

CONSTANTS p1, p2

MCPeers == {p1, p2}
Symmetry == Permutations(Peers)
=============================================================================
