-------------------------- MODULE MCBridgeSessions --------------------------
(***************************************************************************)
(* Instances of BridgeSessions for TLC.                                    *)
(***************************************************************************)
EXTENDS BridgeSessions, TLC

CONSTANTS c1, c2, c3

Symmetry == Permutations(Clients)
=============================================================================
