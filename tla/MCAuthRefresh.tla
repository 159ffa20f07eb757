--------------------------- MODULE MCAuthRefresh ---------------------------
(***************************************************************************)
(* An instance of AuthRefresh for TLC: a dispatch and a fetch share the    *)
(* daemon's mutex and memory; another process has the sweep and the login. *)
(***************************************************************************)
EXTENDS AuthRefresh

CONSTANTS daemon, other, r1, r2, s1, l1

MCProc == [x \in {r1, r2, s1, l1} |-> IF x \in {r1, r2} THEN daemon ELSE other]
=============================================================================
