---------------------------- MODULE MCNodeOnline ----------------------------
(***************************************************************************)
(* An instance of NodeOnline for TLC.                                      *)
(***************************************************************************)
EXTENDS NodeOnline

CONSTANTS r1, r2

TwoRoots == {r1, r2}
=============================================================================
