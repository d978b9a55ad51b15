---------------------------- MODULE MCPeerPaths ----------------------------
(***************************************************************************)
(* Instance of PeerPaths for TLC: a1 and a2 are two ports of one host, b   *)
(* is a private address; all in one /64.                                   *)
(***************************************************************************)
EXTENDS PeerPaths

CONSTANTS a1, a2, b

ThreePaths == {a1, a2, b}
ThreeHost == [p \in ThreePaths |-> IF p = b THEN "b" ELSE "a"]
ThreeNet == [p \in ThreePaths |-> "net"]
ThreeScope == [p \in ThreePaths |-> IF p = b THEN "private" ELSE "global"]
=============================================================================
