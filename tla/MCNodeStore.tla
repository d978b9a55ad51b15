---------------------------- MODULE MCNodeStore ----------------------------
(***************************************************************************)
(* Three peers, two of which have the low 32 bits of their addresses in    *)
(* common.                                                                 *)
(***************************************************************************)
EXTENDS NodeStore

CONSTANTS i1, i2, t, p1, p2, p3, w

Ids == {i1, i2}
ThreePeers == {p1, p2, p3}

\* No id has its low 32 bits all zero.
LowBits == [x \in Ids \cup ThreePeers \cup {t, w, 0} |-> IF x = p2 THEN p1 ELSE x]
=============================================================================
