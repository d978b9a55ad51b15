-------------------------- MODULE MCSelfAwareness --------------------------
(***************************************************************************)
(* Two roots in one scope, and a peer in the local network.                *)
(***************************************************************************)
EXTENDS SelfAwareness

CONSTANTS root1, root2, lan, x, y

MCScope == [r \in Reporters |-> IF r = lan THEN "private" ELSE "global"]
=============================================================================
