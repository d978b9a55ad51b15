---------------------------- MODULE MCMulticast ----------------------------
(***************************************************************************)
(* Four members, one of them a bridge; a frame of this node, and one that  *)
(* is replicated for a member.                                             *)
(***************************************************************************)
EXTENDS Multicast

CONSTANTS a, b, c, d, f1, f2

MCOrigin == (f1 :> None) @@ (f2 :> a)
=============================================================================
