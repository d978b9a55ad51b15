---------------------------- MODULE MCMembership ----------------------------
(***************************************************************************)
(* Instances of Membership for TLC; the configurations give all values.    *)
(***************************************************************************)
EXTENDS Membership
=============================================================================
