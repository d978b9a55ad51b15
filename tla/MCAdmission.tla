---------------------------- MODULE MCAdmission ----------------------------
(***************************************************************************)
(* Instances of Admission for TLC; the configurations give all values.     *)
(***************************************************************************)
EXTENDS Admission
=============================================================================
