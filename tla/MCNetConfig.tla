---------------------------- MODULE MCNetConfig ----------------------------
(***************************************************************************)
(* Instances of NetConfig for TLC.                                         *)
(***************************************************************************)
EXTENDS NetConfig

\* More updates than slots: one of two chunks, one of one chunk, and a legacy one
\* for this node, one for another node, and one that is not the controller's.
MixUpdates == {"a", "b", "old", "other", "forged"}
MixLegacy == {"old"}
MixSigned == MixUpdates \ {"forged"}
MixMine == MixUpdates \ {"other"}
MixSize == [u \in MixUpdates |-> IF u = "a" THEN 2 ELSE 1]
=============================================================================
