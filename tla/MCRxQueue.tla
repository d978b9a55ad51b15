----------------------------- MODULE MCRxQueue -----------------------------
(***************************************************************************)
(* Instance of RxQueue for TLC: one sender x; a packet a in two fragments, *)
(* whose handler needs nothing else, and a whole packet u, whose handler   *)
(* needs a membership of x.                                                *)
(***************************************************************************)
EXTENDS RxQueue

TwoPackets == {"a", "u"}
OnePeer == {"x"}
OneGrant == {"member"}
TwoTotal == [a |-> 2, u |-> 1]
TwoSource == [p \in TwoPackets |-> "x"]
TwoNeeds == [a |-> "x", u |-> "member"]
=============================================================================
