----------------------------- MODULE MCTxQueue -----------------------------
(***************************************************************************)
(* One packet to a destination that is not known at first, and a queue     *)
(* that WHOIS requests can fill.  What the queue sends goes out in pieces: *)
(* the packet may have every size that fits into the packet buffer, the    *)
(* path the default MTU or a larger one.                                   *)
(***************************************************************************)
EXTENDS TxQueue

CONSTANTS p1, d1

OneDest == p1 :> d1
=============================================================================
