------------------------------ MODULE Mailbox ------------------------------
(***************************************************************************)
(* What sending promises, whoever is at the queue: a packet that is handed *)
(* over is kept until it is sent, once, or dropped for a reason, and never *)
(* both; nothing is sent that was not handed over, and nothing vanishes.   *)
(***************************************************************************)
EXTENDS Naturals

CONSTANT Packets

VARIABLES
  pending,    \* packets that were handed over and wait
  delivered,  \* how often each packet was sent
  dropped     \* packets that were dropped

vars == <<pending, delivered, dropped>>

Init == pending = {} /\ delivered = [p \in Packets |-> 0] /\ dropped = {}

\* Packets that were never handed over.
Fresh == {p \in Packets : p \notin pending \cup dropped /\ delivered[p] = 0}

\* Packets are handed over, some are sent, at once or after waiting, and some that
\* waited are dropped.
Transfer(new, out, drop) ==
  /\ new \subseteq Fresh
  /\ out \subseteq pending \cup new
  /\ drop \subseteq pending \ out
  /\ pending' = (pending \cup new) \ (out \cup drop)
  /\ delivered' = [p \in Packets |-> IF p \in out THEN delivered[p] + 1 ELSE delivered[p]]
  /\ dropped' = dropped \cup drop

Next == \E new, out, drop \in SUBSET Packets : Transfer(new, out, drop)

Spec == Init /\ [][Next]_vars
=============================================================================
