------------------------------- MODULE Lists -------------------------------
(***************************************************************************)
(* A std::list as a sequence: what is left when entries are erased while   *)
(* the list is gone through.                                               *)
(***************************************************************************)
EXTENDS Integers, Sequences, FiniteSets

\* The j-th number of a set.
Nth(I, j) == CHOOSE i \in I : Cardinality({k \in I : k <= i}) = j

\* List q without its entries at the positions in I.
EraseAt(q, I) ==
  LET kept == DOMAIN q \ I
  IN [j \in 1..Cardinality(kept) |-> q[Nth(kept, j)]]
=============================================================================
