------------------------------ MODULE MCWorlds ------------------------------
(***************************************************************************)
(* A default planet with one root, which serves the next revision of the   *)
(* planet, signed, with another root and another key, and the one after    *)
(* it.  A moon has two revisions.  The seed also serves a planet that no   *)
(* key of ours has signed.                                                 *)
(***************************************************************************)
EXTENDS Worlds

CONSTANTS me, r1, r2, s1, earth, moon, none

W(t, i, n, k, s, r) == [type |-> t, id |-> i, ts |-> n, key |-> k, signer |-> s, roots |-> r]

P1 == W("planet", earth, 1, "k1", "k1", {r1})
P2 == W("planet", earth, 2, "k2", "k1", {r1, r2})
P3 == W("planet", earth, 3, "k2", "k2", {r2})
Forged == W("planet", earth, 4, "k9", "k9", {s1})
M1 == W("moon", moon, 1, "m", "m", {s1})
M2 == W("moon", moon, 2, "m", "m", {s1, r2, me})

MCServes == [a \in {me, r1, r2, s1} |->
  CASE a = r1 -> {P2, P3, M2}
    [] a = r2 -> {P3}
    [] a = s1 -> {M1, Forged}
    [] a = me -> {}]
=============================================================================
