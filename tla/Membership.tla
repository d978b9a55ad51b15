----------------------------- MODULE Membership -----------------------------
(***************************************************************************)
(* What one node keeps about one other member of a network: its            *)
(* certificate of membership (COM), its tags, capabilities and             *)
(* certificates of ownership, and what was revoked (Membership, and the    *)
(* operations of Network that lead to it).                                 *)
(*                                                                         *)
(* A credential is represented by its timestamp, which is the controller's *)
(* clock when it was issued; 0 stands for none.  Tags, capabilities and    *)
(* ownerships are kept in three tables by one template; here they are one  *)
(* table by credentialKey.  Credentials and revocations arrive in any      *)
(* order and any number of times, from the member or from others; those    *)
(* whose signature is bad, or cannot be checked yet, change nothing and    *)
(* are left out.                                                           *)
(***************************************************************************)
EXTENDS Integers

CONSTANTS
  Keys,     \* credentialKey: type and id of a tag, capability or ownership
  MaxTime,  \* bound on the controller's clock
  Delta     \* credentialTimeMaxDelta, and the maxDelta of the COM's timestamp

ASSUME MembershipAssumption == MaxTime \in Nat /\ Delta \in Nat

VARIABLES
  clock,      \* the controller's clock
  timestamp,  \* that of our own configuration and COM; 0: no configuration yet
  peer,       \* is the member's Peer in the topology?
  com,        \* _com
  threshold,  \* _comRevocationThreshold
  remote,     \* _remoteTags, _remoteCaps, _remoteCoos
  revoked,    \* _revocations
  seen,       \* (history) newest credential received, per key; a clean forgets invalid ones
  seenRev,    \* (history) highest threshold received, per key
  seenCom,    \* (history) newest COM received, and
  seenComRev  \* (history) highest threshold for it

memberVars == <<clock, timestamp, peer, com, threshold, remote, revoked, seen, seenRev,
                seenCom, seenComRev>>

Nothing == [k \in Keys |-> 0]

MemberTypeOK ==
  /\ clock \in 0..MaxTime /\ timestamp \in 0..clock
  /\ peer \in BOOLEAN
  /\ {com, threshold, seenCom, seenComRev} \subseteq 0..clock
  /\ {remote, revoked, seen, seenRev} \subseteq [Keys -> 0..clock]

MemberInit ==
  /\ clock = 0 /\ timestamp = 0
  /\ peer = TRUE
  /\ com = 0 /\ threshold = 0 /\ seenCom = 0 /\ seenComRev = 0
  /\ remote = Nothing /\ revoked = Nothing /\ seen = Nothing /\ seenRev = Nothing
-----------------------------------------------------------------------------
(* What is made of the credentials.                                        *)

Near(t) == t - timestamp <= Delta /\ timestamp - t <= Delta

\* gate, isAllowedOnNetwork, and agreesWith, on a network that is not public.
IsAllowedOnNetwork == timestamp # 0 /\ com # 0 /\ com > threshold /\ Near(com)

\* _isCredentialTimestampValid.
TimestampValid(k, t) == Near(t) /\ t > revoked[k]

\* What getTag, CapabilityIterator and hasCertificateOfOwnershipFor go by.
Usable == {k \in Keys : remote[k] # 0 /\ TimestampValid(k, remote[k])}
-----------------------------------------------------------------------------
(* The operations.                                                         *)

Later(a, b) == IF a > b THEN a ELSE b

\* A COM is rejected if it is revoked or old.
AddCom(t) ==
  /\ com' = IF t > threshold /\ t >= com THEN t ELSE com
  /\ seenCom' = Later(t, seenCom)
  /\ UNCHANGED <<clock, timestamp, peer, threshold, remote, revoked, seen, seenRev, seenComRev>>

\* Mutant: the age of what is there is not compared.
AcceptedOlder(k, t) == t > revoked[k]

\* _addCredImpl: a credential is rejected if it is old or revoked.
Accepted(k, t) == t >= remote[k] /\ t > revoked[k]

AddCredential(k, t) ==
  /\ remote' = IF Accepted(k, t) THEN [remote EXCEPT ![k] = t] ELSE remote
  /\ seen' = [seen EXCEPT ![k] = Later(t, @)]
  /\ UNCHANGED <<clock, timestamp, peer, com, threshold, revoked, seenRev, seenCom, seenComRev>>

RevokeCom(t) ==
  /\ threshold' = Later(t, threshold)
  /\ seenComRev' = Later(t, seenComRev)
  /\ UNCHANGED <<clock, timestamp, peer, com, remote, revoked, seen, seenRev, seenCom>>

\* Is the threshold a higher one?
Raised(k, t) == revoked[k] < t

\* The revocation of another credential sets the threshold for COMs as well.
Revoke(k, t) ==
  /\ \/ /\ Raised(k, t)
        /\ revoked' = [revoked EXCEPT ![k] = t]
        /\ threshold' = t
     \/ /\ ~ Raised(k, t)
        /\ UNCHANGED <<revoked, threshold>>
  /\ seenRev' = [seenRev EXCEPT ![k] = Later(t, @)]
  /\ UNCHANGED <<clock, timestamp, peer, com, remote, seen, seenCom, seenComRev>>

\* _cleanCredImpl.
Stale == {k \in Keys : ~ TimestampValid(k, remote[k])}

\* By what was received: is the newest credential in force?
InForce(k) == seen[k] # 0 /\ Near(seen[k]) /\ seen[k] > seenRev[k]

\* Network::clean, for a member that is in the topology.
Clean ==
  /\ peer
  /\ remote' = [k \in Keys |-> IF k \in Stale THEN 0 ELSE remote[k]]
  /\ seen' = [k \in Keys |-> IF InForce(k) THEN seen[k] ELSE 0]
  /\ UNCHANGED <<clock, timestamp, peer, com, threshold, revoked, seenRev, seenCom, seenComRev>>

\* Network::clean, for a member that is not: what was revoked is forgotten too.
CleanErase ==
  /\ ~ peer
  /\ com' = 0 /\ threshold' = 0 /\ seenCom' = 0 /\ seenComRev' = 0
  /\ remote' = Nothing /\ revoked' = Nothing /\ seen' = Nothing /\ seenRev' = Nothing
  /\ UNCHANGED <<clock, timestamp, peer>>

\* The topology forgets the member, or learns of it again.
PeerChange ==
  /\ peer' = ~ peer
  /\ UNCHANGED <<clock, timestamp, com, threshold, remote, revoked, seen, seenRev, seenCom, seenComRev>>

\* Our own configuration is updated (NetConfig); an older one may come back.
NewConfiguration(t) ==
  /\ timestamp' = t
  /\ UNCHANGED <<clock, peer, com, threshold, remote, revoked, seen, seenRev, seenCom, seenComRev>>

ClockTick ==
  /\ clock < MaxTime
  /\ clock' = clock + 1
  /\ UNCHANGED <<timestamp, peer, com, threshold, remote, revoked, seen, seenRev, seenCom, seenComRev>>

Receive(t) ==
  \/ AddCom(t) \/ RevokeCom(t)
  \/ \E k \in Keys : AddCredential(k, t) \/ Revoke(k, t)

MemberNext ==
  \/ \E t \in 1..clock : Receive(t) \/ NewConfiguration(t)
  \/ Clean \/ CleanErase \/ PeerChange \/ ClockTick

MemberSpec == MemberInit /\ [][MemberNext]_memberVars
-----------------------------------------------------------------------------
(* Correctness.                                                            *)

\* Whatever the order in which credentials and revocations came in, and however
\* often, and whenever the table was cleaned in between: a credential is in use if
\* and only if the newest one received is valid and above the highest threshold
\* received.  (One that was not when the table was cleaned counts as not received,
\* although our configuration may change so that it would be valid again.)
OrderFree == \A k \in Keys : k \in Usable <=> InForce(k)

\* What makes OrderFree inductive: the table has the newest credential received,
\* or that one, and with it the older one in the table, is revoked.
MemberIInv ==
  /\ MemberTypeOK
  /\ revoked = seenRev
  /\ \A k \in Keys :
       remote[k] = seen[k] \/ (remote[k] <= seen[k] /\ seen[k] <= revoked[k])

\* It follows that cleaning is not noticed by those who use the credentials.
CleanInvisible ==
  [][peer /\ remote' # remote /\ (\E k \in Keys : remote'[k] < remote[k]) => Usable' = Usable]_memberVars

\* The same as OrderFree for COMs ("Revocation threshold for COM or 0 if none",
\* Membership.hpp, of the threshold that decides).
ComOrderFree ==
  IsAllowedOnNetwork <=>
    (timestamp # 0 /\ seenCom # 0 /\ Near(seenCom) /\ seenCom > seenComRev)
=============================================================================
