----------------------------- MODULE NodeStore -----------------------------
(***************************************************************************)
(* What a node keeps in flash, and what it makes of it when it boots.      *)
(*                                                                         *)
(* The core hands objects to the firmware (stateObjectPut, with a type and *)
(* an id) and asks for them again (stateObjectGet): its identity and the   *)
(* planet while it boots, cached peers whenever it needs one.  There are   *)
(* two firmwares with different keys: Port = "esp" is main/ with           *)
(* port/zt_storage_esp.cpp, Port = "wrapper" is qemu-wrapper/.  Power may  *)
(* fail between any two operations on the flash, and any of them may fail: *)
(* a put is then only logged, and a get finds nothing.  At boot the whole  *)
(* partition may be erased.                                                *)
(***************************************************************************)
EXTENDS Integers

CONSTANTS
  Port,          \* which firmware: "esp" or "wrapper"
  Identities,    \* identities that Identity::generate may come up with
  TestIdentity,  \* the identity embedded in zt_storage_esp.cpp
  Peers,         \* identities of other nodes
  Nothing,       \* no object, no identity
  Low,           \* what is left of an object's id in a key: its low 32 bits
  PlanetId,      \* world id of the planet
  Default,       \* timestamp of the planet compiled in
  MaxPlanet      \* bound on the timestamps of later planets

ASSUME StoreAssumption ==
  /\ Port \in {"esp", "wrapper"}
  /\ TestIdentity \notin Identities
  /\ Nothing \notin Identities \cup {TestIdentity} \cup Peers
  /\ Nothing \notin Default..(Default + MaxPlanet)
  /\ Default \in Nat \ {0} /\ MaxPlanet \in Nat

VARIABLES
  nvs,       \* flash: a function from the keys in use to objects
  pc,        \* "off", a step of Node::Node and Topology::Topology, or "up"
  identity,  \* RR->identity
  planet,    \* timestamp of _planet, 0 while there is none
  peers,     \* _peers: the identity found under each address, or Nothing
  kept,      \* (history) the identity that was stored first, and not lost since
  newest,    \* (history) the newest planet that was stored, and not lost since
  failed     \* (history) operations on the node's own objects that failed since boot

vars == <<nvs, pc, identity, planet, peers, kept, newest, failed>>

Types == {"secret", "public", "planet", "peer"}

\* Mutant: every key has the object's id in it.
KeyWithId(type, id) == <<type, Low[id]>>

\* Mutant: cached peers share a key.
KeyWithoutId(type, id) ==
  IF Port = "esp" THEN <<type, Low[id]>> ELSE <<type, 0>>

\* make_key, and the switch in zt_state_put and zt_state_get.
Key(type, id) ==
  IF Port = "esp" \/ type = "peer" THEN <<type, Low[id]>> ELSE <<type, 0>>

\* nvs_set_blob and nvs_commit succeed: the object is added or replaced.
Store(type, id, object) ==
  LET k == Key(type, id) IN
  /\ nvs' = [x \in DOMAIN nvs \cup {k} |-> IF x = k THEN object ELSE nvs[x]]
  /\ UNCHANGED failed

\* An operation fails, whether there is room and the object is there or not.
Fail(op, type) ==
  /\ failed' = failed \cup ({op} \X ({type} \ {"peer"}))
  /\ UNCHANGED nvs

\* A put; nobody but the log learns how it went.
Put(type, id, object) == Store(type, id, object) \/ Fail("put", type)

\* What a get returns that does not succeed: zt_storage_esp.cpp has an identity.
Fallback(type) ==
  IF Port = "esp" /\ type \in {"secret", "public"} THEN TestIdentity ELSE Nothing

\* What a get that succeeds returns.
Found(type, id) ==
  LET k == Key(type, id) IN IF k \in DOMAIN nvs THEN nvs[k] ELSE Fallback(type)

\* A get returns the object.
Get(type, id, object) ==
  \/ object = Found(type, id) /\ UNCHANGED <<nvs, failed>>
  \/ object = Fallback(type) /\ Fail("get", type)

Steps == {"off", "getSecret", "putSecret", "putPublic", "getPublic", "planet", "default", "up"}

TypeOK ==
  /\ \A k \in DOMAIN nvs :
       /\ k[1] \in Types
       /\ nvs[k] \in CASE k[1] = "planet" -> Default..(Default + MaxPlanet)
                       [] k[1] = "peer" -> Peers
                       [] OTHER -> Identities \cup {TestIdentity}
  /\ pc \in Steps
  /\ identity \in Identities \cup {TestIdentity, Nothing}
  /\ pc \notin {"off", "getSecret"} => identity # Nothing
  /\ planet \in 0..(Default + MaxPlanet)
  /\ peers \in [Peers -> Peers \cup {Nothing}]
  /\ kept \in Identities \cup {TestIdentity, Nothing}
  /\ newest \in 0..(Default + MaxPlanet)
  /\ failed \subseteq {"get", "put"} \X Types

NoPeers == [a \in Peers |-> Nothing]

Init ==
  /\ nvs = <<>>
  /\ pc = "off"
  /\ identity = Nothing
  /\ planet = 0
  /\ peers = NoPeers
  /\ kept = Nothing
  /\ newest = 0
  /\ failed = {}

\* nvs_flash_init succeeds, or the partition is erased: no free pages are left in
\* it, or another version has written it.
PowerOn ==
  /\ pc = "off"
  /\ pc' = "getSecret"
  /\ failed' = {}
  /\ \/ UNCHANGED <<nvs, kept, newest>>
     \/ nvs' = <<>> /\ kept' = Nothing /\ newest' = 0
  /\ UNCHANGED <<identity, planet, peers>>

\* Everything but the flash is lost.
PowerFailure ==
  /\ pc # "off"
  /\ pc' = "off"
  /\ identity' = Nothing
  /\ planet' = 0
  /\ peers' = NoPeers
  /\ UNCHANGED <<nvs, kept, newest, failed>>
-----------------------------------------------------------------------------
(* Node::Node: the identity.                                               *)

\* The secret is asked for under id 0, since the address is not known yet.
LoadSecret ==
  /\ pc = "getSecret"
  /\ \E s \in Identities \cup {TestIdentity} : Get("secret", 0, s) /\ identity' = s
  /\ pc' = "getPublic"
  /\ UNCHANGED <<planet, peers, kept, newest>>

Generate ==
  /\ pc = "getSecret"
  /\ Get("secret", 0, Nothing)
  /\ identity' \in Identities
  /\ pc' = "putSecret"
  /\ UNCHANGED <<planet, peers, kept, newest>>

\* It is stored under the new address.  What was kept before is lost only if it
\* could not be read.
PutSecret ==
  /\ pc = "putSecret"
  /\ \/ /\ Store("secret", identity, identity)
        /\ kept' = IF kept = Nothing \/ <<"get", "secret">> \in failed THEN identity ELSE kept
     \/ Fail("put", "secret") /\ UNCHANGED kept
  /\ pc' = "putPublic"
  /\ UNCHANGED <<identity, planet, peers, newest>>

PutPublic ==
  /\ pc = "putPublic"
  /\ Put("public", identity, identity)
  /\ pc' = "planet"
  /\ UNCHANGED <<identity, planet, peers, kept, newest>>

\* Mutant: a public identity that differs stays.
CheckPublicOnly ==
  /\ pc = "getPublic"
  /\ \E s \in Identities \cup {TestIdentity, Nothing} : Get("public", identity, s)
  /\ pc' = "planet"
  /\ UNCHANGED <<identity, planet, peers, kept, newest>>

\* A public identity that differs is replaced; one that is missing stays so.
CheckPublic ==
  /\ pc = "getPublic"
  /\ \E s \in Identities \cup {TestIdentity, Nothing} :
       /\ Get("public", identity, s)
       /\ pc' = IF s \in {Nothing, identity} THEN "planet" ELSE "putPublic"
  /\ UNCHANGED <<identity, planet, peers, kept, newest>>
-----------------------------------------------------------------------------
(* Topology: the planet and the cache of peers.                            *)

\* A planet replaces the one in use and is stored.  What was stored before is lost
\* to an older one only if it could not be read.
UsePlanet(v) ==
  /\ planet' = v
  /\ \/ /\ Store("planet", PlanetId, v)
        /\ newest' = IF v > newest \/ <<"get", "planet">> \in failed THEN v ELSE newest
     \/ Fail("put", "planet") /\ UNCHANGED newest

\* Mutant: any planet replaces the one in use.
AddWorldAny(v) == UsePlanet(v)

\* addWorld: a newer planet does.
AddWorld(v) ==
  \/ v > planet /\ UsePlanet(v)
  \/ v <= planet /\ UNCHANGED <<planet, nvs, newest, failed>>

\* Topology::Topology asks for the planet under id 0 ...
CachedPlanet ==
  /\ pc = "planet"
  /\ \/ Get("planet", 0, Nothing) /\ UNCHANGED <<planet, newest>>
     \/ Found("planet", 0) # Nothing /\ AddWorld(Found("planet", 0))
  /\ pc' = "default"
  /\ UNCHANGED <<identity, peers, kept>>

\* ... and adds the one compiled in; the node is up.
DefaultPlanet ==
  /\ pc = "default"
  /\ AddWorld(Default)
  /\ pc' = "up"
  /\ UNCHANGED <<identity, peers, kept>>

\* An upstream sends a planet.
LearnWorld(v) ==
  /\ pc = "up"
  /\ AddWorld(v)
  /\ UNCHANGED <<pc, identity, peers, kept>>

\* addPeer, with an identity from a HELLO or a WHOIS answer.
AddPeer(a) ==
  /\ pc = "up"
  /\ peers[a] = Nothing
  /\ peers' = [peers EXCEPT ![a] = a]
  /\ UNCHANGED <<nvs, pc, identity, planet, kept, newest, failed>>

\* getPeer, for an address that is not in the table: look in the cache.  What is
\* found there is not compared with the address.
GetPeer(a) ==
  /\ pc = "up"
  /\ peers[a] = Nothing
  /\ \E p \in Peers \cup {Nothing} : Get("peer", a, p) /\ peers' = [peers EXCEPT ![a] = p]
  /\ UNCHANGED <<pc, identity, planet, kept, newest>>

\* doPeriodicTasks: a silent peer is saved (_savePeer) and dropped.
SavePeer(a) ==
  /\ pc = "up"
  /\ peers[a] # Nothing
  /\ Put("peer", peers[a], peers[a])
  /\ peers' = [peers EXCEPT ![a] = Nothing]
  /\ UNCHANGED <<pc, identity, planet, kept, newest>>
-----------------------------------------------------------------------------
Boot ==
  LoadSecret \/ Generate \/ PutSecret \/ PutPublic \/ CheckPublic \/ CachedPlanet \/ DefaultPlanet

Next ==
  \/ PowerOn \/ PowerFailure \/ Boot
  \/ \E v \in Default..(Default + MaxPlanet) : LearnWorld(v)
  \/ \E a \in Peers : AddPeer(a) \/ GetPeer(a) \/ SavePeer(a)

Spec == Init /\ [][Next]_vars
-----------------------------------------------------------------------------
(* Correctness.  The first two are about the keys of the wrapper: those of *)
(* the other firmware hide what was stored (README, disagreement 2).       *)

\* Has no operation on objects of this type failed since boot?
Spared(type) == \A op \in {"get", "put"} : <<op, type>> \notin failed

\* A secret identity that was stored once is the node's after every later boot in
\* which its secret can be read, until the partition is erased: wherever the power
\* failed, and whichever other operations failed, in this boot and before it.  Only
\* a get of the secret that fails can make the node store another one over it.
SameIdentity == pc = "up" /\ Spared("secret") => identity = kept

\* A planet that was stored is not lost to an older one by a restart, whichever
\* puts failed, those that replace a planet too, unless it could not be read.
NewestPlanet == pc = "up" /\ <<"get", "planet">> \notin failed => planet >= newest

\* What earlier boots left behind, a secret identity without its public one or with
\* another's, is put right by a boot in which no operation on the latter fails.
PublicMatches == pc = "up" /\ Spared("public") => Found("public", identity) \in {identity, Nothing}

\* "Object ID: peer address" (ZT_STATE_OBJECT_PEER): a peer that comes back from
\* the cache is the one that the address belongs to, or one whose 40-bit address
\* has the low 32 bits in common with it; these two the cache cannot tell apart.
PeersAlike == \A a \in Peers : peers[a] # Nothing => Low[peers[a]] = Low[a]
=============================================================================
