------------------------------- MODULE Worlds -------------------------------
(***************************************************************************)
(* The planet, the moons and the upstreams of a node (Topology): how       *)
(* definitions arrive in OK(HELLO), replace each other, are stored and     *)
(* loaded again, while the application calls orbit and deorbit, the        *)
(* background task evicts peers and the power fails.                       *)
(*                                                                         *)
(* A world is a record: its type, id and timestamp, the key that must sign *)
(* the next revision, the key that signed this one, and the addresses of   *)
(* its roots.  The rx task and the application are separate: between the   *)
(* check of who sent an OK and each of the worlds in it, and between the   *)
(* two halves of addMoon, other steps come.  _amUpstream, endpoints and    *)
(* the order of the upstreams are left out.                                *)
(***************************************************************************)
EXTENDS Integers

CONSTANTS
  Planet,       \* the place of the planet, beside the ids of moons
  MoonIds,      \* ids of moons
  Addresses,    \* ZeroTier addresses
  Self,         \* the one of this node
  Default,      \* the planet in ZT_DEFAULT_WORLD
  Serves,       \* the worlds that the node at an address hands out
  Persistent,   \* the places that the firmware's storage keeps
  NoWorld       \* no definition (TYPE_NULL)

Offers == UNION {Serves[a] : a \in Addresses}
All == Offers \cup {Default}
Places == {Planet} \cup MoonIds

ASSUME WorldsAssumption ==
  /\ Planet \notin MoonIds /\ Self \in Addresses /\ Persistent \subseteq Places
  /\ DOMAIN Serves = Addresses
  /\ \A w \in All :
       /\ w.type \in {"planet", "moon"} /\ (w.type = "moon" <=> w.id \in MoonIds)
       /\ w.ts \in Nat /\ w.roots \subseteq Addresses
  /\ Default.type = "planet"
  /\ NoWorld \notin All

VARIABLES
  known,      \* _planet and _moons
  seeds,      \* _moonSeeds
  upstreams,  \* _upstreamAddresses
  peers,      \* the addresses in _peers
  stored,     \* ZT_STATE_OBJECT_PLANET and ZT_STATE_OBJECT_MOON in the store
  rx,         \* the worlds of an OK that are still to be added
  app,        \* the application: the second half of addMoon
  orbited,    \* (history) moons that were orbited and not deorbited since
  asked       \* (history) every moon and seed that orbit was called with

vars == <<known, seeds, upstreams, peers, stored, rx, app, orbited, asked>>

Idle == [pc |-> "idle"]

TypeOK ==
  /\ known \in [Places -> All \cup {NoWorld}]
  /\ seeds \subseteq MoonIds \X Addresses
  /\ upstreams \subseteq Addresses
  /\ peers \subseteq Addresses
  /\ stored \in [Places -> All \cup {NoWorld}]
  /\ rx \subseteq Offers
  /\ app \in {Idle} \cup [pc: {"add"}, world: All]
             \cup [pc: {"seed"}, id: MoonIds, seed: Addresses]
  /\ orbited \subseteq MoonIds
  /\ asked \subseteq MoonIds \X Addresses
-----------------------------------------------------------------------------
(* Topology::addWorld.                                                     *)

Place(w) == IF w.type = "planet" THEN Planet ELSE w.id

\* Mutant: the time is not looked at.
OlderReplaces(w, update) == w.id = update.id /\ w.type = update.type /\ w.key = update.signer

\* shouldBeReplacedBy, of a world that is not null.
Replaces(w, update) ==
  w.id = update.id /\ w.type = update.type /\ w.ts < update.ts /\ w.key = update.signer

\* Mutant: any moon that some seed is waiting for.
AnySeedFor(w) == {s \in seeds : s[1] = w.id}

\* The seeds that vouch for a new moon.
SeedsFor(w) == {s \in seeds : s[1] = w.id /\ s[2] \in w.roots}

RootsOf(worlds) == UNION {w.roots : w \in worlds \ {NoWorld}}

\* Mutant: the roots of the world that was replaced stay.
MemoizeMore(worlds) ==
  /\ upstreams' = upstreams \cup (RootsOf(worlds) \ {Self})
  /\ peers' = peers \cup upstreams'

\* _memoizeUpstreams: every upstream gets a peer.
Memoize(worlds) ==
  /\ upstreams' = RootsOf(worlds) \ {Self}
  /\ peers' = peers \cup upstreams'

\* stateObjectPut and stateObjectDelete: they may fail, and nobody is told.
Store(place, w) ==
  stored' \in {stored} \cup {[stored EXCEPT ![p] = w] : p \in {place} \cap Persistent}

Accept(w) ==
  /\ known' = [known EXCEPT ![Place(w)] = w]
  /\ Store(Place(w), w)
  /\ Memoize({known'[p] : p \in Places})

Refuse == UNCHANGED <<known, seeds, upstreams, peers, stored>>

\* A moon that is known, and the planet, are replaced or kept.
IsOld(w) == known[Place(w)] # NoWorld

AddWorld(w, alwaysAcceptNew) ==
  \/ /\ IsOld(w) /\ Replaces(known[Place(w)], w)
     /\ Accept(w)
     /\ UNCHANGED seeds
  \/ /\ IsOld(w) /\ ~ Replaces(known[Place(w)], w)
     /\ Refuse
  \/ /\ ~ IsOld(w) /\ alwaysAcceptNew
     /\ Accept(w)
     /\ UNCHANGED seeds
  \/ /\ ~ IsOld(w) /\ ~ alwaysAcceptNew /\ SeedsFor(w) = {}
     /\ Refuse
  \/ /\ ~ IsOld(w) /\ ~ alwaysAcceptNew
     /\ \E s \in SeedsFor(w) : seeds' = seeds \ {s}
     /\ Accept(w)
-----------------------------------------------------------------------------
(* The constructor of Topology.                                            *)

\* The planet in the store is taken as it is; then the default is an update.
BootPlanet ==
  IF stored[Planet] = NoWorld \/ Replaces(stored[Planet], Default) THEN Default
                                                                   ELSE stored[Planet]

Init ==
  /\ stored = [p \in Places |-> NoWorld]
  /\ known = [p \in Places |-> IF p = Planet THEN Default ELSE NoWorld]
  /\ seeds = {}
  /\ upstreams = Default.roots \ {Self}
  /\ peers = upstreams
  /\ rx = {}
  /\ app = Idle
  /\ orbited = {}
  /\ asked = {}

\* The power fails and comes back.  The planet that was taken is stored again.
Restart ==
  /\ known' = [p \in Places |-> IF p = Planet THEN BootPlanet ELSE NoWorld]
  /\ Store(Planet, BootPlanet)
  /\ seeds' = {}
  /\ upstreams' = BootPlanet.roots \ {Self}
  /\ peers' = RootsOf({stored[Planet], BootPlanet}) \ {Self}
  /\ rx' = {}
  /\ app' = Idle
  /\ orbited' = {}
  /\ UNCHANGED asked
-----------------------------------------------------------------------------
(* The rx task.                                                            *)

\* Mutant: seeds are not listened to.
UpstreamsOnly(a) == a \in upstreams

ShouldAcceptWorldUpdateFrom(a) == a \in upstreams \/ \E s \in seeds : s[2] = a

\* Which worlds a node answers with to a HELLO that lists what we know and want.
Newer(a) ==
  {w \in Serves[a] :
     \/ w.type = "planet" /\ w.id = known[Planet].id /\ w.ts > known[Planet].ts
     \/ w.type = "moon" /\ known[w.id] # NoWorld /\ w.ts > known[w.id].ts
     \/ w.type = "moon" /\ known[w.id] = NoWorld /\ \E s \in seeds : s[1] = w.id}

\* An OK(HELLO), from a peer that is known.  It may answer an old HELLO.
RecvOK(a, worlds) ==
  /\ rx = {}
  /\ a \in peers
  /\ worlds # {}
  /\ ShouldAcceptWorldUpdateFrom(a)
  /\ rx' = worlds
  /\ UNCHANGED <<known, seeds, upstreams, peers, stored, app, orbited, asked>>

\* The planet is the first in the packet.
RecvWorld(w) ==
  /\ w \in rx
  /\ w.type = "moon" => \A v \in rx : v.type = "moon"
  /\ rx' = rx \ {w}
  /\ AddWorld(w, FALSE)
  /\ UNCHANGED <<app, orbited, asked>>

\* A HELLO or an answer to WHOIS brings a peer.
AddPeer(a) ==
  /\ a # Self
  /\ peers' = peers \cup {a}
  /\ UNCHANGED <<known, seeds, upstreams, stored, rx, app, orbited, asked>>
-----------------------------------------------------------------------------
(* The application: orbit (addMoon) and deorbit (removeMoon).              *)

\* addMoon reads the store without a lock.
Orbit(id, seed) ==
  /\ app = Idle
  /\ app' = IF stored[id] # NoWorld THEN [pc |-> "add", world |-> stored[id]]
                                    ELSE [pc |-> "seed", id |-> id, seed |-> seed]
  /\ orbited' = orbited \cup {id}
  /\ asked' = asked \cup {<<id, seed>>}
  /\ UNCHANGED <<known, seeds, upstreams, peers, stored, rx>>

OrbitStored ==
  /\ app.pc = "add"
  /\ AddWorld(app.world, TRUE)
  /\ app' = Idle
  /\ UNCHANGED <<rx, orbited, asked>>

OrbitSeed ==
  /\ app.pc = "seed"
  /\ seeds' = seeds \cup {<<app.id, app.seed>>}
  /\ app' = Idle
  /\ UNCHANGED <<known, upstreams, peers, stored, rx, orbited, asked>>

\* Mutant: the seeds stay.
SeedsKept(id) == seeds

SeedsWithout(id) == {s \in seeds : s[1] # id}

\* A moon that is known is deleted from the store; the seeds go in any case.
Deorbit(id) ==
  /\ app = Idle
  /\ known' = [known EXCEPT ![id] = NoWorld]
  /\ IF known[id] # NoWorld THEN Store(id, NoWorld) ELSE UNCHANGED stored
  /\ seeds' = SeedsWithout(id)
  /\ Memoize({known'[p] : p \in Places})
  /\ orbited' = orbited \ {id}
  /\ UNCHANGED <<rx, app, asked>>
-----------------------------------------------------------------------------
(* The background task.                                                    *)

\* A peer that is not alive.  Upstreams are kept, alive or not.
Evictable(a) == a \in peers \ upstreams

Evict(a) ==
  /\ Evictable(a)
  /\ peers' = peers \ {a}
  /\ UNCHANGED <<known, seeds, upstreams, stored, rx, app, orbited, asked>>
-----------------------------------------------------------------------------
Next ==
  \/ Restart
  \/ \E a \in Addresses :
       \/ \E worlds \in SUBSET Serves[a] : RecvOK(a, worlds)
       \/ AddPeer(a)
       \/ Evict(a)
  \/ \E w \in Offers : RecvWorld(w)
  \/ \E id \in MoonIds : Deorbit(id) \/ \E a \in Addresses \ {Self} : Orbit(id, a)
  \/ OrbitStored \/ OrbitSeed

Spec == Init /\ [][Next]_vars

\* The tasks go on.  The ping check sends a HELLO to every root and every seed,
\* after a WHOIS where there is no peer, again and again, and some are answered;
\* a peer that keeps answering is alive and is not evicted for ever.
FairSpec ==
  /\ Spec
  /\ WF_vars(\E w \in Offers : RecvWorld(w))
  /\ WF_vars(OrbitStored \/ OrbitSeed)
  /\ \A a \in Addresses : /\ WF_vars(AddPeer(a)) /\ SF_vars(RecvOK(a, Newer(a)))
                            /\ <>[][~ Evict(a)]_vars
-----------------------------------------------------------------------------
(* Correctness.                                                            *)

Signs(x, y) == x.id = y.id /\ x.type = y.type /\ x.key = y.signer

\* All that can come of a world by signed updates: the least set that has it and
\* that no such update leaves.
Family(w) ==
  {v \in All : \A S \in SUBSET All :
     (w \in S /\ \A x \in S, y \in All : Signs(x, y) => y \in S) => v \in S}

\* Moon m comes in this way from a definition that lists, as a root, a seed which
\* the application gave for moon id.
Vouched(id, m) ==
  \E first \in Offers : m \in Family(first) /\ \E s \in asked : s[1] = id /\ s[2] \in first.roots

\* Whoever sends definitions, and through storage that fails and restarts: the
\* planet comes from the default one by updates that each the key of the one
\* before has signed; a moon is vouched for by a seed of its own; and the storage
\* holds no others.
WorldsTrusted ==
  /\ known[Planet] \in Family(Default) /\ stored[Planet] \in Family(Default) \cup {NoWorld}
  /\ \A id \in MoonIds : \A m \in {known[id], stored[id]} \ {NoWorld} : Vouched(id, m)

\* A moon is known, or looked for, only while it is orbited: an OK that was
\* accepted before deorbit does not bring it back.
OnlyOrbited ==
  /\ \A id \in MoonIds : known[id] # NoWorld => id \in orbited
  /\ \A s \in seeds : s[1] \in orbited

\* The upstreams are the roots of the worlds that are known, and each of them has
\* a peer, whatever the background task evicts (getUpstreamPeer relies on it).
UpstreamsKnown ==
  /\ upstreams = RootsOf({known[p] : p \in Places}) \ {Self}
  /\ upstreams \subseteq peers

\* What may come into use, or into the store, and where.
Trusted(w) ==
  /\ w \in All
  /\ w.type = "planet" => w \in Family(Default)
  /\ w.type = "moon" => Vouched(w.id, w)

PlaceOK(p, w) == w = NoWorld \/ (Trusted(w) /\ Place(w) = p)

\* The second half of addMoon adds what may be added, for a moon that is orbited.
AppOK ==
  /\ app.pc = "add" => Trusted(app.world) /\ app.world.type = "moon" /\ app.world.id \in orbited
  /\ app.pc = "seed" => app.id \in orbited /\ <<app.id, app.seed>> \in asked

\* The inductive invariant.
IInv ==
  /\ TypeOK /\ AppOK
  /\ \A p \in Places : PlaceOK(p, known[p]) /\ PlaceOK(p, stored[p])
  /\ known[Planet] # NoWorld
  /\ Self \notin peers
  /\ seeds \subseteq asked
  /\ OnlyOrbited /\ UpstreamsKnown

\* While the node runs and a moon is orbited, no step brings an older definition
\* of a world: neither a late OK nor what orbit read from the store.
NoRollback ==
  [][\A p \in Places :
       (known[p] # NoWorld /\ known'[p] # NoWorld /\ known'[p] # known[p])
         => known'[p].ts > known[p].ts \/ Restart]_vars

\* A moon that is looked for is found, if a seed serves a definition with that
\* seed as a root.
MoonFound ==
  \A id \in MoonIds : \A a \in Addresses :
    (<<id, a>> \in seeds /\ \E w \in Serves[a] : w.type = "moon" /\ w.id = id /\ a \in w.roots)
      ~> (known[id] # NoWorld \/ id \notin orbited)
=============================================================================
