--------------------------- MODULE TopologyProofs ---------------------------
(***************************************************************************)
(* Proofs about who the node's upstreams are, and about what they tell it. *)
(*                                                                         *)
(* Worlds, for any worlds that anybody serves, any ids, addresses and keys,*)
(* and storage that keeps any of the places.                               *)
(*                                                                         *)
(* SelfAwareness: how often the paths are reset, for any number of reporters,*)
(* scopes and addresses, and any timeout.                                  *)
(***************************************************************************)
EXTENDS Worlds, SelfAwareness, TLAPS

\* A family has its first member, and a signed update stays in it.
LEMMA FamilyFacts ==
  ASSUME NEW w \in All
  PROVE  /\ w \in Family(w)
         /\ \A x \in Family(w) : \A y \in All : Signs(x, y) => y \in Family(w)
BY DEF Family

LEMMA WorldFacts ==
  ASSUME NEW w \in All
  PROVE  /\ w.type \in {"planet", "moon"} /\ (w.type = "moon" <=> w.id \in MoonIds)
         /\ w.ts \in Nat /\ w.roots \subseteq Addresses
         /\ w # NoWorld
         /\ Place(w) \in Places
         /\ Place(w) = Planet <=> w.type = "planet"
         /\ w.type = "moon" => Place(w) = w.id
BY WorldsAssumption DEF Place, Places

LEMMA PlaceFacts == Planet \in Places /\ Planet \notin MoonIds /\ MoonIds \subseteq Places
BY WorldsAssumption DEF Places

\* The default planet may be used.
LEMMA DefaultTrusted == Default \in All /\ Trusted(Default) /\ Place(Default) = Planet
<1>1. Default \in All /\ Default.type = "planet"
  BY WorldsAssumption DEF All
<1> QED
  BY <1>1, FamilyFacts, WorldFacts DEF Trusted

\* What a trusted world signs is trusted.
LEMMA UpdateTrusted ==
  ASSUME NEW x, NEW y \in All, Trusted(x), Replaces(x, y)
  PROVE  Trusted(y) /\ Place(y) = Place(x)
<1>1. x \in All /\ x.id = y.id /\ x.type = y.type /\ Signs(x, y)
  BY DEF Trusted, Replaces, Signs
<1>2. y.type = "planet" => y \in Family(Default)
  BY <1>1, FamilyFacts, DefaultTrusted DEF Trusted
<1>3. y.type = "moon" => Vouched(y.id, y)
  <2> SUFFICES ASSUME y.type = "moon" PROVE Vouched(y.id, y)
    OBVIOUS
  <2>1. Vouched(x.id, x)
    BY <1>1 DEF Trusted
  <2>2. PICK first \in Offers : /\ x \in Family(first)
                                /\ \E s \in asked : s[1] = x.id /\ s[2] \in first.roots
    BY <2>1 DEF Vouched
  <2>3. y \in Family(first)
    BY <1>1, <2>2, FamilyFacts DEF All
  <2> QED
    BY <1>1, <2>2, <2>3 DEF Vouched
<1> QED
  BY <1>1, <1>2, <1>3 DEF Trusted, Place

\* A moon that one of its seeds vouches for is trusted.
LEMMA SeedTrusted ==
  ASSUME NEW w \in Offers, w.type = "moon", seeds \subseteq asked, SeedsFor(w) # {}
  PROVE  Trusted(w)
<1>1. w \in All /\ w \in Family(w)
  BY FamilyFacts DEF All
<1>2. PICK s \in asked : s[1] = w.id /\ s[2] \in w.roots
  BY DEF SeedsFor
<1> QED
  BY <1>1, <1>2 DEF Trusted, Vouched

\* Nothing is trusted less when more seeds have been asked for.
LEMMA TrustKept ==
  ASSUME NEW w, Trusted(w), asked \subseteq asked'
  PROVE  Trusted(w)'
BY DEF Trusted, Vouched

LEMMA RootsFacts ==
  ASSUME NEW S, S \subseteq All \cup {NoWorld}
  PROVE  RootsOf(S) \subseteq Addresses
BY WorldFacts DEF RootsOf

LEMMA InitIInv == Init => IInv
<1> SUFFICES ASSUME Init PROVE IInv
  OBVIOUS
<1>1. Default \in All /\ Default.roots \subseteq Addresses /\ Default # NoWorld
  BY DefaultTrusted, WorldFacts
<1>2. known[Planet] = Default /\ \A p \in Places : p # Planet => known[p] = NoWorld
  BY PlaceFacts DEF Init
<1>3. TypeOK
  BY <1>1 DEF Init, TypeOK, Idle
<1>4. \A p \in Places : PlaceOK(p, known[p]) /\ PlaceOK(p, stored[p])
  BY <1>2, DefaultTrusted DEF Init, PlaceOK
<1>5. OnlyOrbited
  BY <1>2, PlaceFacts DEF Init, OnlyOrbited
<1>6. UpstreamsKnown
  <2>1. {known[p] : p \in Places} \ {NoWorld} = {Default}
    BY <1>1, <1>2, PlaceFacts
  <2> QED
    BY <2>1 DEF UpstreamsKnown, RootsOf, Init
<1> QED
  BY <1>1, <1>2, <1>3, <1>4, <1>5, <1>6 DEF Init, IInv, AppOK, Idle

\* Storing or deleting keeps the store as it should be, whether it works or not.
LEMMA StoreOK ==
  ASSUME NEW place \in Places, NEW w \in All \cup {NoWorld}, Store(place, w),
         stored \in [Places -> All \cup {NoWorld}]
  PROVE  /\ stored' \in [Places -> All \cup {NoWorld}]
         /\ \A p \in Places : stored'[p] = stored[p] \/ (p = place /\ stored'[p] = w)
BY DEF Store

\* The effect of accepting a world, wherever it comes from.
LEMMA AcceptIInv ==
  ASSUME IInv, NEW w \in All, Trusted(w), Accept(w),
         w.type = "moon" => w.id \in orbited,
         rx' \subseteq rx, app' \in {app, Idle}, seeds' \subseteq seeds,
         UNCHANGED <<orbited, asked>>
  PROVE  IInv'
<1>1. /\ TypeOK /\ Place(w) \in Places /\ w # NoWorld
      /\ known' = [known EXCEPT ![Place(w)] = w]
      /\ upstreams' = RootsOf({known'[p] : p \in Places}) \ {Self}
      /\ peers' = peers \cup upstreams'
  BY WorldFacts DEF IInv, Accept, Memoize
<1>2. /\ known' \in [Places -> All \cup {NoWorld}]
      /\ known'[Place(w)] = w
      /\ \A p \in Places : p # Place(w) => known'[p] = known[p]
  BY <1>1 DEF TypeOK
<1>3. /\ stored' \in [Places -> All \cup {NoWorld}]
      /\ \A p \in Places : stored'[p] = stored[p] \/ (p = Place(w) /\ stored'[p] = w)
  BY <1>1, StoreOK DEF TypeOK, Accept
<1>4. upstreams' \subseteq Addresses
  BY <1>1, <1>2, RootsFacts
<1>5. TypeOK'
  BY <1>1, <1>2, <1>3, <1>4 DEF TypeOK
<1>6. ASSUME NEW p \in Places
      PROVE  PlaceOK(p, known[p])' /\ PlaceOK(p, stored[p])'
  <2>1. \A v : Trusted(v) => Trusted(v)'
    BY TrustKept
  <2>2. PlaceOK(p, known'[p]) /\ PlaceOK(p, stored'[p])
    BY <1>2, <1>3 DEF IInv, PlaceOK
  <2> QED
    BY <2>1, <2>2 DEF PlaceOK, Place
<1>7. AppOK'
  BY TrustKept DEF IInv, AppOK, Idle
<1>8. OnlyOrbited'
  BY <1>1, <1>2, WorldFacts, PlaceFacts DEF IInv, OnlyOrbited
<1>9. UpstreamsKnown' /\ Self \notin peers' /\ known'[Planet] # NoWorld /\ seeds' \subseteq asked'
  BY <1>1, <1>2, PlaceFacts DEF IInv, UpstreamsKnown
<1> QED
  BY <1>5, <1>6, <1>7, <1>8, <1>9 DEF IInv

\* A refused world changes nothing but who has it in hand.
LEMMA RefuseIInv ==
  ASSUME IInv, Refuse, rx' \subseteq rx, app' \in {app, Idle}, UNCHANGED <<orbited, asked>>
  PROVE  IInv'
<1>1. TypeOK'
  BY DEF IInv, TypeOK, Refuse
<1>2. \A p \in Places : PlaceOK(p, known[p])' /\ PlaceOK(p, stored[p])'
  BY TrustKept DEF IInv, PlaceOK, Refuse, Place
<1>3. AppOK'
  BY TrustKept DEF IInv, AppOK, Idle
<1> QED
  BY <1>1, <1>2, <1>3 DEF IInv, Refuse, OnlyOrbited, UpstreamsKnown, RootsOf

LEMMA StepRecvWorld ==
  ASSUME IInv, NEW w \in Offers, RecvWorld(w)
  PROVE  IInv'
<1>1. w \in All /\ rx' \subseteq rx /\ app' = app /\ UNCHANGED <<orbited, asked>> /\ AddWorld(w, FALSE)
  BY DEF RecvWorld, All
<1>2. CASE Refuse
  BY <1>1, <1>2, RefuseIInv
<1>3. CASE IsOld(w) /\ Replaces(known[Place(w)], w) /\ Accept(w) /\ UNCHANGED seeds
  <2>1. Trusted(known[Place(w)]) /\ Place(w) \in Places
    BY <1>1, <1>3, WorldFacts DEF IInv, IsOld, PlaceOK
  <2>2. Trusted(w)
    BY <1>1, <1>3, <2>1, UpdateTrusted
  <2>3. w.type = "moon" => w.id \in orbited
    BY <1>1, <1>3, WorldFacts DEF IInv, OnlyOrbited, IsOld
  <2> QED
    BY <1>1, <1>3, <2>2, <2>3, AcceptIInv
<1>4. CASE ~ IsOld(w) /\ Accept(w) /\ \E s \in SeedsFor(w) : seeds' = seeds \ {s}
  <2>1. w.type = "moon"
    BY <1>1, <1>4, WorldFacts DEF IInv, IsOld
  <2>2. Trusted(w)
    BY <1>4, <2>1, SeedTrusted DEF IInv
  <2>3. w.id \in orbited
    BY <1>4 DEF SeedsFor, IInv, OnlyOrbited
  <2> QED
    BY <1>1, <1>4, <2>2, <2>3, AcceptIInv
<1> QED
  BY <1>1, <1>2, <1>3, <1>4 DEF AddWorld

LEMMA StepOrbitStored ==
  ASSUME IInv, OrbitStored
  PROVE  IInv'
<1> DEFINE w == app.world
<1>1. /\ Trusted(w) /\ w \in All /\ w.id \in orbited
      /\ AddWorld(w, TRUE)
      /\ rx' \subseteq rx /\ app' = Idle /\ UNCHANGED <<orbited, asked>>
  BY DEF OrbitStored, IInv, AppOK, Trusted
<1> HIDE DEF w
<1>2. CASE Refuse
  BY <1>1, <1>2, RefuseIInv
<1>3. CASE Accept(w) /\ seeds' = seeds
  BY <1>1, <1>3, AcceptIInv
<1> QED
  BY <1>1, <1>2, <1>3 DEF AddWorld

LEMMA StepOrbit ==
  ASSUME IInv, NEW id \in MoonIds, NEW a \in Addresses, Orbit(id, a)
  PROVE  IInv'
<1>1. /\ asked \subseteq asked' /\ orbited \subseteq orbited' /\ id \in orbited'
      /\ UNCHANGED <<known, seeds, upstreams, peers, stored, rx>>
  BY DEF Orbit
<1>2. stored[id] # NoWorld =>
        /\ stored[id] \in All /\ Trusted(stored[id])
        /\ stored[id].type = "moon" /\ stored[id].id = id
  BY PlaceFacts, WorldFacts DEF IInv, PlaceOK, Trusted
<1>3. app' \in [pc: {"add"}, world: All] \cup [pc: {"seed"}, id: MoonIds, seed: Addresses]
  BY <1>2 DEF Orbit
<1>4. TypeOK'
  BY <1>1, <1>3 DEF IInv, TypeOK, Orbit
<1>5. AppOK'
  <2>1. CASE stored[id] # NoWorld
    BY <1>1, <1>2, <2>1, TrustKept DEF AppOK, Orbit
  <2>2. CASE stored[id] = NoWorld
    BY <1>1, <2>2 DEF AppOK, Orbit
  <2> QED BY <2>1, <2>2
<1>6. \A p \in Places : PlaceOK(p, known[p])' /\ PlaceOK(p, stored[p])'
  BY <1>1, TrustKept DEF IInv, PlaceOK, Place
<1> QED
  BY <1>1, <1>4, <1>5, <1>6 DEF IInv, OnlyOrbited, UpstreamsKnown, RootsOf

LEMMA StepDeorbit ==
  ASSUME IInv, NEW id \in MoonIds, Deorbit(id)
  PROVE  IInv'
<1>1. /\ TypeOK /\ id \in Places /\ id # Planet
      /\ known' = [known EXCEPT ![id] = NoWorld]
      /\ upstreams' = RootsOf({known'[p] : p \in Places}) \ {Self}
      /\ peers' = peers \cup upstreams'
      /\ seeds' = {s \in seeds : s[1] # id}
      /\ orbited' = orbited \ {id}
      /\ app = Idle /\ UNCHANGED <<rx, app, asked>>
  BY PlaceFacts DEF IInv, Deorbit, Memoize, SeedsWithout
<1>2. /\ known' \in [Places -> All \cup {NoWorld}]
      /\ known'[id] = NoWorld
      /\ \A p \in Places : p # id => known'[p] = known[p]
  BY <1>1 DEF TypeOK
<1>3. /\ stored' \in [Places -> All \cup {NoWorld}]
      /\ \A p \in Places : stored'[p] = stored[p] \/ stored'[p] = NoWorld
  BY <1>1, StoreOK DEF TypeOK, Deorbit
<1>4. upstreams' \subseteq Addresses
  BY <1>1, <1>2, RootsFacts
<1>5. TypeOK'
  BY <1>1, <1>2, <1>3, <1>4 DEF TypeOK
<1>6. \A p \in Places : PlaceOK(p, known[p])' /\ PlaceOK(p, stored[p])'
  BY <1>1, <1>2, <1>3, TrustKept DEF IInv, PlaceOK, Place
<1>7. AppOK'
  BY <1>1 DEF AppOK, Idle
<1>8. OnlyOrbited'
  BY <1>1, <1>2, PlaceFacts DEF IInv, OnlyOrbited
<1>9. UpstreamsKnown' /\ Self \notin peers' /\ known'[Planet] # NoWorld /\ seeds' \subseteq asked'
  BY <1>1, <1>2, PlaceFacts DEF IInv, UpstreamsKnown
<1> QED
  BY <1>5, <1>6, <1>7, <1>8, <1>9 DEF IInv

LEMMA StepRestart ==
  ASSUME IInv, Restart
  PROVE  IInv'
<1>1. Trusted(BootPlanet) /\ Place(BootPlanet) = Planet /\ BootPlanet \in All
  <2>1. stored[Planet] # NoWorld => Trusted(stored[Planet]) /\ Place(stored[Planet]) = Planet
    BY PlaceFacts DEF IInv, PlaceOK
  <2> QED
    BY <2>1, DefaultTrusted DEF BootPlanet, Trusted
<1>2. BootPlanet # NoWorld /\ BootPlanet.roots \subseteq Addresses
  BY <1>1, WorldFacts
<1>3. known' = [p \in Places |-> IF p = Planet THEN BootPlanet ELSE NoWorld]
  BY DEF Restart
<1>4. /\ stored' \in [Places -> All \cup {NoWorld}]
      /\ \A p \in Places : stored'[p] = stored[p] \/ (p = Planet /\ stored'[p] = BootPlanet)
  BY <1>1, PlaceFacts, StoreOK DEF IInv, TypeOK, Restart
<1>5. peers' = RootsOf({stored[Planet], BootPlanet}) \ {Self}
  BY DEF Restart
<1>6. peers' \subseteq Addresses
  <2>1. {stored[Planet], BootPlanet} \subseteq All \cup {NoWorld}
    BY <1>1, PlaceFacts DEF IInv, TypeOK
  <2> QED
    BY <1>5, <2>1, RootsFacts
<1> HIDE DEF BootPlanet
<1>7. TypeOK'
  BY <1>1, <1>2, <1>3, <1>4, <1>6 DEF IInv, TypeOK, Restart
<1>8. \A p \in Places : PlaceOK(p, known[p])' /\ PlaceOK(p, stored[p])'
  BY <1>1, <1>3, <1>4, TrustKept DEF IInv, PlaceOK, Place, Restart
<1>9. AppOK' /\ OnlyOrbited'
  BY <1>3, PlaceFacts DEF AppOK, OnlyOrbited, Restart, Idle
<1>10. UpstreamsKnown'
  <2>1. {known'[p] : p \in Places} \ {NoWorld} = {BootPlanet}
    BY <1>2, <1>3, PlaceFacts
  <2>2. upstreams' = BootPlanet.roots \ {Self}
    BY DEF Restart
  <2>3. RootsOf({known'[p] : p \in Places}) = BootPlanet.roots
    BY <2>1 DEF RootsOf
  <2>4. BootPlanet.roots \subseteq RootsOf({stored[Planet], BootPlanet})
    BY <1>2 DEF RootsOf
  <2> QED
    BY <1>5, <2>2, <2>3, <2>4 DEF UpstreamsKnown
<1>11. known'[Planet] # NoWorld /\ Self \notin peers' /\ seeds' \subseteq asked'
  BY <1>2, <1>3, <1>5, PlaceFacts DEF Restart
<1> QED
  BY <1>7, <1>8, <1>9, <1>10, <1>11 DEF IInv

\* The steps that leave the worlds alone.
LEMMA StepOther ==
  ASSUME IInv,
         \/ \E a \in Addresses : AddPeer(a) \/ Evict(a)
         \/ \E a \in Addresses : \E worlds \in SUBSET Serves[a] : RecvOK(a, worlds)
         \/ OrbitSeed \/ UNCHANGED vars
  PROVE  IInv'
<1>1. UNCHANGED <<known, upstreams, stored, orbited, asked>>
  BY DEF AddPeer, Evict, RecvOK, OrbitSeed, vars
<1>2. \A p \in Places : PlaceOK(p, known[p])' /\ PlaceOK(p, stored[p])'
  BY <1>1, TrustKept DEF IInv, PlaceOK, Place
<1>3. CASE OrbitSeed
  <2>1. app.id \in MoonIds /\ app.seed \in Addresses
    BY <1>3 DEF OrbitSeed, IInv, TypeOK, Idle
  <2>2. TypeOK' /\ AppOK'
    BY <1>1, <1>3, <2>1 DEF IInv, TypeOK, AppOK, OrbitSeed, Idle
  <2>3. OnlyOrbited' /\ seeds' \subseteq asked'
    BY <1>1, <1>3 DEF IInv, AppOK, OnlyOrbited, OrbitSeed
  <2> QED
    BY <1>1, <1>2, <1>3, <2>2, <2>3 DEF IInv, UpstreamsKnown, OrbitSeed, RootsOf
<1>4. CASE UNCHANGED <<seeds, app>>
  <2>1. AppOK' /\ OnlyOrbited'
    BY <1>1, <1>4, TrustKept DEF IInv, AppOK, OnlyOrbited
  <2>2. UpstreamsKnown' /\ Self \notin peers'
    BY <1>1 DEF IInv, UpstreamsKnown, AddPeer, Evict, Evictable, RecvOK, OrbitSeed, vars, RootsOf
  <2>3. TypeOK'
    <3>1. rx' \subseteq Offers /\ peers' \subseteq Addresses
      BY DEF IInv, TypeOK, AddPeer, Evict, RecvOK, OrbitSeed, vars, Offers
    <3> QED
      BY <1>1, <1>4, <3>1 DEF IInv, TypeOK
  <2> QED
    BY <1>1, <1>2, <1>4, <2>1, <2>2, <2>3 DEF IInv
<1> QED
  BY <1>3, <1>4 DEF AddPeer, Evict, RecvOK, vars

LEMMA StepIInv == IInv /\ [Next]_vars => IInv'
BY StepRecvWorld, StepOrbitStored, StepOrbit, StepDeorbit, StepRestart, StepOther DEF Next

\* The inductive invariant holds always (Topology::addWorld, addMoon, removeMoon
\* and the constructor).
THEOREM InvariantHolds == Spec => []IInv
<1>1. QED
  BY InitIInv, StepIInv, PTL DEF Spec

\* Whoever serves what, and whatever the storage loses: the planet comes from the
\* default one, and a moon from one of its seeds, by signed updates.
THEOREM OnlyTrustedWorlds == Spec => []WorldsTrusted
<1>1. IInv => WorldsTrusted
  <2> SUFFICES ASSUME IInv PROVE WorldsTrusted
    OBVIOUS
  <2>1. known[Planet] \in Family(Default) /\ stored[Planet] \in Family(Default) \cup {NoWorld}
    BY PlaceFacts, WorldFacts DEF IInv, PlaceOK, Trusted
  <2>2. ASSUME NEW id \in MoonIds, NEW m \in {known[id], stored[id]} \ {NoWorld}
        PROVE  Vouched(id, m)
    <3>1. Trusted(m) /\ Place(m) = id
      BY <2>2, PlaceFacts DEF IInv, PlaceOK
    <3> QED
      BY <3>1, WorldFacts, PlaceFacts DEF Trusted
  <2> QED
    BY <2>1, <2>2 DEF WorldsTrusted
<1>2. QED
  BY InvariantHolds, <1>1, PTL

\* A moon is known, or looked for, only while it is orbited.
THEOREM NoMoonComesBack == Spec => []OnlyOrbited
<1>1. IInv => OnlyOrbited
  BY DEF IInv
<1>2. QED
  BY InvariantHolds, <1>1, PTL

\* The upstreams are the roots of the known worlds, and each has a peer.
THEOREM UpstreamsHavePeers == Spec => []UpstreamsKnown
<1>1. IInv => UpstreamsKnown
  BY DEF IInv
<1>2. QED
  BY InvariantHolds, <1>1, PTL

\* addWorld puts a world only in the place of an older one.
LEMMA AddWorldNewer ==
  ASSUME IInv, NEW w \in All, NEW new \in BOOLEAN, AddWorld(w, new),
         NEW p \in Places, known[p] # NoWorld, known'[p] # known[p]
  PROVE  known'[p].ts > known[p].ts
<1>1. known \in [Places -> All \cup {NoWorld}] /\ Place(w) \in Places /\ w.ts \in Nat
  BY WorldFacts DEF IInv, TypeOK
<1>2. known' = [known EXCEPT ![Place(w)] = w] \/ known' = known
  BY DEF AddWorld, Accept, Refuse
<1>3. p = Place(w) /\ known'[p] = w
  BY <1>1, <1>2
<1>4. Replaces(known[p], w)
  BY <1>3 DEF AddWorld, IsOld, Refuse
<1>5. known[p].ts \in Nat
  BY <1>1, WorldFacts
<1> QED
  BY <1>1, <1>3, <1>4, <1>5 DEF Replaces

\* While the node runs, no step brings an older definition of a world back
\* (shouldBeReplacedBy, on every way into addWorld).
THEOREM NeverRolledBack == Spec => NoRollback
<1>1. ASSUME IInv, Next, ~ Restart, NEW p \in Places,
             known[p] # NoWorld, known'[p] # NoWorld, known'[p] # known[p]
      PROVE  known'[p].ts > known[p].ts
  <2>1. CASE \E w \in Offers : RecvWorld(w)
    BY <1>1, <2>1, AddWorldNewer DEF RecvWorld, All
  <2>2. CASE OrbitStored
    <3>1. app.world \in All
      BY <1>1, <2>2 DEF IInv, AppOK, Trusted, OrbitStored
    <3> QED
      BY <1>1, <2>2, <3>1, AddWorldNewer DEF OrbitStored
  <2>3. CASE \E id \in MoonIds : Deorbit(id)
    BY <1>1, <2>3 DEF IInv, TypeOK, Deorbit
  <2>4. CASE known' = known
    BY <1>1, <2>4
  <2> QED
    BY <1>1, <2>1, <2>2, <2>3, <2>4 DEF Next, RecvOK, AddPeer, Evict, Orbit, OrbitSeed
<1>2. IInv /\ [Next]_vars => [\A p \in Places :
         (known[p] # NoWorld /\ known'[p] # NoWorld /\ known'[p] # known[p])
           => known'[p].ts > known[p].ts \/ Restart]_vars
  BY <1>1
<1>3. QED
  BY InvariantHolds, <1>2, PTL DEF Spec, NoRollback
-----------------------------------------------------------------------------
(* What the upstreams report about our own address (SelfAwareness).        *)

\* One or zero, for the inductive invariant.
Debt(c) == IF Outdated(c) THEN 1 ELSE 0

\* The part of the invariant that is about one scope.
Paid(c) == count[c].resets + Debt(c) <= 1 + 2 * count[c].old + count[c].first

LEMMA AwareIInvParts == AwareIInv <=> AwareTypeOK /\ \A c \in Scopes : Paid(c)
BY DEF AwareIInv, Paid, Debt

LEMMA AwareCountFacts ==
  ASSUME AwareTypeOK, NEW c \in Scopes
  PROVE  count[c].old \in Nat /\ count[c].resets \in Nat /\ count[c].first \in Nat
BY DEF AwareTypeOK

LEMMA AwareAgeFacts ==
  ASSUME NEW age \in 0..MaxAge
  PROVE  Older(age) \in 0..MaxAge
BY SelfAssumption DEF Older, MaxAge

LEMMA AwareInitIInv == AwareInit => AwareIInv
<1> SUFFICES ASSUME AwareInit PROVE AwareIInv
  OBVIOUS
<1>1. DOMAIN phy = {}
  BY DEF AwareInit
<1>2. AwareTypeOK
  <2>1. phy \in [DOMAIN phy -> [surface: Surfaces, age: 0..MaxAge]]
    BY <1>1 DEF AwareInit
  <2>2. QED
    BY <1>1, <2>1, SelfAssumption DEF AwareInit, AwareTypeOK, NoCount, MaxAge
<1>3. ASSUME NEW c \in Scopes PROVE Paid(c)
  <2>1. ~ Outdated(c)
    BY <1>1 DEF Outdated
  <2>2. QED
    BY <2>1 DEF AwareInit, Paid, Debt, NoCount
<1>4. QED
  BY <1>2, <1>3 DEF AwareIInv, Paid, Debt

\* A step that resets nothing and makes nothing outdated in a scope.
LEMMA AwarePaidKept ==
  ASSUME AwareTypeOK, NEW c \in Scopes, Paid(c), count'[c] = count[c],
         Outdated(c)' => Outdated(c)
  PROVE  Paid(c)'
BY AwareCountFacts DEF Paid, Debt

\* The address changes: what has been counted starts again.
LEMMA AwareStepChange ==
  ASSUME AwareIInv, NEW c \in Scopes, NEW s \in Surfaces, Change(c, s)
  PROVE  AwareIInv'
<1>1. AwareTypeOK
  BY DEF AwareIInv
<1>2. AwareTypeOK'
  BY <1>1, SelfAssumption DEF AwareTypeOK, Change, NoCount
<1>3. ASSUME NEW d \in Scopes PROVE Paid(d)'
  <2>1. CASE d = c
    <3>1. count'[d] = NoCount
      BY <1>1, <2>1 DEF Change, AwareTypeOK
    <3>2. QED
      BY <3>1 DEF Paid, Debt, NoCount
  <2>2. CASE d # c
    <3>1. count'[d] = count[d] /\ real'[d] = real[d] /\ phy' = phy
      BY <1>1, <2>2 DEF Change, AwareTypeOK
    <3>2. Outdated(d)' => Outdated(d)
      BY <3>1 DEF Outdated
    <3>3. QED
      BY <1>1, <3>1, <3>2, AwarePaidKept, AwareIInvParts
  <2>3. QED
    BY <2>1, <2>2
<1>4. QED
  BY <1>2, <1>3 DEF AwareIInv, Paid, Debt

\* A report: a reset by one that is up to date ends what is outdated, and one that
\* is outdated costs two at most.
LEMMA AwareStepIam ==
  ASSUME AwareIInv, NEW r \in Reporters, Iam(r)
  PROVE  AwareIInv'
<1> DEFINE s == wire[r]
           c == Scope[r]
           reset == ResetsPaths(r, s)
           first == reset /\ r \notin DOMAIN phy
           kept == IF reset THEN OthersOutside(r) ELSE DOMAIN phy \ {r}
<1>1. AwareTypeOK /\ c \in Scopes /\ s \in Surfaces
  <2>1. AwareTypeOK
    BY DEF AwareIInv
  <2>2. c \in Scopes
    BY SelfAssumption DEF Scopes, Range
  <2>3. QED
    BY <2>1, <2>2 DEF AwareTypeOK, Iam
<1>2. kept \subseteq DOMAIN phy \ {r}
  BY DEF OthersOutside
<1>3. /\ DOMAIN phy' = kept \cup {r}
      /\ phy'[r] = [surface |-> s, age |-> 0]
      /\ \A q \in kept : phy'[q] = phy[q]
  <2>1. phy' = [q \in kept \cup {r} |-> IF q = r THEN [surface |-> s, age |-> 0] ELSE phy[q]]
    BY DEF Iam
  <2>2. QED
    BY <1>2, <2>1
<1>4. /\ count' = [count EXCEPT ![c] =
            [old |-> IF s # real[c] THEN count[c].old + 1 ELSE count[c].old,
             resets |-> IF reset THEN count[c].resets + 1 ELSE count[c].resets,
             first |-> IF first THEN count[c].first + 1 ELSE count[c].first]]
      /\ wire' = [wire EXCEPT ![r] = None]
      /\ UNCHANGED <<real, uptime, bg, changes>>
  BY DEF Iam
<1> HIDE DEF s, c, reset, first, kept
<1>5. /\ count'[c].old = IF s # real[c] THEN count[c].old + 1 ELSE count[c].old
      /\ count'[c].resets = IF reset THEN count[c].resets + 1 ELSE count[c].resets
      /\ count'[c].first = IF first THEN count[c].first + 1 ELSE count[c].first
      /\ \A d \in Scopes : d # c => count'[d] = count[d]
  BY <1>1, <1>4 DEF AwareTypeOK
<1>6. AwareTypeOK'
  <2>1. count' \in [Scopes -> [old: Nat, resets: Nat, first: Nat]]
    BY <1>1, <1>4, AwareCountFacts DEF AwareTypeOK
  <2>2. DOMAIN phy' \subseteq Reporters
    BY <1>1, <1>2, <1>3 DEF AwareTypeOK
  <2>3. ASSUME NEW q \in DOMAIN phy'
        PROVE  phy'[q] \in [surface: Surfaces, age: 0..MaxAge]
    <3>1. CASE q = r
      BY <1>1, <1>3, <3>1, SelfAssumption DEF MaxAge
    <3>2. CASE q # r
      BY <1>1, <1>2, <1>3, <2>3, <3>2 DEF AwareTypeOK
    <3>3. QED
      BY <3>1, <3>2
  <2>4. phy' \in [DOMAIN phy' -> [surface: Surfaces, age: 0..MaxAge]]
    <3>1. phy' = [q \in DOMAIN phy' |-> phy'[q]]
      BY DEF Iam
    <3>2. QED
      BY <2>3, <3>1
  <2>5. QED
    BY <1>1, <1>4, <2>1, <2>2, <2>4 DEF AwareTypeOK
<1>7. ASSUME NEW d \in Scopes, d # c
      PROVE  Paid(d)'
  <2>1. Outdated(d)' => Outdated(d)
    BY <1>2, <1>3, <1>4, <1>7 DEF Outdated, c
  <2>2. QED
    BY <1>1, <1>5, <1>7, <2>1, AwarePaidKept, AwareIInvParts
<1>8. Paid(c)'
  <2>1. /\ count[c].old \in Nat /\ count[c].resets \in Nat /\ count[c].first \in Nat
        /\ count[c].resets + Debt(c) <= 1 + 2 * count[c].old + count[c].first
    BY <1>1, AwareCountFacts, AwareIInvParts DEF Paid
  <2>2. CASE s # real[c]
    BY <1>5, <2>1, <2>2 DEF Paid, Debt
  <2>3. CASE s = real[c] /\ ~ reset
    <3>1. Outdated(c)' => Outdated(c)
      BY <1>2, <1>3, <1>4, <2>3 DEF Outdated, c
    <3>2. QED
      BY <1>5, <2>1, <2>3, <3>1 DEF Paid, Debt
  <2>4. CASE s = real[c] /\ reset
    <3>1. ~ Outdated(c)'
      BY <1>3, <1>4, <2>4 DEF Outdated, kept, OthersOutside, c
    <3>2. ~ first => Outdated(c)
      <4>1. r \in Upstreams /\ Entry(r).age < Timeout /\ Entry(r).surface # s
        BY <2>4 DEF reset, ResetsPaths
      <4>2. ~ first => r \in DOMAIN phy
        BY <2>4 DEF first
      <4>3. QED
        BY <2>4, <4>1, <4>2 DEF Outdated, Entry, c
    <3>3. QED
      BY <1>5, <2>1, <2>4, <3>1, <3>2 DEF Paid, Debt
  <2>5. QED
    BY <2>2, <2>3, <2>4
<1>9. QED
  BY <1>6, <1>7, <1>8 DEF AwareIInv, Paid, Debt

LEMMA AwareStepClean ==
  ASSUME AwareIInv, Clean
  PROVE  AwareIInv'
<1> DEFINE S == {r \in DOMAIN phy : ~ Expired(r)}
<1>1. AwareTypeOK
  BY DEF AwareIInv
<1>2. phy' = [r \in S |-> phy[r]] /\ S \subseteq DOMAIN phy
  BY DEF Clean, Restrict
<1> HIDE DEF S
<1>3. AwareTypeOK'
  <2>1. DOMAIN phy' \subseteq Reporters
    BY <1>1, <1>2 DEF AwareTypeOK
  <2>2. phy' \in [DOMAIN phy' -> [surface: Surfaces, age: 0..MaxAge]]
    BY <1>1, <1>2 DEF AwareTypeOK
  <2>3. bg' \in [cleaning: BOOLEAN, lag: 0..MaxLag]
    BY <1>1 DEF AwareTypeOK, Clean
  <2>4. QED
    BY <1>1, <2>1, <2>2, <2>3 DEF AwareTypeOK, Clean
<1>4. ASSUME NEW c \in Scopes PROVE Paid(c)'
  <2>1. Outdated(c)' => Outdated(c)
    BY <1>2 DEF Outdated, Clean
  <2>2. QED
    BY <1>1, <2>1, AwarePaidKept, AwareIInvParts DEF Clean
<1>5. QED
  BY <1>3, <1>4 DEF AwareIInv, Paid, Debt

LEMMA AwareStepTick ==
  ASSUME AwareIInv, Tick
  PROVE  AwareIInv'
<1>1. AwareTypeOK
  BY DEF AwareIInv
<1>2. /\ DOMAIN phy' = DOMAIN phy
      /\ phy' \in [DOMAIN phy -> [surface: Surfaces, age: 0..MaxAge]]
      /\ \A r \in DOMAIN phy : phy'[r].surface = phy[r].surface
  BY <1>1, AwareAgeFacts DEF AwareTypeOK, Tick
<1>3. AwareTypeOK'
  <2>1. bg' \in [cleaning: BOOLEAN, lag: 0..MaxLag]
    BY <1>1, SelfAssumption DEF AwareTypeOK, Tick
  <2>2. uptime' \in 0..MaxAge
    BY <1>1, AwareAgeFacts DEF AwareTypeOK, Tick
  <2>3. QED
    BY <1>1, <1>2, <2>1, <2>2 DEF AwareTypeOK, Tick
<1>4. ASSUME NEW c \in Scopes PROVE Paid(c)'
  <2>1. Outdated(c)' => Outdated(c)
    BY <1>2 DEF Outdated, Tick
  <2>2. QED
    BY <1>1, <2>1, AwarePaidKept, AwareIInvParts DEF Tick
<1>5. QED
  BY <1>3, <1>4 DEF AwareIInv, Paid, Debt

LEMMA AwareStepOther ==
  ASSUME AwareIInv, BeginClean \/ UNCHANGED awareVars \/ \E r \in Reporters : Report(r)
  PROVE  AwareIInv'
<1>1. AwareTypeOK
  BY DEF AwareIInv
<1>2. UNCHANGED <<phy, real, count, uptime, changes>>
  BY DEF BeginClean, awareVars, Report
<1>3. AwareTypeOK'
  <2>1. CASE BeginClean
    BY <1>1, <2>1, SelfAssumption DEF AwareTypeOK, BeginClean
  <2>2. CASE UNCHANGED awareVars
    BY <1>1, <2>2 DEF AwareTypeOK, awareVars
  <2>3. ASSUME NEW r \in Reporters, Report(r)
        PROVE  AwareTypeOK'
    <3>1. real[Scope[r]] \in Surfaces
      BY <1>1, SelfAssumption DEF AwareTypeOK, Scopes, Range
    <3>2. wire' \in [Reporters -> Surfaces \cup {None}]
      BY <1>1, <2>3, <3>1 DEF AwareTypeOK, Report
    <3>3. QED
      BY <1>1, <2>3, <3>2 DEF AwareTypeOK, Report
  <2>4. QED
    BY <2>1, <2>2, <2>3
<1>4. ASSUME NEW c \in Scopes PROVE Paid(c)'
  BY <1>1, <1>2, AwarePaidKept, AwareIInvParts DEF Outdated
<1>5. QED
  BY <1>3, <1>4 DEF AwareIInv, Paid, Debt

LEMMA AwareStepIInv == AwareIInv /\ [AwareNext]_awareVars => AwareIInv'
BY AwareStepChange, AwareStepIam, AwareStepClean, AwareStepTick, AwareStepOther DEF AwareNext

\* The inductive invariant holds always: the resets so far and the one that an
\* outdated entry may still cause are paid for by the change of the address, by
\* outdated reports, and by first reports soon after boot (SelfAwareness::iam).
THEOREM AwareInvariant == AwareSpec => []AwareIInv
<1>1. QED
  BY AwareInitIInv, AwareStepIInv, PTL DEF AwareSpec

\* However many roots see a change of the address, it resets the paths once, each
\* outdated report costs at most two resets more, and each first report in the time
\* after boot at most one (SelfAwareness::iam).
THEOREM ResetsBounded == AwareSpec => []ResetOnce
<1>1. AwareIInv => ResetOnce
  BY AwareCountFacts DEF AwareIInv, ResetOnce
<1>2. QED
  BY AwareInvariant, <1>1, PTL
=============================================================================
