-------------------------- MODULE PeerPathsProofs --------------------------
(***************************************************************************)
(* Proofs about PeerPaths, for every table size, every set of paths and    *)
(* every period.                                                           *)
(***************************************************************************)
EXTENDS PeerPaths, SetFacts, TLAPS

\* What an entry that is written to the table is made of.
LEMMA EntryType ==
  ASSUME NEW p \in Paths, NEW r \in 1..MaxPriority
  PROVE  [p |-> p, lr |-> 0, priority |-> r] \in PeerPath
  BY PathsAssumption DEF PeerPath

\* An empty slot is an entry.
LEMMA EmptyType == Empty \in PeerPath /\ Empty.p = NoPath
  BY PathsAssumption DEF PeerPath, Empty

\* A path that is in the table is a path.
LEMMA UsedPath ==
  ASSUME TypeOK, NEW s \in Slots
  PROVE  /\ paths[s] \in PeerPath
         /\ Used(s) <=> paths[s].p \in Paths
  BY PathsAssumption DEF TypeOK, PeerPath, Used

\* A nonempty set of slots has a first one.
LEMMA FirstSlot ==
  ASSUME NEW S \in SUBSET Slots, S # {}
  PROVE  Min(S) \in S /\ Min(S) \in Slots /\ \A s \in S : Min(S) <= s
  <1>1. S \in SUBSET Nat
    BY PathsAssumption DEF Slots
  <1> QED BY <1>1, MinOf

\* The initial state satisfies the invariant.
LEMMA InitIInv == Init => IInv
  <1> SUFFICES ASSUME Init PROVE IInv
    OBVIOUS
  <1>1. \A s \in Slots : ~ Used(s)
    BY EmptyType DEF Init, Used
  <1>2. TypeOK
    BY EmptyType, PathsAssumption DEF Init, TypeOK, Idle, NoPass, Verbs
  <1> QED
    BY <1>1, <1>2 DEF Init, IInv, Front, StillUnknown, OnePerHost, Idle

\* A step that leaves the entries' paths where they are, keeps the shape of the
\* table, and what is unknown of it if no packet is being learned.
LEMMA SamePlaces ==
  ASSUME IInv, pass' = pass, \A s \in Slots : paths'[s].p = paths[s].p
  PROVE  Front' /\ OnePerHost'
  BY DEF IInv, Front, OnePerHost, Used

\* onRemotePacket hears a packet.
LEMMA StepPacketIn == ASSUME IInv, NEW p \in Paths, NEW v \in Verbs, PacketIn(p, v) PROVE IInv'
  <1>1. TypeOK'
    BY PathsAssumption DEF IInv, TypeOK, PacketIn
  <1>2. Front' /\ OnePerHost'
    BY SamePlaces DEF PacketIn
  <1>3. StillUnknown'
    BY DEF PacketIn, StillUnknown
  <1> QED BY <1>1, <1>2, <1>3 DEF IInv

\* The packet is not one that says anything of the table.
LEMMA StepQuiet == ASSUME IInv, Ignored \/ Contact PROVE IInv'
  <1>1. TypeOK'
    <2>1. CASE Ignored
      BY <2>1 DEF IInv, TypeOK, Ignored, Idle, Verbs
    <2>2. CASE Contact
      <3>1. lastOut' \in [Paths -> 0..Heartbeat]
        BY <2>2, PathsAssumption DEF IInv, TypeOK, Contact
      <3> QED BY <2>2, <3>1 DEF IInv, TypeOK, Contact, Idle, Verbs
    <2> QED BY <2>1, <2>2
  <1>2. paths' = paths /\ pass' = pass /\ rx' = Idle
    BY DEF Ignored, Contact
  <1>3. Front' /\ OnePerHost'
    BY <1>2, SamePlaces
  <1>4. StillUnknown'
    BY <1>2 DEF StillUnknown, Idle
  <1> QED BY <1>1, <1>3, <1>4 DEF IInv

\* Peer::received finds the path, or a live one of its host.
LEMMA StepHavePath == ASSUME IInv, HavePath PROVE IInv'
  <1>1. PICK s \in Slots : paths' = IF paths[s].p = rx.path THEN [paths EXCEPT ![s].lr = 0] ELSE paths
    BY DEF HavePath
  <1>2. \A t \in Slots : paths[t] \in PeerPath
    BY UsedPath DEF IInv
  <1>3. paths' \in [Slots -> PeerPath] /\ \A t \in Slots : paths'[t].p = paths[t].p
    BY <1>1, <1>2, PathsAssumption DEF IInv, TypeOK, PeerPath
  <1>4. TypeOK'
    BY <1>3 DEF IInv, TypeOK, HavePath, Idle, Verbs
  <1>5. Front' /\ OnePerHost'
    BY <1>3, SamePlaces DEF HavePath
  <1>6. StillUnknown'
    BY DEF HavePath, StillUnknown, Idle
  <1> QED BY <1>4, <1>5, <1>6 DEF IInv

\* Peer::received decides to learn the path: nothing in the table is known to it.
LEMMA StepBeginLearn == ASSUME IInv, BeginLearn PROVE IInv'
  <1>1. TypeOK'
    BY DEF IInv, TypeOK, BeginLearn
  <1>2. Front' /\ OnePerHost'
    BY SamePlaces DEF BeginLearn
  <1>3. StillUnknown'
    <2> SUFFICES ASSUME NEW s \in Slots, Used(s), s \in Stops(rx.path) PROVE FALSE
      <3>1. rx.path \in Paths /\ rx'.path = rx.path /\ lastIn' = lastIn /\ paths' = paths
        BY DEF IInv, TypeOK, BeginLearn
      <3>2. \A s \in Slots : Used(s) => lastIn[paths[s].p] \in Int
        BY UsedPath, PathsAssumption DEF IInv, TypeOK
      <3>3. Alive \in Int
        BY PathsAssumption
      <3> QED BY <3>1, <3>2, <3>3 DEF StillUnknown, Stops, Used
    <2> DEFINE m == Min(Stops(rx.path))
    <2>1. m \in Stops(rx.path) /\ m \in Slots /\ m <= s
      BY FirstSlot DEF Stops
    <2>2. Used(m)
      BY <2>1, PathsAssumption DEF IInv, Front, BeginLearn, LockFree, Slots
    <2> QED
      BY <2>1, <2>2 DEF BeginLearn, Unknown, KnownAt
  <1> QED BY <1>1, <1>2, <1>3 DEF IInv

\* Peer::received learns a path in the place of a dead one, of the oldest, or
\* behind the others.
LEMMA StepLearn == ASSUME IInv, Learn PROVE IInv'
  <1>0. /\ TypeOK /\ rx.path \in Paths /\ pass.at = 0 /\ pass' = pass /\ rx' = Idle
        /\ lastIn' = lastIn
    BY DEF IInv, TypeOK, Learn, LockFree
  <1>1. CASE paths' = paths
    <2>1. TypeOK'
      BY <1>1 DEF IInv, TypeOK, Learn, Idle, Verbs
    <2>2. Front' /\ OnePerHost'
      BY <1>0, <1>1, SamePlaces
    <2> QED BY <1>0, <2>1, <2>2 DEF IInv, StillUnknown, Idle
  <1>2. ASSUME NEW s \in LearnSlots(rx.path),
               paths' = [paths EXCEPT ![s] = [p |-> rx.path, lr |-> 0, priority |-> 1]]
        PROVE  IInv'
    <2>1. s \in Slots
      <3>1. Replaceable(rx.path) \in SUBSET Slots
        BY DEF Replaceable
      <3> QED BY <1>2, <3>1, FirstSlot DEF LearnSlots, Oldest
    <2>2. TypeOK'
      <3>1. [p |-> rx.path, lr |-> 0, priority |-> 1] \in PeerPath
        BY <1>0, PathsAssumption, EntryType
      <3> QED BY <1>0, <1>2, <2>1, <3>1 DEF TypeOK, Learn, Idle, Verbs
    <2>3. \A t \in Slots : Used(t)' <=> t = s \/ Used(t)
      BY <1>0, <1>2, <2>1, PathsAssumption DEF TypeOK, Used
    \* Every path of the same host was replaceable.
    <2>4. \A t \in Slots : Used(t) /\ Host[paths[t].p] = Host[rx.path] => t \in Replaceable(rx.path)
      BY DEF IInv, StillUnknown, Learn, Replaceable
    <2>5. CASE Replaceable(rx.path) = {}
      <3>1. \A t \in Slots : Used(t)
        BY <2>5 DEF Replaceable
      <3>2. Front'
        BY <2>3, <3>1 DEF Front
      <3>3. \A t \in Slots : Host[paths[t].p] # Host[rx.path]
        BY <2>4, <2>5, <3>1
      <3>4. OnePerHost'
        BY <1>0, <1>2, <2>1, <2>3, <3>3 DEF IInv, OnePerHost, TypeOK, Used
      <3> QED BY <1>0, <2>2, <3>2, <3>4 DEF IInv, StillUnknown, Idle
    <2>6. CASE Replaceable(rx.path) # {}
      <3>1. s = Min(Replaceable(rx.path))
        BY <1>2, <2>6 DEF LearnSlots
      <3>2. s \in Replaceable(rx.path) /\ \A t \in Replaceable(rx.path) : s <= t
        BY <3>1, <2>6, FirstSlot DEF Replaceable
      \* The slots in front of it are used.
      <3>3. \A t \in Slots : t < s => Used(t)
        BY <2>1, <3>2, PathsAssumption DEF Replaceable, Slots
      <3>4. Front'
        BY <1>0, <2>1, <2>3, <3>3, PathsAssumption DEF IInv, Front, Slots
      <3>5. \A t \in Slots : Used(t) /\ Host[paths[t].p] = Host[rx.path] => t = s
        <4> SUFFICES ASSUME NEW t \in Slots, Used(t), Host[paths[t].p] = Host[rx.path] PROVE t = s
          OBVIOUS
        <4>1. t \in Replaceable(rx.path) /\ s <= t
          BY <2>4, <3>2
        <4>2. CASE Used(s)
          BY <2>1, <3>2, <4>2 DEF Replaceable, IInv, OnePerHost
        <4>3. CASE ~ Used(s)
          BY <1>0, <2>1, <4>1, <4>3, PathsAssumption DEF IInv, Front, Slots
        <4> QED BY <4>2, <4>3
      <3>6. OnePerHost'
        <4>1. \A t \in Slots : t # s => paths'[t] = paths[t]
          BY <1>0, <1>2, <2>1 DEF TypeOK
        <4>2. paths'[s].p = rx.path
          BY <1>0, <1>2, <2>1 DEF TypeOK
        <4> QED BY <2>3, <3>5, <4>1, <4>2 DEF IInv, OnePerHost, Used
      <3> QED BY <1>0, <2>2, <3>4, <3>6 DEF IInv, StillUnknown, Idle
    <2> QED BY <2>5, <2>6
  <1> QED BY <1>1, <1>2 DEF Learn

\* clusterRedirect rebuilds the table.
LEMMA StepClusterRedirect == ASSUME IInv, NEW n \in Paths, ClusterRedirect(n) PROVE IInv'
  <1>0. TypeOK /\ pass.at = 0 /\ pass' = pass /\ rx' = rx /\ rx.pc = "handle"
    BY DEF IInv, ClusterRedirect, LockFree
  <1>1. PICK k \in 0..MaxPaths : \E f \in [1..k -> Slots] :
          /\ InOrder(f, k, Kept(n))
          /\ paths' = [t \in Slots |->
               IF t <= k THEN paths[f[t]]
               ELSE IF t = k + 1 THEN [p |-> n, lr |-> 0, priority |-> NewPriority]
               ELSE Empty]
    BY DEF ClusterRedirect
  <1>2. PICK f \in [1..k -> Slots] :
          /\ InOrder(f, k, Kept(n))
          /\ paths' = [t \in Slots |->
               IF t <= k THEN paths[f[t]]
               ELSE IF t = k + 1 THEN [p |-> n, lr |-> 0, priority |-> NewPriority]
               ELSE Empty]
    BY <1>1
  <1>3. NewPriority \in 1..MaxPriority
    <2> DEFINE at == {s \in Slots : paths[s].p = rx.path}
    <2>1. at # {} => Min(at) \in Slots
      BY FirstSlot
    <2>2. at # {} => paths[Min(at)].priority \in 1..MaxPriority
      BY <2>1, <1>0, UsedPath DEF PeerPath
    <2>3. (IF at = {} THEN 1 ELSE paths[Min(at)].priority) + 2 \in Nat \ {0}
      BY <2>2, PathsAssumption
    <2> QED BY <2>3, PathsAssumption DEF NewPriority, ClusterRedirect
  <1>4. \A t \in Slots : t <= k => t \in 1..k /\ f[t] \in Slots /\ paths'[t] = paths[f[t]]
                                    /\ Used(f[t]) /\ Net[paths[f[t]].p] # Net[n]
    <2> SUFFICES ASSUME NEW t \in Slots, t <= k
                 PROVE  t \in 1..k /\ f[t] \in Slots /\ paths'[t] = paths[f[t]]
                          /\ Used(f[t]) /\ Net[paths[f[t]].p] # Net[n]
      OBVIOUS
    <2>1. t \in 1..k /\ f[t] \in Slots
      BY PathsAssumption DEF Slots
    <2>2. f[t] \in Kept(n)
      BY <1>2, <2>1 DEF InOrder
    <2> QED BY <1>2, <2>1, <2>2 DEF Kept
  <1>5. \A t \in Slots : t > k => paths'[t] = IF t = k + 1 THEN [p |-> n, lr |-> 0, priority |-> NewPriority]
                                                          ELSE Empty
    BY <1>2, PathsAssumption DEF Slots
  <1>6. [p |-> n, lr |-> 0, priority |-> NewPriority] \in PeerPath
    BY <1>3, EntryType
  <1>7. paths' \in [Slots -> PeerPath]
    <2>1. \A t \in Slots : paths'[t] \in PeerPath
      BY <1>0, <1>4, <1>5, <1>6, EmptyType, PathsAssumption, UsedPath DEF Slots
    <2> QED BY <1>2, <2>1
  <1>8. TypeOK'
    BY <1>7 DEF IInv, TypeOK, ClusterRedirect
  <1>9. \A t \in Slots : Used(t)' <=> t <= k + 1
    <2> SUFFICES ASSUME NEW t \in Slots PROVE Used(t)' <=> t <= k + 1
      OBVIOUS
    <2>1. t \in Int /\ k \in Int
      BY DEF Slots
    <2>2. CASE t <= k
      BY <1>4, <2>1, <2>2 DEF Used
    <2>3. CASE t = k + 1
      BY <1>5, <2>1, <2>3, PathsAssumption DEF Used
    <2>4. CASE t > k + 1
      BY <1>5, <2>1, <2>4, EmptyType DEF Used
    <2> QED BY <2>1, <2>2, <2>3, <2>4
  <1>10. Front'
    BY <1>9 DEF Front, Slots
  <1>11. OnePerHost'
    <2> SUFFICES ASSUME NEW s \in Slots, NEW t \in Slots, Used(s)', Used(t)',
                        Host[paths'[s].p] = Host[paths'[t].p], s < t
                 PROVE  FALSE
      BY DEF OnePerHost, Slots
    <2>1. s <= k /\ t <= k + 1
      BY <1>9 DEF Slots
    <2>2. CASE t <= k
      <3>1. f[s] < f[t]
        BY <1>2, <1>4, <2>1, <2>2 DEF InOrder
      <3>2. f[s] = f[t]
        BY <1>4, <2>1, <2>2 DEF IInv, OnePerHost
      <3> QED BY <3>1, <3>2, <1>4, <2>1, <2>2 DEF Slots
    <2>3. CASE t = k + 1
      <3>1. paths'[t].p = n
        BY <1>5, <2>3
      <3>2. paths'[s].p \in Paths /\ Net[paths'[s].p] # Net[n]
        BY <1>0, <1>4, <2>1, UsedPath
      <3> QED BY <3>1, <3>2, PathsAssumption
    <2> QED BY <2>1, <2>2, <2>3 DEF Slots
  <1> QED
    BY <1>0, <1>8, <1>10, <1>11 DEF IInv, StillUnknown

\* resetWithinScope touches times only.
LEMMA StepReset == ASSUME IInv, NEW sc, ResetWithinScope(sc) PROVE IInv'
  <1>1. \A s \in Slots : paths[s] \in PeerPath
    BY UsedPath DEF IInv
  <1>2. Never(Expiration) \in 0..Expiration
    BY PathsAssumption DEF IInv, TypeOK, Never, Least
  <1>3. paths' \in [Slots -> PeerPath] /\ \A s \in Slots : paths'[s].p = paths[s].p
    BY <1>1, <1>2 DEF ResetWithinScope, PeerPath
  <1>4. lastOut' \in [Paths -> 0..Heartbeat]
    BY PathsAssumption DEF IInv, TypeOK, ResetWithinScope
  <1>5. TypeOK'
    BY <1>3, <1>4 DEF IInv, TypeOK, ResetWithinScope
  <1>6. Front' /\ OnePerHost'
    BY <1>3, SamePlaces DEF ResetWithinScope
  <1> QED BY <1>5, <1>6 DEF IInv, ResetWithinScope, StillUnknown

\* doPingAndKeepalive begins.
LEMMA StepBeginPass == ASSUME IInv, BeginPass PROVE IInv'
  <1> DEFINE S == {0} \cup {paths[s].priority : s \in {t \in Slots : Used(t)}}
  <1>1. S \in SUBSET (0..MaxPriority) /\ S # {}
    BY UsedPath, PathsAssumption DEF IInv, PeerPath
  <1>2. Max(S) \in 0..MaxPriority
    <2> HIDE DEF S
    <2>1. MaxPriority \in Nat
      BY PathsAssumption
    <2> QED BY <1>1, <2>1, MaxOf
  <1>3. TypeOK'
    BY <1>2, PathsAssumption DEF IInv, TypeOK, BeginPass
  <1>4. paths' = paths /\ lastIn' = lastIn /\ rx' = rx /\ pass.at = 0
    BY DEF BeginPass, LockFree
  <1>5. Front'
    BY <1>4 DEF IInv, Front, Used, Slots
  <1> QED BY <1>3, <1>4, <1>5 DEF IInv, StillUnknown, OnePerHost, Used

\* What the pass does to slot s if its path is not current: the next path, which
\* is in the next slot, moves up.
LEMMA CompactStep ==
  ASSUME IInv, NEW s \in Slots, s = pass.at, paths' = Compacted(s)
  PROVE  /\ paths' \in [Slots -> PeerPath]
         /\ \A t \in Slots : t # s /\ t # s + 1 => paths'[t] = paths[t]
         /\ \/ /\ paths'[s] = Empty
               /\ \A t \in Slots : t > s => ~ Used(t) /\ paths'[t] = paths[t]
            \/ /\ s + 1 \in Slots /\ Used(s + 1)
               /\ paths'[s] = paths[s + 1] /\ paths'[s + 1] = Empty
  <1>0. TypeOK
    BY DEF IInv
  <1>1. CASE Behind(s) = {}
    <2>1. paths' = [paths EXCEPT ![s] = Empty]
      BY <1>1 DEF Compacted
    <2>2. \A t \in Slots : t > s => ~ Used(t)
      BY <1>1 DEF Behind
    <2>3. paths' \in [Slots -> PeerPath] /\ paths'[s] = Empty /\ \A t \in Slots : t # s => paths'[t] = paths[t]
      BY <1>0, <2>1, EmptyType DEF TypeOK
    <2> QED BY <2>2, <2>3 DEF Slots
  <1>2. CASE Behind(s) # {}
    <2> DEFINE u == Min(Behind(s))
    <2>1. u \in Slots /\ u > s /\ Used(u) /\ \A t \in Behind(s) : u <= t
      BY <1>2, FirstSlot DEF Behind
    <2>2. u = s + 1
      <3> SUFFICES ASSUME s + 1 # u PROVE FALSE
        OBVIOUS
      <3>1. s + 1 \in Slots /\ s + 1 < u /\ s + 1 # pass.at
        <4> HIDE DEF u
        <4> QED BY <2>1, PathsAssumption DEF Slots
      <3>2. Used(s + 1)
        BY <2>1, <3>1 DEF IInv, Front
      <3>3. s + 1 \in Behind(s)
        BY <3>1, <3>2 DEF Behind, Slots
      <3> QED BY <2>1, <3>1, <3>3 DEF Slots
    <2>3. paths' = [paths EXCEPT ![s] = paths[u], ![u] = Empty]
      BY <1>2 DEF Compacted
    <2> HIDE DEF u
    <2>4. paths[u] \in PeerPath /\ s # u /\ s + 1 \in Slots
      BY <1>0, <2>1, <2>2, UsedPath DEF Slots
    <2> QED BY <1>0, <2>1, <2>2, <2>3, <2>4, EmptyType DEF TypeOK
  <1> QED BY <1>1, <1>2

\* One step of the loop of doPingAndKeepalive.
LEMMA StepPassStep == ASSUME IInv, PassStep PROVE IInv'
  <1> DEFINE s == pass.at
  <1>0. TypeOK /\ s \in Slots /\ rx' = rx /\ lastIn' = lastIn /\ rx.path = rx.path'
    BY DEF IInv, TypeOK, PassStep, Slots
  <1>1. pass' \in [at: 0..MaxPaths, hello: BOOLEAN, maxPriority: 0..MaxPriority]
    <2>1. NoPass \in [at: 0..MaxPaths, hello: BOOLEAN, maxPriority: 0..MaxPriority]
      BY PathsAssumption DEF NoPass
    <2>2. s # MaxPaths => s + 1 \in 0..MaxPaths
      BY <1>0, PathsAssumption DEF Slots
    <2> QED BY <1>0, <2>1, <2>2 DEF TypeOK, PassStep
  <1>2. pass'.at = IF s = MaxPaths THEN 0 ELSE s + 1
    BY <1>0 DEF TypeOK, PassStep, NoPass
  <1>3. CASE Current(s)
    <2>1. paths' = paths
      BY <1>3 DEF PassStep
    <2>2. lastOut' \in [Paths -> 0..Heartbeat]
      BY <1>3, <1>0, PathsAssumption DEF TypeOK, PassStep
    <2>3. TypeOK'
      BY <1>1, <2>1, <2>2 DEF IInv, TypeOK, PassStep
    <2>4. Front'
      BY <1>0, <1>2, <1>3, <2>1 DEF IInv, Front, Used, Current, Slots
    <2> QED BY <1>0, <2>1, <2>3, <2>4 DEF IInv, StillUnknown, OnePerHost, Used
  <1>4. CASE ~ Current(s)
    <2>1. paths' = Compacted(s) /\ lastOut' = lastOut
      BY <1>4 DEF PassStep
    <2>2. /\ paths' \in [Slots -> PeerPath]
          /\ \A t \in Slots : t # s /\ t # s + 1 => paths'[t] = paths[t]
          /\ \/ /\ paths'[s] = Empty
                /\ \A t \in Slots : t > s => ~ Used(t) /\ paths'[t] = paths[t]
             \/ /\ s + 1 \in Slots /\ Used(s + 1)
                /\ paths'[s] = paths[s + 1] /\ paths'[s + 1] = Empty
      BY <1>0, <2>1, CompactStep
    <2>3. TypeOK'
      BY <1>1, <2>1, <2>2 DEF IInv, TypeOK, PassStep
    <2> HIDE DEF s
    <2>4. CASE paths'[s] = Empty /\ \A t \in Slots : t > s => ~ Used(t) /\ paths'[t] = paths[t]
      <3>1. \A t \in Slots : Used(t)' => t < s /\ Used(t) /\ paths'[t] = paths[t]
        BY <1>0, <2>2, <2>4, EmptyType DEF Used, Slots
      <3>2. \A t \in Slots : t < s => paths'[t] = paths[t]
        BY <1>0, <2>2 DEF Slots
      <3>3. Front'
        <4> SUFFICES ASSUME NEW t \in Slots, NEW u \in Slots, t < u, Used(u)' PROVE Used(t)'
          BY DEF Front
        <4>1. Used(u) /\ u < s /\ t < s
          BY <1>0, <3>1 DEF Slots
        <4>2. Used(t)
          BY <4>1, <1>0 DEF IInv, Front, Slots, s
        <4> QED BY <3>2, <4>1, <4>2 DEF Used
      <3>4. OnePerHost' /\ StillUnknown'
        BY <1>0, <3>1 DEF IInv, OnePerHost, StillUnknown
      <3> QED BY <2>3, <3>3, <3>4 DEF IInv
    <2>5. CASE s + 1 \in Slots /\ Used(s + 1) /\ paths'[s] = paths[s + 1] /\ paths'[s + 1] = Empty
      <3>0. s # s + 1 /\ pass'.at = s + 1
        BY <1>0, <1>2, <2>5 DEF Slots, s
      \* Where the path in slot t was before.
      <3> DEFINE from(t) == IF t = s THEN s + 1 ELSE t
      <3>1. \A t \in Slots : Used(t)' => /\ from(t) \in Slots /\ t # s + 1 /\ Used(from(t))
                                         /\ paths'[t] = paths[from(t)]
        BY <1>0, <2>2, <2>5, EmptyType DEF Used
      <3>2. \A t, u \in Slots : Used(t)' /\ Used(u)' /\ from(t) = from(u) => t = u
        BY <3>1
      <3>3. OnePerHost' /\ StillUnknown'
        <4> HIDE DEF from
        <4> QED BY <1>0, <3>1, <3>2 DEF IInv, OnePerHost, StillUnknown
      <3>4. Front'
        <4> SUFFICES ASSUME NEW t \in Slots, NEW u \in Slots, t < u, Used(u)', t # s + 1 PROVE Used(t)'
          BY <3>0 DEF Front
        <4>1. CASE t = s
          BY <2>5, <4>1 DEF Used
        <4>2. CASE t # s
          <5>1. Used(from(u)) /\ from(u) \in Slots /\ t < from(u)
            BY <3>1, <1>0 DEF Slots
          <5>2. Used(t)
            BY <4>2, <5>1 DEF IInv, Front, s
          <5> QED BY <2>2, <4>2, <5>2 DEF Used
        <4> QED BY <4>1, <4>2
      <3> QED BY <2>3, <3>3, <3>4 DEF IInv
    <2> QED BY <2>2, <2>4, <2>5
  <1> QED BY <1>3, <1>4

\* The topology forgets a path that is not in the table.
LEMMA StepForgetPath == ASSUME IInv, NEW p \in Paths, ForgetPath(p) PROVE IInv'
  <1>1. Never(Alive) \in 0..Alive /\ Never(Heartbeat) \in 0..Heartbeat
    BY PathsAssumption DEF IInv, TypeOK, Never, Least
  <1>2. TypeOK'
    BY <1>1 DEF IInv, TypeOK, ForgetPath
  <1>3. Front' /\ OnePerHost'
    BY SamePlaces DEF ForgetPath
  <1>4. \A s \in Slots : lastIn'[paths[s].p] = lastIn[paths[s].p]
    BY DEF ForgetPath, InTable, IInv, TypeOK
  <1> QED BY <1>2, <1>3, <1>4 DEF IInv, ForgetPath, StillUnknown, Used

\* A packet is sent on a path.
LEMMA StepSend == ASSUME IInv, NEW p \in Paths, Send(p) PROVE IInv'
  <1>1. TypeOK'
    BY PathsAssumption DEF IInv, TypeOK, Send
  <1>2. Front' /\ OnePerHost'
    BY SamePlaces DEF Send
  <1> QED BY <1>1, <1>2 DEF IInv, Send, StillUnknown, Used

\* Time passes between handlers.
LEMMA StepTick == ASSUME IInv, Tick PROVE IInv'
  <1>1. \A s \in Slots : paths[s] \in PeerPath
    BY UsedPath DEF IInv
  <1>2. paths' \in [Slots -> PeerPath] /\ \A s \in Slots : paths'[s].p = paths[s].p
    BY <1>1, PathsAssumption DEF Tick, PeerPath, Older
  <1>3. /\ lastIn' \in [Paths -> 0..Alive] /\ lastOut' \in [Paths -> 0..Heartbeat]
        /\ uptime' \in 0..Expiration /\ sinceHello' \in 0..PingPeriod
    BY PathsAssumption DEF IInv, TypeOK, Tick, Older
  <1>4. TypeOK'
    BY <1>2, <1>3 DEF IInv, TypeOK, Tick
  <1>5. Front' /\ OnePerHost'
    BY <1>2, SamePlaces DEF Tick
  <1> QED BY <1>4, <1>5 DEF IInv, Tick, StillUnknown

\* Every step preserves the invariant.
LEMMA StepIInv == IInv /\ [Next]_vars => IInv'
  <1> SUFFICES ASSUME IInv, [Next]_vars PROVE IInv'
    OBVIOUS
  <1>1. CASE UNCHANGED vars
    BY <1>1 DEF IInv, TypeOK, Front, StillUnknown, OnePerHost, Used, vars
  <1>2. CASE RxTask
    <2>1. CASE RxStep
      BY <2>1, StepQuiet, StepHavePath, StepBeginLearn, StepLearn DEF RxStep
    <2>2. CASE \E p \in Paths, v \in Verbs : PacketIn(p, v)
      BY <2>2, StepPacketIn
    <2>3. CASE \E n \in Paths : ClusterRedirect(n)
      BY <2>3, StepClusterRedirect
    <2>4. CASE \E sc \in {Scope[p] : p \in Paths} : ResetWithinScope(sc)
      BY <2>4, StepReset
    <2> QED BY <1>2, <2>1, <2>2, <2>3, <2>4 DEF RxTask
  <1>3. CASE BgTask
    BY <1>3, StepBeginPass, StepPassStep, StepForgetPath DEF BgTask
  <1>4. CASE Tick
    BY <1>4, StepTick
  <1>5. CASE \E p \in Paths : Send(p)
    BY <1>5, StepSend
  <1> QED BY <1>1, <1>2, <1>3, <1>4, <1>5 DEF Next

\* The inductive invariant holds in every state of the table.
THEOREM InvariantHolds == Spec => []IInv
  BY InitIInv, StepIInv, PTL DEF Spec

\* Every variable of the table keeps its type.
THEOREM TypeCorrect == Spec => []TypeOK
  <1>1. IInv => TypeOK
    BY DEF IInv
  <1> QED BY <1>1, InvariantHolds, PTL

\* Whoever takes the lock finds the table without holes.
THEOREM TableCompact == Spec => []NoHoles
  <1>1. IInv => NoHoles
    BY DEF IInv, Front, NoHoles, LockFree, Slots
  <1> QED BY <1>1, InvariantHolds, PTL

\* No two paths of the table lead to one host.
THEOREM HostsDistinct == Spec => []OnePerHost
  <1>1. IInv => OnePerHost
    BY DEF IInv
  <1> QED BY <1>1, InvariantHolds, PTL

\* No step of a pass loses a current path.
THEOREM CurrentKept == Spec => PassKeepsCurrent
  <1> DEFINE Keeps == pass.at > 0 => \A s \in Slots : Current(s) => \E t \in Slots : paths'[t] = paths[s]
  <1>1. IInv /\ [Next]_vars => [Keeps]_vars
    <2> SUFFICES ASSUME IInv, [Next]_vars, pass.at > 0, NEW s \in Slots, Current(s)
                 PROVE  \E t \in Slots : paths'[t] = paths[s]
      OBVIOUS
    <2>1. CASE paths' = paths
      BY <2>1
    <2>2. CASE PassStep
      <3> DEFINE a == pass.at
      <3>1. a \in Slots
        BY DEF IInv, TypeOK, Slots
      <3>2. CASE Current(a)
        BY <2>2, <3>2 DEF PassStep
      <3>3. CASE ~ Current(a)
        <4>1. paths' = Compacted(a) /\ s # a
          BY <2>2, <3>3 DEF PassStep
        <4>2. /\ \A t \in Slots : t # a /\ t # a + 1 => paths'[t] = paths[t]
              /\ \/ \A t \in Slots : t > a => ~ Used(t) /\ paths'[t] = paths[t]
                 \/ paths'[a] = paths[a + 1]
          BY <3>1, <4>1, CompactStep
        <4>3. CASE s = a + 1
          BY <3>1, <4>2, <4>3 DEF Slots
        <4>4. CASE s # a + 1
          BY <4>1, <4>2, <4>4
        <4> QED BY <4>3, <4>4
      <3> QED BY <3>2, <3>3
    <2>3. CASE RxTask \/ BgTask \/ Tick
      <3>1. CASE RxTask
        BY <2>1, <3>1 DEF RxTask, RxStep, PacketIn, Ignored, HavePath, Contact, BeginLearn,
           Learn, ClusterRedirect, ResetWithinScope, LockFree, IInv, TypeOK
      <3>2. CASE BgTask
        BY <2>1, <2>2, <3>2 DEF BgTask, BeginPass, ForgetPath
      <3>3. CASE Tick
        BY <3>3 DEF Tick, LockFree, IInv, TypeOK
      <3> QED BY <2>3, <3>1, <3>2, <3>3
    <2>4. CASE \E p \in Paths : Send(p)
      BY <2>1, <2>4 DEF Send
    <2> QED BY <2>1, <2>3, <2>4 DEF Next, vars
  <1> QED BY <1>1, InvariantHolds, PTL DEF Spec, PassKeepsCurrent
=============================================================================
