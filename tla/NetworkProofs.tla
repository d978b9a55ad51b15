--------------------------- MODULE NetworkProofs ----------------------------
(***************************************************************************)
(* Proofs about a Network, in two parts.                                   *)
(*                                                                         *)
(* Its configuration: NetConfig implements NetworkPromise, for every set of*)
(* updates, every number of slots and chunks, and storage that keeps or does*)
(* not keep configurations.                                                *)
(*                                                                         *)
(* Its members: the outcome does not depend on the order in which credentials*)
(* and revocations arrive, for any set of credentials, any bound on time and*)
(* any delta (Membership).                                                 *)
(***************************************************************************)
EXTENDS NetConfig, Membership, SetFacts, FiniteSetTheorems

\* Two slots that differ at most in their counters.
Alike(a, b) ==
  /\ a.updateId = b.updateId /\ a.have = b.have
  /\ a.haveBytes = b.haveBytes /\ a.data = b.data

\* A slot that no update has had.
Fresh(e) == e.updateId = None /\ e.have = {}

LEMMA AlikeOK ==
  ASSUME NEW a, NEW b, Alike(a, b)
  PROVE  /\ SlotOK(a) => SlotOK(b)
         /\ Fresh(a) => Fresh(b)
BY DEF Alike, SlotOK, Fresh

\* There is a lowest slot.
LEMMA LowestOK ==
  ASSUME incoming \in [Slots -> Slot]
  PROVE  Lowest \in Slots
<1> DEFINE T == {incoming[s].ts : s \in Slots}
           m == Min(T)
           S == {s \in Slots : incoming[s].ts = m}
           x == Min(S)
<1>1. \A s \in Slots : s \in Nat /\ incoming[s].ts \in Nat
  BY DEF Slots, Slot
<1>2. 1 \in Slots
  BY NetAssumption DEF Slots
<1>3. T \in SUBSET Nat /\ T # {}
  BY <1>1, <1>2
<1>4. m \in T /\ \A y \in T : m <= y
  <2> HIDE DEF T
  <2> QED BY <1>3, MinOf
<1>5. S \in SUBSET Nat /\ S # {}
  BY <1>1, <1>4
<1>6. x \in S /\ \A y \in S : x <= y
  <2> HIDE DEF S
  <2> QED BY <1>5, MinOf
<1>7. \A t \in Slots : \/ incoming[x].ts < incoming[t].ts
                       \/ incoming[x].ts = incoming[t].ts /\ x <= t
  <2> TAKE t \in Slots
  <2>1. incoming[t].ts \in T
    OBVIOUS
  <2>2. m <= incoming[t].ts /\ incoming[x].ts = m /\ m \in Nat /\ incoming[t].ts \in Nat
    BY <1>1, <1>3, <1>4, <1>6, <2>1
  <2>3. CASE incoming[t].ts = m
    BY <1>6, <2>2, <2>3
  <2>4. CASE incoming[t].ts # m
    <3> HIDE DEF m, x
    <3> QED BY <2>2, <2>4
  <2> QED BY <2>3, <2>4
<1>8. x \in Slots
  BY <1>6
<1> HIDE DEF x
<1> QED
  BY <1>7, <1>8 DEF Lowest

\* The slot for an update is a slot, and its own if it has one.
LEMMA SlotForOK ==
  ASSUME incoming \in [Slots -> Slot], NEW u \in Updates
  PROVE  /\ SlotFor(u) \in Slots
         /\ u \notin Legacy /\ Holding(u) # {} => SlotFor(u) \in Holding(u)
<1>1. CASE u \in Legacy \/ Holding(u) = {}
  BY <1>1, LowestOK DEF SlotFor
<1>2. CASE u \notin Legacy /\ Holding(u) # {}
  <2>1. Holding(u) \in SUBSET Nat
    BY DEF Holding, Slots
  <2>2. \E s \in Holding(u) : \A t \in Holding(u) : s <= t
    BY <1>2, <2>1, MinOf
  <2>3. SlotFor(u) \in Holding(u)
    BY <1>2, <2>2 DEF SlotFor
  <2> QED
    BY <2>3 DEF Holding
<1> QED
  BY <1>1, <1>2

\* Rebasing the counters changes nothing else.
LEMMA RebasedOK ==
  ASSUME NEW g \in [Slots -> Slot]
  PROVE  /\ Rebased(g) \in [Slots -> Slot]
         /\ \A s \in Slots : Alike(g[s], Rebased(g)[s])
<1> DEFINE T == {g[s].ts : s \in Slots}
           low == CHOOSE n \in T : \A s \in Slots : n <= g[s].ts
<1>1. \A s \in Slots : g[s] \in Slot /\ g[s].ts \in Nat
  BY DEF Slot
<1>2. T \in SUBSET Nat /\ T # {}
  <2>1. 1 \in Slots
    BY NetAssumption DEF Slots
  <2> QED
    BY <1>1, <2>1
<1>3. \E n \in T : \A s \in Slots : n <= g[s].ts
  <2>1. Min(T) \in T /\ \A y \in T : Min(T) <= y
    <3> HIDE DEF T
    <3> QED BY <1>2, MinOf
  <2>2. \A s \in Slots : g[s].ts \in T
    OBVIOUS
  <2> HIDE DEF T
  <2> QED
    BY <2>1, <2>2
<1>4. low \in T /\ \A s \in Slots : low <= g[s].ts
  <2> HIDE DEF T
  <2> QED BY <1>3
<1>5. low \in Nat
  BY <1>2, <1>4
<1>6. Rebased(g) = [s \in Slots |-> [g[s] EXCEPT !.ts = g[s].ts - low]]
  BY DEF Rebased
<1> HIDE DEF T, low
<1>7. ASSUME NEW s \in Slots
      PROVE  [g[s] EXCEPT !.ts = g[s].ts - low] \in Slot /\ Alike(g[s], Rebased(g)[s])
  <2>1. g[s].ts - low \in Nat
    BY <1>1, <1>4, <1>5
  <2>2. g[s] \in Slot
    BY <1>1
  <2> QED
    BY <1>6, <2>1, <2>2 DEF Slot, Alike
<1> QED
  BY <1>6, <1>7

LEMMA InitIInv == Init => IInv
<1> SUFFICES ASSUME Init PROVE IInv
  OBVIOUS
<1>1. NewSlots \in [Slots -> Slot]
  BY NetAssumption DEF NewSlots, Slot
<1>2. \A s \in Slots : Fresh(NewSlots[s])
  BY DEF NewSlots, Fresh
<1>3. TypeOK
  <2>1. incoming \in [Slots -> Slot]
    BY <1>1 DEF Init
  <2>2. 0 \in 0..AutoconfDelay
    BY NetAssumption
  <2>3. rx \in [pc: {"idle", "set", "save", "reply"}, nc: Configs, dead: BOOLEAN]
    BY DEF Init, Idle, Configs
  <2> QED
    BY <2>1, <2>2, <2>3 DEF Init, TypeOK, Configs
<1>4. SlotsOK
  BY <1>2 DEF SlotsOK, Init, Fresh
<1>5. QED
  BY <1>3, <1>4 DEF Init, IInv, InHandOK, Idle

\* What a chunk does to the slots, and what it gives to the rx task.
LEMMA ChunkSlots ==
  ASSUME IInv, NEW u \in Updates, NEW i \in 1..Size[u], HandleConfigChunk(u, i)
  PROVE  /\ incoming' \in [Slots -> Slot]
         /\ SlotsOK'
         /\ rx' \in {rx, [rx EXCEPT !.pc = "set", !.nc = u]}
<1> DEFINE s == SlotFor(u)
           old == incoming[s]
           e == BeginUpdate([incoming[s] EXCEPT !.ts = @ + 1], u)
           f == [e EXCEPT !.have = @ \cup {i}, !.haveBytes = @ + 1, !.data = [@ EXCEPT ![i] = u]]
<1>1. /\ incoming \in [Slots -> Slot] /\ SlotsOK
      /\ MaxChunks \in Nat \ {0} /\ Size[u] \in 1..MaxChunks /\ i \in 1..MaxChunks
      /\ u # None /\ u \in Signed
      /\ u \in Legacy => Size[u] = 1
  BY NetAssumption DEF IInv, TypeOK, HandleConfigChunk, Verified
<1>2. s \in Slots /\ old \in Slot /\ (u \notin Legacy /\ Holding(u) # {} => s \in Holding(u))
  BY <1>1, SlotForOK
<1>3. /\ e \in Slot
      /\ e.updateId = u
      /\ e.data = old.data
      /\ old.updateId = u => e.have = old.have /\ e.haveBytes = old.haveBytes
      /\ old.updateId # u => e.have = {} /\ e.haveBytes = 0
  <2> DEFINE o == [incoming[s] EXCEPT !.ts = @ + 1]
  <2>1. o \in Slot /\ Alike(old, o)
    BY <1>2 DEF Slot, Alike
  <2>2. e = IF o.updateId = u THEN o ELSE [o EXCEPT !.updateId = u, !.have = {}, !.haveBytes = 0]
    BY DEF BeginUpdate
  <2> HIDE DEF o, e, old
  <2>3. CASE o.updateId = u
    BY <2>1, <2>2, <2>3 DEF Alike
  <2>4. CASE o.updateId # u
    <3>1. e = [o EXCEPT !.updateId = u, !.have = {}, !.haveBytes = 0]
      BY <2>2, <2>4
    <3>2. 0 \in 0..MaxChunks /\ u \in Updates \cup {None} /\ {} \in SUBSET (1..MaxChunks)
      BY <1>1
    <3>3. e \in Slot
      BY <2>1, <3>1, <3>2 DEF Slot
    <3>4. e.updateId = u /\ e.have = {} /\ e.haveBytes = 0 /\ e.data = o.data
      BY <2>1, <3>1 DEF Slot
    <3> QED
      BY <2>1, <2>4, <3>3, <3>4 DEF Alike
  <2> QED
    BY <2>3, <2>4
<1>4. u \notin Legacy => i \notin e.have
  BY <1>2, <1>3 DEF HandleConfigChunk, Duplicate, Holding
<1>5. old.updateId = u => SlotOK(old)
  BY <1>1, <1>2 DEF SlotsOK
<1>6. \/ /\ e.haveBytes >= MaxChunks
         /\ incoming' = Rebased([incoming EXCEPT ![s] = e])
         /\ rx' = rx
      \/ /\ e.haveBytes < MaxChunks
         /\ incoming' = Rebased([incoming EXCEPT ![s] = f])
         /\ rx' = IF Complete(f, u) THEN [rx EXCEPT !.pc = "set", !.nc = Parse(f.data, u)]
                                    ELSE rx
  BY DEF HandleConfigChunk
<1> HIDE DEF s, old, e
<1>7. e.haveBytes < MaxChunks =>
        /\ f \in Slot
        /\ f.updateId = u /\ f.have = e.have \cup {i} /\ f.haveBytes = e.haveBytes + 1
        /\ f.data = [e.data EXCEPT ![i] = u]
  <2> SUFFICES ASSUME e.haveBytes < MaxChunks
               PROVE  /\ f \in Slot
                      /\ f.updateId = u /\ f.have = e.have \cup {i}
                      /\ f.haveBytes = e.haveBytes + 1
                      /\ f.data = [e.data EXCEPT ![i] = u]
    OBVIOUS
  <2>1. /\ e.have \cup {i} \in SUBSET (1..MaxChunks)
        /\ e.haveBytes + 1 \in 0..MaxChunks
        /\ [e.data EXCEPT ![i] = u] \in [1..MaxChunks -> Updates \cup {None}]
    BY <1>1, <1>3 DEF Slot
  <2>2. f = [e EXCEPT !.have = e.have \cup {i}, !.haveBytes = e.haveBytes + 1,
                      !.data = [e.data EXCEPT ![i] = u]]
    OBVIOUS
  <2>3. f \in Slot
    BY <1>3, <2>1, <2>2 DEF Slot
  <2>4. /\ f.updateId = e.updateId /\ f.have = e.have \cup {i}
        /\ f.haveBytes = e.haveBytes + 1
        /\ f.data = [e.data EXCEPT ![i] = u]
    BY <1>3, <2>2 DEF Slot
  <2> QED
    BY <1>3, <2>3, <2>4
<1> HIDE DEF f
<1>8. e.haveBytes >= MaxChunks => SlotOK(e)
  <2>1. e.haveBytes >= MaxChunks => old.updateId = u
    BY <1>1, <1>3
  <2> QED
    BY <1>3, <1>5, <2>1 DEF SlotOK
<1>9. e.haveBytes < MaxChunks => SlotOK(f)
  <2> SUFFICES ASSUME e.haveBytes < MaxChunks PROVE SlotOK(f)
    OBVIOUS
  <2>1. e.have \subseteq 1..Size[u] /\ \A j \in e.have : e.data[j] = u
    BY <1>3, <1>5 DEF SlotOK
  <2>2. f.have \subseteq 1..Size[u] /\ \A j \in f.have : f.data[j] = u
    BY <1>1, <1>3, <1>7, <2>1 DEF Slot
  <2>3. u \in Legacy => f.haveBytes >= 1 /\ f.have = {1}
    <3> SUFFICES ASSUME u \in Legacy PROVE f.haveBytes >= 1 /\ f.have = {1}
      OBVIOUS
    <3>1. e.haveBytes \in Nat /\ i = 1
      BY <1>1, <1>3 DEF Slot
    <3>2. e.have \subseteq {1}
      BY <1>1, <2>1
    <3> QED
      BY <1>7, <3>1, <3>2
  <2>4. u \notin Legacy => f.haveBytes = Cardinality(f.have)
    <3> SUFFICES ASSUME u \notin Legacy PROVE f.haveBytes = Cardinality(f.have)
      OBVIOUS
    <3>1. IsFiniteSet(e.have)
      <4>1. IsFiniteSet(1..MaxChunks)
        BY <1>1, FS_Interval
      <4> QED
        BY <1>3, <4>1, FS_Subset DEF Slot
    <3>2. e.haveBytes = Cardinality(e.have)
      <4>1. CASE old.updateId = u
        BY <1>3, <1>5, <4>1 DEF SlotOK
      <4>2. CASE old.updateId # u
        BY <1>3, <4>2, FS_EmptySet
      <4> QED BY <4>1, <4>2
    <3>3. Cardinality(e.have \cup {i}) = Cardinality(e.have) + 1
      BY <1>4, <3>1, FS_AddElement
    <3> QED
      BY <1>7, <3>2, <3>3
  <2> QED
    BY <1>1, <1>7, <2>2, <2>3, <2>4 DEF SlotOK
<1>10. Complete(f, u) /\ e.haveBytes < MaxChunks => Parse(f.data, u) = u
  <2> SUFFICES ASSUME Complete(f, u), e.haveBytes < MaxChunks
               PROVE  \A j \in 1..Size[u] : f.data[j] = u
    BY DEF Parse
  <2>1. SlotOK(f) /\ f.updateId = u /\ f.haveBytes = Size[u]
    BY <1>7, <1>9 DEF Complete
  <2>2. f.have = 1..Size[u]
    <3>1. CASE u \in Legacy
      <4>1. Size[u] = 1 /\ f.have = {1} /\ 1..1 = {1}
        BY <1>1, <2>1, <3>1 DEF SlotOK
      <4> QED BY <4>1
    <3>2. CASE u \notin Legacy
      <4>1. f.have \subseteq 1..Size[u] /\ Cardinality(f.have) = Size[u]
        BY <2>1, <3>2 DEF SlotOK
      <4>2. IsFiniteSet(1..Size[u]) /\ Cardinality(1..Size[u]) = Size[u]
        BY <1>1, FS_Interval
      <4> QED
        BY <4>1, <4>2, FS_Subset
    <3> QED BY <3>1, <3>2
  <2> QED
    BY <2>1, <2>2 DEF SlotOK
<1>11. PICK g \in Slot : SlotOK(g) /\ g.updateId = u /\ incoming' = Rebased([incoming EXCEPT ![s] = g])
  BY <1>3, <1>6, <1>7, <1>8, <1>9 DEF Slot
<1> DEFINE new == [incoming EXCEPT ![s] = g]
<1>12. new \in [Slots -> Slot] /\ new[s] = g /\ \A t \in Slots \ {s} : new[t] = incoming[t]
  BY <1>1, <1>2, <1>11
<1> HIDE DEF new
<1>13. incoming' \in [Slots -> Slot] /\ \A t \in Slots : Alike(new[t], incoming'[t])
  BY <1>11, <1>12, RebasedOK DEF new
<1>14. SlotsOK'
  <2>1. ASSUME NEW t \in Slots
        PROVE  SlotOK(incoming'[t]) \/ Fresh(incoming'[t])
    <3>1. SlotOK(new[t]) \/ Fresh(new[t])
      BY <1>1, <1>11, <1>12 DEF SlotsOK, Fresh
    <3> QED
      BY <1>13, <3>1, AlikeOK
  <2>2. ASSUME NEW t \in Slots, NEW r \in Slots,
               incoming'[t].updateId = incoming'[r].updateId,
               incoming'[t].updateId \notin Legacy \cup {None}
        PROVE  t = r
    <3>1. new[t].updateId = new[r].updateId /\ new[t].updateId \notin Legacy \cup {None}
      BY <1>13, <2>2 DEF Alike
    <3>2. ASSUME NEW q \in Slots \ {s}, incoming[q].updateId = u, u \notin Legacy
          PROVE  FALSE
      <4>1. q \in Holding(u)
        BY <3>2 DEF Holding
      <4>2. s \in Holding(u)
        BY <1>2, <3>2, <4>1
      <4> QED
        BY <1>1, <1>2, <3>2, <4>1, <4>2 DEF SlotsOK, Holding
    <3>3. CASE t = s \/ r = s
      BY <1>11, <1>12, <3>1, <3>2, <3>3
    <3>4. CASE t # s /\ r # s
      BY <1>1, <1>12, <3>1, <3>4 DEF SlotsOK
    <3> QED BY <3>3, <3>4
  <2> QED
    BY <2>1, <2>2 DEF SlotsOK, Fresh
<1>15. rx' \in {rx, [rx EXCEPT !.pc = "set", !.nc = u]}
  BY <1>6, <1>10
<1> QED
  BY <1>13, <1>14, <1>15

LEMMA StepChunk ==
  ASSUME IInv, NEW u \in Updates, NEW i \in 1..Size[u], HandleConfigChunk(u, i)
  PROVE  IInv'
<1>1. /\ incoming' \in [Slots -> Slot] /\ SlotsOK'
      /\ rx' \in {rx, [rx EXCEPT !.pc = "set", !.nc = u]}
  BY ChunkSlots
<1>2. /\ rx.pc = "idle" /\ net = "up" /\ u \in Signed /\ u # None
      /\ UNCHANGED <<net, config, sso, since, uptime, saved, app, refresh, used>>
  BY NetAssumption DEF HandleConfigChunk, Verified
<1>3. TypeOK'
  BY <1>1, <1>2 DEF IInv, TypeOK, Configs
<1>4. InHandOK'
  BY <1>1, <1>2 DEF IInv, TypeOK, InHandOK
<1> QED
  BY <1>1, <1>2, <1>3, <1>4 DEF IInv

\* The slots of a network that is new or gone.
LEMMA NewSlotsOK ==
  ASSUME incoming' = NewSlots
  PROVE  incoming' \in [Slots -> Slot] /\ SlotsOK'
<1>1. NewSlots \in [Slots -> Slot]
  BY NetAssumption DEF NewSlots, Slot
<1>2. \A s \in Slots : Fresh(NewSlots[s])
  BY DEF NewSlots, Fresh
<1> QED
  BY <1>1, <1>2 DEF SlotsOK, Fresh

\* setConfiguration accepts only what the controller issued to this node.
LEMMA Accepts ==
  ASSUME IInv, SetConfiguration
  PROVE  rx.nc \in Genuine
BY NetAssumption DEF IInv, InHandOK, SetConfiguration, Acceptable, Genuine

LEMMA StepApply ==
  ASSUME IInv, Apply
  PROVE  IInv'
<1>1. UNCHANGED <<incoming, net, uptime, app>> /\ SlotsOK'
  BY DEF IInv, SlotsOK, Apply, IgnoreConfiguration, SetConfiguration, SaveToDisk, Reply
<1>2. CASE IgnoreConfiguration
  <2>1. TypeOK' /\ InHandOK'
    BY <1>1, <1>2 DEF IInv, TypeOK, InHandOK, IgnoreConfiguration
  <2> QED
    BY <1>1, <1>2, <2>1 DEF IInv, IgnoreConfiguration
<1>3. CASE SetConfiguration
  <2>1. rx.nc \in Genuine
    BY <1>3, Accepts
  <2>2. /\ config' = rx.nc /\ used' = used \cup {rx.nc} /\ saved' = saved
        /\ rx' = [rx EXCEPT !.pc = "save"] /\ net = "up"
    BY <1>3 DEF SetConfiguration, IInv, InHandOK
  <2>3. TypeOK'
    <3>1. 0 \in 0..AutoconfDelay /\ rx.nc \in Configs
      BY NetAssumption DEF IInv, TypeOK
    <3>2. rx' \in [pc: {"idle", "set", "save", "reply"}, nc: Configs, dead: BOOLEAN]
      BY <2>2 DEF IInv, TypeOK
    <3> QED
      BY <1>1, <1>3, <2>2, <3>1, <3>2 DEF IInv, TypeOK, SetConfiguration
  <2>4. InHandOK'
    BY <1>1, <1>3, <2>2 DEF IInv, TypeOK, InHandOK, SetConfiguration
  <2> QED
    BY <1>1, <2>1, <2>2, <2>3, <2>4 DEF IInv
<1>4. CASE SaveToDisk
  <2>1. saved' \in {saved, rx.nc} /\ rx.nc \in used /\ rx' = [rx EXCEPT !.pc = "reply"]
    BY <1>4 DEF SaveToDisk, IInv, InHandOK
  <2>2. TypeOK' /\ InHandOK'
    BY <1>1, <1>4, <2>1 DEF IInv, TypeOK, InHandOK, SaveToDisk
  <2> QED
    BY <1>1, <1>4, <2>1, <2>2 DEF IInv, SaveToDisk
<1>5. CASE Reply
  <2>1. TypeOK' /\ InHandOK'
    BY <1>1, <1>5 DEF IInv, TypeOK, InHandOK, Reply, Idle, Configs
  <2> QED
    BY <1>1, <1>5, <2>1 DEF IInv, Reply
<1> QED
  BY <1>2, <1>3, <1>4, <1>5 DEF Apply

LEMMA StepJoinLeave ==
  ASSUME IInv, Join \/ Leave \/ PowerFailure
  PROVE  IInv'
<1>1. CASE Join
  <2>1. TypeOK'
    BY <1>1, NewSlotsOK DEF IInv, TypeOK, Join
  <2>2. InHandOK'
    BY <1>1 DEF IInv, InHandOK, Join
  <2> QED
    BY <1>1, <2>1, <2>2, NewSlotsOK DEF IInv, Join
<1>2. CASE LeaveDestroy
  <2>1. TypeOK' /\ SlotsOK'
    BY <1>2 DEF IInv, TypeOK, SlotsOK, LeaveDestroy
  <2>2. InHandOK'
    BY <1>2 DEF IInv, TypeOK, InHandOK, LeaveDestroy
  <2> QED
    BY <1>2, <2>1, <2>2 DEF IInv, LeaveDestroy
<1>3. CASE LeaveErase
  <2>1. net' = "none" /\ config' = None /\ SlotsOK'
    BY <1>3, NewSlotsOK DEF LeaveErase, Erased
  <2>2. TypeOK'
    <3>1. 0 \in 0..AutoconfDelay /\ None \in Configs /\ incoming' \in [Slots -> Slot]
      BY <1>3, NewSlotsOK, NetAssumption DEF LeaveErase, Erased, Configs
    <3> QED
      BY <1>3, <3>1 DEF IInv, TypeOK, LeaveErase, Erased
  <2>3. InHandOK'
    BY <1>3 DEF IInv, InHandOK, LeaveErase, Erased
  <2> QED
    BY <1>3, <2>1, <2>2, <2>3 DEF IInv, LeaveErase
<1>4. CASE LeaveDelete
  <2>1. TypeOK' /\ SlotsOK' /\ InHandOK'
    BY <1>4 DEF IInv, TypeOK, SlotsOK, InHandOK, LeaveDelete, Configs
  <2> QED
    BY <1>4, <2>1 DEF IInv, LeaveDelete
<1>5. CASE PowerFailure
  <2>1. TypeOK'
    <3>1. 0 \in 0..AutoconfDelay /\ None \in Configs /\ incoming' \in [Slots -> Slot]
      BY <1>5, NewSlotsOK, NetAssumption DEF PowerFailure, Erased, Configs
    <3>2. rx' \in [pc: {"idle", "set", "save", "reply"}, nc: Configs, dead: BOOLEAN]
      BY <1>5, <3>1 DEF PowerFailure, Idle
    <3> QED
      BY <1>5, <3>1, <3>2 DEF IInv, TypeOK, PowerFailure, Erased
  <2> QED
    BY <1>5, <2>1, NewSlotsOK DEF IInv, InHandOK, PowerFailure, Erased, Idle
<1> QED
  BY <1>1, <1>2, <1>3, <1>4, <1>5 DEF Leave

LEMMA StepOther ==
  ASSUME IInv, SetAuthenticationRequired \/ PingCheck \/ Tick \/ UNCHANGED vars
  PROVE  IInv'
<1>1. UNCHANGED <<incoming, net, config, uptime, saved, rx, app, used>> \/ Tick
  BY DEF SetAuthenticationRequired, PingCheck, vars
<1>2. UNCHANGED <<incoming, net, config, saved, rx, app, used>>
  BY <1>1 DEF Tick
<1>3. TypeOK'
  <2>1. CASE Tick
    <3>1. since' \in 0..AutoconfDelay /\ uptime' \in 0..AutoconfDelay
      BY <2>1, NetAssumption DEF IInv, TypeOK, Tick
    <3> QED
      BY <1>2, <2>1, <3>1 DEF IInv, TypeOK, Tick
  <2>2. CASE SetAuthenticationRequired \/ PingCheck \/ UNCHANGED vars
    BY <2>2 DEF IInv, TypeOK, SetAuthenticationRequired, PingCheck, vars
  <2> QED
    BY <2>1, <2>2
<1>4. SlotsOK' /\ InHandOK'
  BY <1>2 DEF IInv, SlotsOK, InHandOK
<1> QED
  BY <1>2, <1>3, <1>4 DEF IInv

LEMMA StepIInv == IInv /\ [Next]_vars => IInv'
BY StepChunk, StepApply, StepJoinLeave, StepOther DEF Next

\* The inductive invariant holds always (Network::handleConfigChunk and
\* setConfiguration, Node::join and leave).
THEOREM InvariantHolds == Spec => []IInv
<1>1. QED
  BY InitIInv, StepIInv, PTL DEF Spec

LEMMA InitPromise == Init => Promise!Init
BY DEF Init, Promise!Init

LEMMA StepPromise == IInv /\ [Next]_vars => [Promise!Next]_(Promise!vars)
<1> SUFFICES ASSUME IInv, [Next]_vars PROVE [Promise!Next]_(Promise!vars)
  OBVIOUS
<1>1. CASE SetConfiguration
  <2>1. rx.nc \in Genuine /\ Promise!Adopt(rx.nc)
    BY <1>1, Accepts DEF SetConfiguration, Promise!Adopt
  <2> QED
    BY <2>1 DEF Promise!Next
<1>2. CASE SaveToDisk
  <2>1. rx.nc \in used
    BY <1>2 DEF IInv, InHandOK, SaveToDisk
  <2>2. CASE saved' = saved
    BY <1>2, <2>2 DEF SaveToDisk, Promise!vars
  <2>3. CASE saved' = rx.nc
    <3>1. Promise!Store(rx.nc)
      BY <1>2, <2>3 DEF SaveToDisk, Promise!Store
    <3> QED
      BY <2>1, <3>1 DEF Promise!Next
  <2> QED
    BY <1>2, <2>2, <2>3 DEF SaveToDisk
<1>3. CASE Join
  <2>1. Promise!Resume
    BY <1>3 DEF IInv, Join, Promise!Resume
  <2> QED
    BY <2>1 DEF Promise!Next
<1>4. CASE LeaveErase \/ PowerFailure
  <2>1. Promise!Drop
    BY <1>4 DEF LeaveErase, PowerFailure, Erased, Promise!Drop
  <2> QED
    BY <2>1 DEF Promise!Next
<1>5. CASE LeaveDelete
  <2>1. CASE Persistent
    <3>1. Promise!Store(None)
      BY <1>5, <2>1 DEF LeaveDelete, Promise!Store
    <3> QED
      BY <3>1 DEF Promise!Next
  <2>2. CASE ~ Persistent
    BY <1>5, <2>2 DEF LeaveDelete, Promise!vars
  <2> QED
    BY <2>1, <2>2
<1>6. CASE \/ \E u \in Updates : \E i \in 1..Size[u] : HandleConfigChunk(u, i)
           \/ SetAuthenticationRequired \/ IgnoreConfiguration \/ Reply
           \/ LeaveDestroy \/ PingCheck \/ Tick \/ UNCHANGED vars
  BY <1>6 DEF HandleConfigChunk, SetAuthenticationRequired, IgnoreConfiguration, Reply,
              LeaveDestroy, PingCheck, Tick, vars, Promise!vars
<1> QED
  BY <1>1, <1>2, <1>3, <1>4, <1>5, <1>6 DEF Next, Apply, Leave

\* Refinement: whatever the order, the loss and the repetition of chunks, what is
\* in use and what is stored is a whole configuration that the controller issued
\* to this node (handleConfigChunk, setConfiguration).
THEOREM PromiseKept == Spec => KeepsPromise
<1>1. QED
  BY InvariantHolds, InitPromise, StepPromise, PTL DEF Spec, KeepsPromise, Promise!Spec

\* A signed update that a slot remembers as complete is not put together again
\* (the duplicate check of handleConfigChunk).
THEOREM ReplaysIgnored == Spec => NotReplayed
<1> DEFINE Replayed(u) == /\ \E s \in Holding(u) : Complete(incoming[s], u)
                          /\ rx.pc = "idle" /\ rx'.pc = "set" /\ rx'.nc = u
<1>1. ASSUME IInv, Next, NEW u \in Updates \ Legacy, Replayed(u)
      PROVE  FALSE
  <2>0. PICK v \in Updates : \E i \in 1..Size[v] : HandleConfigChunk(v, i)
    BY <1>1 DEF Next, Apply, Leave, IgnoreConfiguration, SetConfiguration, SaveToDisk, Reply,
                SetAuthenticationRequired, Join, LeaveDestroy, LeaveErase, LeaveDelete,
                PowerFailure, PingCheck, Tick, Idle, IInv, TypeOK
  <2>1. PICK i \in 1..Size[v] : HandleConfigChunk(v, i)
    BY <2>0
  <2>2. v = u
    <3>1. rx' \in {rx, [rx EXCEPT !.pc = "set", !.nc = v]}
      BY <1>1, <2>1, ChunkSlots
    <3> QED
      BY <1>1, <3>1 DEF IInv, TypeOK
  <2>3. PICK s \in Holding(u) : Complete(incoming[s], u)
    BY <1>1
  <2>4. incoming \in [Slots -> Slot] /\ SlotsOK /\ s \in Slots /\ incoming[s].updateId = u /\ u # None
    BY <1>1, <2>3, NetAssumption DEF IInv, TypeOK, Holding
  <2>5. SlotFor(u) = s
    BY <2>3, <2>4, SlotForOK DEF SlotsOK, Holding
  <2>6. incoming[s].have = 1..Size[u]
    <3>1. incoming[s].have \subseteq 1..Size[u] /\ Cardinality(incoming[s].have) = Size[u]
      BY <2>3, <2>4 DEF SlotsOK, SlotOK, Complete
    <3>2. PICK n \in Nat \ {0} : Size[u] = n
      BY NetAssumption
    <3>3. IsFiniteSet(1..n) /\ Cardinality(1..n) = n
      BY FS_Interval
    <3> QED
      BY <3>1, <3>2, <3>3, FS_Subset
  <2> QED
    BY <2>1, <2>2, <2>3, <2>5, <2>6 DEF HandleConfigChunk, Duplicate
<1>2. IInv /\ [Next]_vars => [\A u \in Updates \ Legacy :
         (\E s \in Holding(u) : Complete(incoming[s], u))
           => ~ (rx.pc = "idle" /\ rx'.pc = "set" /\ rx'.nc = u)]_vars
  BY <1>1
<1>3. QED
  BY InvariantHolds, <1>2, PTL DEF Spec, NotReplayed
-----------------------------------------------------------------------------
(* What is known of one other member (Membership).                         *)

\* The invariant holds at first, and each operation keeps it.
LEMMA MemberInitIInv == MemberInit => MemberIInv
<1> SUFFICES ASSUME MemberInit PROVE MemberIInv
  OBVIOUS
<1>1. MemberTypeOK
  BY MembershipAssumption DEF MemberInit, MemberTypeOK, Nothing
<1>2. QED
  BY <1>1 DEF MemberInit, MemberIInv, Nothing

\* The types of single values, as the steps below need them.
LEMMA MemberTypeFacts ==
  ASSUME MemberTypeOK
  PROVE  /\ clock \in Nat /\ timestamp \in Nat
         /\ 0..clock \subseteq Nat
         /\ com \in 0..clock /\ threshold \in 0..clock
         /\ seenCom \in 0..clock /\ seenComRev \in 0..clock
         /\ remote \in [Keys -> 0..clock] /\ revoked \in [Keys -> 0..clock]
         /\ seen \in [Keys -> 0..clock] /\ seenRev \in [Keys -> 0..clock]
BY MembershipAssumption DEF MemberTypeOK

LEMMA MemberStepCom ==
  ASSUME MemberIInv, NEW t \in 1..clock, AddCom(t) \/ RevokeCom(t)
  PROVE  MemberIInv'
<1>1. MemberTypeOK'
  BY MemberTypeFacts DEF MemberIInv, MemberTypeOK, AddCom, RevokeCom, Later
<1>2. UNCHANGED <<revoked, seenRev, remote, seen>>
  BY DEF AddCom, RevokeCom
<1>3. QED
  BY <1>1, <1>2 DEF MemberIInv

LEMMA MemberStepAddCredential ==
  ASSUME MemberIInv, NEW k \in Keys, NEW t \in 1..clock, AddCredential(k, t)
  PROVE  MemberIInv'
<1> USE DEF AddCredential
<1>1. MemberTypeOK
  BY DEF MemberIInv
<1>2. remote' \in [Keys -> 0..clock] /\ seen' \in [Keys -> 0..clock]
  BY <1>1, MemberTypeFacts DEF Later
<1>3. MemberTypeOK'
  BY <1>1, <1>2 DEF MemberTypeOK
<1>4. ASSUME NEW j \in Keys, j # k
      PROVE  remote'[j] = remote[j] /\ seen'[j] = seen[j]
  BY <1>1, <1>4, MemberTypeFacts
<1>5. remote'[k] = seen'[k] \/ (remote'[k] <= seen'[k] /\ seen'[k] <= revoked[k])
  <2>1. /\ remote[k] \in Nat /\ seen[k] \in Nat /\ revoked[k] \in Nat /\ t \in Nat
        /\ remote'[k] = IF Accepted(k, t) THEN t ELSE remote[k]
        /\ seen'[k] = Later(t, seen[k])
    BY <1>1, MemberTypeFacts
  <2>2. remote[k] = seen[k] \/ (remote[k] <= seen[k] /\ seen[k] <= revoked[k])
    BY DEF MemberIInv
  <2>3. QED
    BY <2>1, <2>2 DEF Accepted, Later
<1>6. QED
  BY <1>3, <1>4, <1>5 DEF MemberIInv

LEMMA MemberStepRevoke ==
  ASSUME MemberIInv, NEW k \in Keys, NEW t \in 1..clock, Revoke(k, t)
  PROVE  MemberIInv'
<1> USE DEF Revoke
<1>1. MemberTypeOK
  BY DEF MemberIInv
<1>2. /\ revoked' \in [Keys -> 0..clock] /\ seenRev' \in [Keys -> 0..clock]
      /\ threshold' \in 0..clock
  BY <1>1, MemberTypeFacts DEF Later
<1>3. MemberTypeOK'
  BY <1>1, <1>2 DEF MemberTypeOK
<1>4. revoked' = seenRev'
  <2>1. revoked = seenRev /\ revoked[k] \in Nat /\ t \in Nat
    BY <1>1, MemberTypeFacts DEF MemberIInv
  <2>2. CASE Raised(k, t)
    BY <2>1, <2>2 DEF Raised, Later
  <2>3. CASE ~ Raised(k, t)
    <3>1. Later(t, revoked[k]) = revoked[k]
      BY <2>1, <2>3 DEF Raised, Later
    <3>2. QED
      BY <1>1, <2>1, <2>3, <3>1, MemberTypeFacts
  <2>4. QED
    BY <2>2, <2>3
<1>5. ASSUME NEW j \in Keys
      PROVE  revoked[j] <= revoked'[j] /\ revoked'[j] \in Nat
  BY <1>1, <1>2, MemberTypeFacts DEF Raised
<1>6. ASSUME NEW j \in Keys
      PROVE  remote[j] = seen[j] \/ (remote[j] <= seen[j] /\ seen[j] <= revoked'[j])
  <2>1. remote[j] \in Nat /\ seen[j] \in Nat /\ revoked[j] \in Nat
    BY <1>1, MemberTypeFacts
  <2>2. QED
    BY <2>1, <1>5 DEF MemberIInv
<1>7. QED
  BY <1>3, <1>4, <1>6 DEF MemberIInv

\* The invariant implies that the order does not matter.
LEMMA MemberIInvOrderFree == MemberIInv => OrderFree
<1> SUFFICES ASSUME MemberIInv, NEW k \in Keys
             PROVE  k \in Usable <=> (seen[k] # 0 /\ Near(seen[k]) /\ seen[k] > seenRev[k])
  BY DEF OrderFree, InForce
<1>1. remote[k] \in Nat /\ seen[k] \in Nat /\ revoked[k] \in Nat /\ timestamp \in Nat
  BY MemberTypeFacts DEF MemberIInv
<1>2. /\ revoked[k] = seenRev[k]
      /\ remote[k] = seen[k] \/ (remote[k] <= seen[k] /\ seen[k] <= revoked[k])
  BY DEF MemberIInv
<1>3. k \in Usable <=> remote[k] # 0 /\ Near(remote[k]) /\ remote[k] > revoked[k]
  BY DEF Usable, TimestampValid
<1>4. CASE remote[k] = seen[k]
  BY <1>2, <1>3, <1>4
<1>5. CASE remote[k] <= seen[k] /\ seen[k] <= revoked[k]
  BY <1>1, <1>2, <1>3, <1>5
<1>6. QED
  BY <1>2, <1>4, <1>5

LEMMA MemberStepClean ==
  ASSUME MemberIInv, Clean \/ CleanErase
  PROVE  MemberIInv'
<1>1. MemberTypeOK
  BY DEF MemberIInv
<1>2. CASE Clean
  <2>1. MemberTypeOK'
    BY <1>1, <1>2, MemberTypeFacts DEF Clean, MemberTypeOK
  <2>2. ASSUME NEW k \in Keys
        PROVE  \/ remote'[k] = 0 /\ seen'[k] = 0
               \/ remote'[k] = remote[k] /\ seen'[k] = seen[k]
    <3>1. k \in Usable <=> InForce(k)
      BY MemberIInvOrderFree DEF OrderFree
    <3>2. /\ remote'[k] = IF TimestampValid(k, remote[k]) THEN remote[k] ELSE 0
          /\ seen'[k] = IF InForce(k) THEN seen[k] ELSE 0
      BY <1>2 DEF Clean, Stale
    <3>3. k \in Usable <=> remote[k] # 0 /\ TimestampValid(k, remote[k])
      BY DEF Usable
    <3>4. QED
      BY <3>1, <3>2, <3>3
  <2>3. QED
    BY <1>2, <2>1, <2>2 DEF MemberIInv, Clean
<1>3. CASE CleanErase
  BY <1>1, <1>3, MemberTypeFacts DEF CleanErase, MemberIInv, MemberTypeOK, Nothing
<1>4. QED
  BY <1>2, <1>3

LEMMA MemberStepOther ==
  ASSUME MemberIInv,
         \/ PeerChange \/ ClockTick \/ UNCHANGED memberVars
         \/ \E t \in 1..clock : NewConfiguration(t)
  PROVE  MemberIInv'
<1>1. UNCHANGED <<revoked, seenRev, remote, seen>>
  BY DEF PeerChange, ClockTick, memberVars, NewConfiguration
<1>2. MemberTypeOK'
  <2>1. MemberTypeOK
    BY DEF MemberIInv
  <2>2. CASE ClockTick
    <3>1. clock' \in 0..MaxTime /\ 0..clock \subseteq 0..clock'
      BY <2>1, <2>2, MembershipAssumption DEF MemberTypeOK, ClockTick
    <3>2. QED
      BY <2>1, <2>2, <3>1, MemberTypeFacts DEF MemberTypeOK, ClockTick
  <2>3. CASE PeerChange \/ UNCHANGED memberVars
    BY <2>1, <2>3 DEF MemberTypeOK, PeerChange, memberVars
  <2>4. CASE \E t \in 1..clock : NewConfiguration(t)
    BY <2>1, <2>4, MemberTypeFacts DEF MemberTypeOK, NewConfiguration
  <2>5. QED
    BY <2>2, <2>3, <2>4
<1>3. QED
  BY <1>1, <1>2 DEF MemberIInv

LEMMA MemberStepIInv == MemberIInv /\ [MemberNext]_memberVars => MemberIInv'
BY MemberStepCom, MemberStepAddCredential, MemberStepRevoke, MemberStepClean, MemberStepOther DEF MemberNext, Receive

\* The inductive invariant holds always: the table of credentials and the
\* thresholds are what was received, up to what is revoked (_addCredImpl,
\* addCredential, clean).
THEOREM MemberInvariant == MemberSpec => []MemberIInv
<1>1. QED
  BY MemberInitIInv, MemberStepIInv, PTL DEF MemberSpec

\* Whatever the order in which credentials and revocations came in, a credential
\* is in use if and only if the newest one is valid and not revoked.
THEOREM OrderDoesNotMatter == MemberSpec => []OrderFree
<1>1. QED
  BY MemberInvariant, MemberIInvOrderFree, PTL

\* Cleaning a member's credentials never changes which of them are in use.
THEOREM CleaningInvisible == MemberSpec => CleanInvisible
<1> DEFINE Shrinks == peer /\ remote' # remote /\ (\E k \in Keys : remote'[k] < remote[k])
<1>1. ASSUME MemberIInv, MemberNext, Shrinks
      PROVE  Usable' = Usable
  <2>1. MemberTypeOK
    BY <1>1 DEF MemberIInv
  <2>2. PICK j \in Keys : remote'[j] < remote[j]
    BY <1>1
  <2>3. Clean
    <3>1. ASSUME NEW t \in 1..clock, NEW k \in Keys, AddCredential(k, t)
          PROVE  FALSE
      <4>1. remote[j] \in Nat /\ remote[k] \in Nat /\ t \in Nat
        BY <2>1, MemberTypeFacts
      <4>2. remote'[j] = IF j = k /\ Accepted(k, t) THEN t ELSE remote[j]
        BY <2>1, <3>1, MemberTypeFacts DEF AddCredential
      <4>3. QED
        BY <2>2, <4>1, <4>2 DEF Accepted
    <3>2. remote' # remote /\ peer
      BY <1>1
    <3>3. QED
      BY <1>1, <3>1, <3>2
      DEF MemberNext, Receive, AddCom, RevokeCom, Revoke, CleanErase, PeerChange,
          NewConfiguration, ClockTick
  <2>4. timestamp' = timestamp /\ revoked' = revoked
    BY <2>3 DEF Clean
  <2>5. ASSUME NEW k \in Keys
        PROVE  k \in Usable' <=> k \in Usable
    <3>1. remote'[k] = IF k \in Stale THEN 0 ELSE remote[k]
      BY <2>3 DEF Clean
    <3>2. CASE k \in Stale
      BY <3>1, <3>2 DEF Stale, Usable
    <3>3. CASE k \notin Stale
      BY <3>1, <3>3, <2>4 DEF Usable, TimestampValid, Near
    <3>4. QED
      BY <3>2, <3>3
  <2>6. QED
    BY <2>5 DEF Usable
<1>2. MemberIInv /\ [MemberNext]_memberVars => [Shrinks => Usable' = Usable]_memberVars
  BY <1>1
<1>3. QED
  BY MemberInvariant, <1>2, PTL DEF MemberSpec, CleanInvisible
=============================================================================
