--------------------------- MODULE RxQueueProofs ---------------------------
(***************************************************************************)
(* Proofs about RxQueue, for every size of the ring, every set of packets  *)
(* and peers, and every timeout.                                           *)
(***************************************************************************)
EXTENDS RxQueue, SetFacts, FiniteSetTheorems, TLAPS

(***************************************************************************)
(* Arithmetic of the ring.                                                 *)
(***************************************************************************)

\* The remainder of n * q + r, which the provers do not find by themselves.
LEMMA ModOf ==
  ASSUME NEW n \in Nat \ {0}, NEW q \in Int, NEW r \in 0..(n - 1)
  PROVE  (n * q + r) % n = r
  OBVIOUS

\* A slot index is a slot.
LEMMA SlotBehindType ==
  ASSUME NEW k \in Int, rxQueuePtr \in 0..(PtrSpan - 1)
  PROVE  SlotBehind(k) \in Slots
  <1>1. (rxQueuePtr - k) % PtrSpan \in Nat
    BY QueueAssumption
  <1> QED
    BY <1>1, QueueAssumption DEF SlotBehind, Slots

\* The lookup passes every slot, also across a wrap of the counter: this is
\* where the size of the ring must divide the span of the counter.
LEMMA LookupCovers ==
  ASSUME NEW s \in Slots, rxQueuePtr \in 0..(PtrSpan - 1)
  PROVE  \E k \in 1..QueueSize : SlotBehind(k) = s
  <1> DEFINE q == rxQueuePtr \div QueueSize
             r == rxQueuePtr % QueueSize
             m == PtrSpan \div QueueSize
  <1>1. q \in Nat /\ r \in 0..(QueueSize - 1) /\ rxQueuePtr = QueueSize * q + r
    BY QueueAssumption
  <1>2. m \in Nat /\ PtrSpan = QueueSize * m
    BY QueueAssumption
  <1>3. s \in 0..(QueueSize - 1) /\ QueueSize \in Nat \ {0} /\ PtrSpan \in Nat \ {0}
    BY QueueAssumption DEF Slots
  <1> HIDE DEF q, r, m
  <1>4. CASE s < r
    <2> DEFINE k == r - s
    <2>1. k \in 1..QueueSize /\ rxQueuePtr - k = QueueSize * q + s
      BY <1>1, <1>3, <1>4
    <2>2. rxQueuePtr - k \in 0..(PtrSpan - 1)
      BY <1>1, <1>3, <1>4
    <2>3. (rxQueuePtr - k) % PtrSpan = QueueSize * q + s
      BY <2>1, <2>2, <1>3
    <2>4. (QueueSize * q + s) % QueueSize = s
      BY <1>1, <1>3, ModOf
    <2> QED
      BY <2>1, <2>3, <2>4 DEF SlotBehind
  <1>5. CASE s >= r /\ q > 0
    <2> DEFINE k == r - s + QueueSize
    <2>1. k \in 1..QueueSize
      BY <1>1, <1>3, <1>5
    <2>2. rxQueuePtr - k = QueueSize * (q - 1) + s
      BY <1>1, <1>3, <1>5
    <2>3. QueueSize * (q - 1) \in Nat
      BY <1>1, <1>3, <1>5
    <2>4. rxQueuePtr - k \in 0..(PtrSpan - 1)
      BY <2>1, <2>2, <2>3, <1>3
    <2>5. (rxQueuePtr - k) % PtrSpan = QueueSize * (q - 1) + s
      BY <2>2, <2>4, <1>3
    <2>6. (QueueSize * (q - 1) + s) % QueueSize = s
      BY <1>1, <1>3, ModOf
    <2> QED
      BY <2>1, <2>5, <2>6 DEF SlotBehind
  <1>6. CASE s >= r /\ q = 0
    <2> DEFINE k == r - s + QueueSize
    <2>1. k \in 1..QueueSize
      BY <1>1, <1>3, <1>6
    <2>2. rxQueuePtr - k = s - QueueSize
      BY <1>1, <1>3, <1>6
    <2>3. m > 0
      BY <1>2, <1>3
    <2>4. PtrSpan + s - QueueSize = QueueSize * (m - 1) + s
      BY <1>2, <1>3, <2>3
    <2>5. QueueSize * (m - 1) \in Nat
      BY <1>2, <1>3, <2>3
    <2>6. PtrSpan + s - QueueSize \in 0..(PtrSpan - 1)
      BY <2>4, <2>5, <1>3
    <2>7. (s - QueueSize) % PtrSpan = PtrSpan + s - QueueSize
      <3>1. s - QueueSize = PtrSpan * (-1) + (PtrSpan + s - QueueSize)
        BY <1>3
      <3> QED
        BY <3>1, <2>6, <1>3, ModOf
    <2>8. (QueueSize * (m - 1) + s) % QueueSize = s
      BY <1>2, <1>3, ModOf
    <2> QED
      BY <2>1, <2>2, <2>4, <2>7, <2>8 DEF SlotBehind
  <1> QED
    BY <1>1, <1>3, <1>4, <1>5, <1>6

\* What the lookup returns: an entry of the packet that is in use, or, if there
\* is none, the slot at the counter, which moves on.
LEMMA FindResult ==
  ASSUME TypeOK, NEW p \in Packets
  PROVE  LET r == FindRXQueueEntry(p) IN
         /\ r.slot \in Slots
         /\ r.ptr \in 0..(PtrSpan - 1)
         /\ \/ rxQueue[r.slot].packetId = p /\ rxQueue[r.slot].used
            \/ /\ \A s \in Slots : rxQueue[s].used => rxQueue[s].packetId # p
               /\ r.slot = ((r.ptr - 1) % PtrSpan) % QueueSize
  <1>1. rxQueuePtr \in 0..(PtrSpan - 1) /\ QueueSize \in Nat \ {0} /\ PtrSpan \in Nat \ {0}
    BY QueueAssumption DEF TypeOK
  <1>2. CASE Matches(p) # {}
    <2>1. Matches(p) \in SUBSET Nat
      BY <1>1 DEF Matches
    <2>2. Min(Matches(p)) \in Matches(p)
      BY <1>2, <2>1, MinOf
    <2>3. PICK k \in 1..QueueSize : k = Min(Matches(p)) /\ rxQueue[SlotBehind(k)].packetId = p
                                   /\ rxQueue[SlotBehind(k)].used
      BY <2>2 DEF Matches
    <2>4. SlotBehind(k) \in Slots
      BY <1>1, SlotBehindType
    <2> QED
      BY <1>1, <1>2, <2>3, <2>4 DEF FindRXQueueEntry
  <1>3. CASE Matches(p) = {}
    <2>1. \A s \in Slots : rxQueue[s].used => rxQueue[s].packetId # p
      <3> SUFFICES ASSUME NEW s \in Slots, rxQueue[s].used, rxQueue[s].packetId = p
                   PROVE  FALSE
        OBVIOUS
      <3>1. PICK k \in 1..QueueSize : SlotBehind(k) = s
        BY <1>1, LookupCovers
      <3> QED
        BY <3>1, <1>3 DEF Matches
    <2>2. (rxQueuePtr + 1) % PtrSpan \in 0..(PtrSpan - 1)
      BY <1>1
    <2>3. rxQueuePtr % QueueSize \in Slots
      BY <1>1 DEF Slots
    <2>4. (((rxQueuePtr + 1) % PtrSpan) - 1) % PtrSpan = rxQueuePtr
      <3>1. CASE rxQueuePtr + 1 < PtrSpan
        <4>1. (rxQueuePtr + 1) % PtrSpan = rxQueuePtr + 1
          BY <1>1, <3>1
        <4> QED BY <4>1, <1>1
      <3>2. CASE rxQueuePtr + 1 = PtrSpan
        <4>1. (rxQueuePtr + 1) % PtrSpan = 0
          BY <1>1, <3>2
        <4>2. 0 - 1 = PtrSpan * (-1) + rxQueuePtr
          BY <1>1, <3>2
        <4> QED BY <4>1, <4>2, <1>1, ModOf
      <3> QED BY <1>1, <3>1, <3>2
    <2> QED
      BY <1>3, <2>1, <2>2, <2>3, <2>4 DEF FindRXQueueEntry
  <1> QED
    BY <1>2, <1>3

(***************************************************************************)
(* What the operations do to one entry.                                    *)
(***************************************************************************)

\* Marks of all parts are as many as the packet has parts, and only they are.
LEMMA CountParts ==
  ASSUME NEW p \in Packets, NEW have \in SUBSET AllNos(p)
  PROVE  Cardinality(have) = Total[p] <=> have = AllNos(p)
  <1>1. Total[p] \in Nat \ {0}
    BY PacketAssumption, QueueAssumption
  <1>2. IsFiniteSet(AllNos(p)) /\ Cardinality(AllNos(p)) = Total[p]
    <2>1. 0 \in Int /\ Total[p] - 1 \in Int /\ ~ (0 > Total[p] - 1) /\ Total[p] - 1 - 0 + 1 = Total[p]
      BY <1>1
    <2>2. /\ IsFiniteSet(0..(Total[p] - 1))
          /\ Cardinality(0..(Total[p] - 1)) = IF 0 > Total[p] - 1 THEN 0 ELSE Total[p] - 1 - 0 + 1
      BY <2>1, FS_Interval
    <2> QED BY <2>1, <2>2 DEF AllNos
  <1> QED
    BY <1>2, FS_Subset

\* A fresh entry for the first part that arrives keeps the invariant, whatever
\* the entry held before.
LEMMA NewEntryOK ==
  ASSUME NEW e \in Entry, NEW p \in Packets, Total[p] > 1, NEW i \in AllNos(p)
  PROVE  LET n == NewEntry(e, p, i) IN
         n \in Entry /\ EntryOK(n) /\ n.used /\ ~ n.complete /\ n.packetId = p
  <1> DEFINE n == NewEntry(e, p, i)
  <1>1. Total[p] \in 2..MaxFragments /\ MaxFragments \in Nat \ {0} /\ p # NoPacket
    BY PacketAssumption, QueueAssumption
  <1>2. i \in FragNos /\ i \in Nat
    BY <1>1 DEF FragNos, AllNos
  <1>3. n \in Entry
    <2>1. p \in Names /\ <<p>> \in Seq(Names) /\ {i} \in SUBSET FragNos /\ Total[p] \in 0..MaxFragments
          /\ 0 \in 0..MaxFragments /\ 0 \in 0..(RxTimeout + 1)
      BY <1>1, <1>2, QueueAssumption DEF Names
    <2>2. [e.frags EXCEPT ![i] = p] \in [1..(MaxFragments - 1) -> Names]
      BY <2>1 DEF Entry
    <2> QED BY <2>1, <2>2 DEF NewEntry, Entry
  <1>4. {i} # AllNos(p)
    <2>1. 0 \in AllNos(p) /\ 1 \in AllNos(p)
      BY <1>1 DEF AllNos
    <2> QED BY <2>1
  <1>5. PartsEntry(n)
    <2>1. n.have = {i} /\ n.packetId = p /\ n.used /\ ~ n.complete
      BY DEF NewEntry, Entry
    <2>2. CASE i = 0
      <3>1. n.total = 0 /\ n.frag0 = <<p>>
        BY <2>2 DEF NewEntry, Entry
      <3> QED BY <1>1, <1>4, <2>1, <2>2, <3>1 DEF PartsEntry
    <2>3. CASE i # 0
      <3>1. n.total = Total[p]
        BY <2>3 DEF NewEntry, Entry
      <3>2. n.frags[i] = p
        BY <2>3, <1>1, <1>2 DEF NewEntry, Entry, FragNos
      <3> QED BY <1>1, <1>2, <1>4, <2>1, <2>3, <3>1, <3>2 DEF PartsEntry
    <2> QED BY <2>2, <2>3
  <1>6. FreshEntry(n) /\ WholeEntry(n) /\ n.used /\ ~ n.complete /\ n.packetId = p
    BY <1>1 DEF NewEntry, Entry, FreshEntry, WholeEntry
  <1> QED
    BY <1>3, <1>5, <1>6 DEF EntryOK

\* Adding a part that is not there yet: the marks grow by exactly that part.
LEMMA AddPartFields ==
  ASSUME NEW e \in Entry, EntryOK(e), NEW p \in Packets, Total[p] > 1, e.packetId = p,
         NEW i \in AllNos(p), i \notin e.have
  PROVE  LET n == AddPart(e, p, i) IN
         /\ n \in Entry /\ e.used /\ n.used /\ ~ n.complete /\ n.packetId = p
         /\ n.have = e.have \cup {i} /\ n.have \subseteq AllNos(p)
         /\ n.total = Total[p]
         /\ \A j \in n.have : j > 0 => n.frags[j] = p
         /\ 0 \in n.have => n.frag0 = <<p>>
         /\ AllParts(n, i) <=> n.have = AllNos(p)
  <1> DEFINE n == AddPart(e, p, i)
  <1>1. Total[p] \in 2..MaxFragments /\ MaxFragments \in Nat \ {0} /\ p # NoPacket
    BY PacketAssumption, QueueAssumption
  <1>2. i \in FragNos /\ i \in Nat
    BY <1>1 DEF FragNos, AllNos
  <1>3. /\ e.have \subseteq AllNos(p) /\ e.total \in {0, Total[p]} /\ (e.total = 0 => e.have = {0})
        /\ \A j \in e.have : j > 0 => e.frags[j] = p
        /\ e.have # AllNos(p)
        /\ 0 \in e.have => e.frag0 = <<p>>
        /\ e.used /\ ~ e.complete
    BY DEF EntryOK, PartsEntry, Entry
  <1>4. i = 0 => e.total = Total[p]
    BY <1>3
  <1>5. n.used /\ ~ n.complete /\ n.packetId = p
    BY <1>3 DEF AddPart, Entry
  <1>6. n.total = Total[p]
    BY <1>1, <1>4 DEF AddPart, Entry
  <1>7. n.have = e.have \cup {i} /\ n.have \subseteq AllNos(p)
    BY <1>1, <1>3, <1>4 DEF AddPart, Entry
  <1>8. n \in Entry
    <2>1. p \in Names /\ <<p>> \in Seq(Names) /\ (e.have \cup {i}) \in SUBSET FragNos /\ Total[p] \in 0..MaxFragments
      BY <1>1, <1>2 DEF Names, Entry
    <2>2. [e.frags EXCEPT ![i] = p] \in [1..(MaxFragments - 1) -> Names]
      BY <2>1 DEF Entry
    <2> QED BY <2>1, <2>2 DEF AddPart, Entry
  <1>9. \A j \in n.have : j > 0 => n.frags[j] = p
    <2>1. \A j \in AllNos(p) : j > 0 => j \in 1..(MaxFragments - 1)
      BY <1>1 DEF AllNos
    <2>2. CASE i = 0
      <3>1. n.frags = e.frags
        BY <2>2 DEF AddPart, Entry
      <3> QED BY <1>3, <1>7, <2>2, <3>1
    <2>3. CASE i # 0
      <3>1. n.frags = [e.frags EXCEPT ![i] = p]
        BY <2>3 DEF AddPart, Entry
      <3>2. e.frags \in [1..(MaxFragments - 1) -> Names]
        BY DEF Entry
      <3> QED BY <1>3, <1>7, <2>1, <3>1, <3>2
    <2> QED BY <2>2, <2>3
  <1>10. 0 \in n.have => n.frag0 = <<p>>
    <2>1. n.frag0 = IF i = 0 THEN <<p>> ELSE e.frag0
      BY DEF AddPart, Entry
    <2> QED BY <1>3, <1>7, <2>1
  <1>11. AllParts(n, i) <=> n.have = AllNos(p)
    BY <1>1, <1>6, <1>7, CountParts DEF AllParts
  <1> QED
    BY <1>3, <1>5, <1>6, <1>7, <1>8, <1>9, <1>10, <1>11

\* The last part: what is assembled is the packet.
LEMMA AssembleWhole ==
  ASSUME NEW n \in Entry, NEW p \in Packets, Total[p] > 1, n.packetId = p,
         n.have = AllNos(p), n.total = Total[p],
         \A j \in n.have : j > 0 => n.frags[j] = p,
         0 \in n.have => n.frag0 = <<p>>
  PROVE  Assemble(n).frag0 = [k \in 1..Total[p] |-> p]
  <1>1. Total[p] \in 2..MaxFragments /\ MaxFragments \in Nat \ {0}
    BY PacketAssumption, QueueAssumption
  <1>2. n.frag0 = <<p>>
    BY <1>1 DEF AllNos
  <1>3. \A f \in 1..(Total[p] - 1) : n.frags[f] = p
    BY <1>1 DEF AllNos
  <1>4. Assemble(n).frag0 = <<p>> \o [f \in 1..(n.total - 1) |-> n.frags[f]]
    BY <1>2 DEF Assemble, Entry
  <1>5. [f \in 1..(n.total - 1) |-> n.frags[f]] = [f \in 1..(Total[p] - 1) |-> p]
    BY <1>3
  <1>6. <<p>> \o [f \in 1..(Total[p] - 1) |-> p] = [k \in 1..Total[p] |-> p]
    <2> DEFINE t == [f \in 1..(Total[p] - 1) |-> p]
    <2>1. t \in Seq(Packets) /\ Len(t) = Total[p] - 1 /\ \A f \in 1..(Total[p] - 1) : t[f] = p
      BY <1>1
    <2>2. <<p>> \in Seq(Packets) /\ Len(<<p>>) = 1 /\ <<p>>[1] = p
      OBVIOUS
    <2> HIDE DEF t
    <2>3. <<p>> \o t \in Seq(Packets) /\ Len(<<p>> \o t) = Total[p]
      BY <1>1, <2>1, <2>2
    <2>4. \A k \in 1..Total[p] : (<<p>> \o t)[k] = p
      BY <1>1, <2>1, <2>2
    <2>5. <<p>> \o t = [k \in 1..Total[p] |-> p]
      BY <1>1, <2>3, <2>4
    <2> QED BY <2>5 DEF t
  <1> QED
    BY <1>4, <1>5, <1>6

\* The three outcomes of adding a part keep the invariant of the entry.
LEMMA StorePartOK ==
  ASSUME NEW e \in Entry, EntryOK(e), NEW p \in Packets, Total[p] > 1, e.packetId = p,
         NEW i \in AllNos(p), i \notin e.have
  PROVE  LET n == AddPart(e, p, i)
             a == Assemble(n)
         IN /\ e.used /\ n.packetId = p /\ a.packetId = p
            /\ ~ AllParts(n, i) => n \in Entry /\ EntryOK(n) /\ ~ n.complete
            /\ AllParts(n, i) =>
                 /\ a.frag0 = [k \in 1..Total[p] |-> p]
                 /\ LET x == Freed(a) IN
                    x \in Entry /\ EntryOK(x) /\ ~ x.used /\ x.packetId = p
                 /\ LET y == Waiting(a) IN
                    y \in Entry /\ EntryOK(y) /\ y.packetId = p
  <1> DEFINE n == AddPart(e, p, i)
             a == Assemble(n)
             x == Freed(a)
             y == Waiting(a)
             w == [k \in 1..Total[p] |-> p]
  <1>1. Total[p] \in 2..MaxFragments /\ MaxFragments \in Nat \ {0} /\ p # NoPacket
        /\ 0 \in 0..(RxTimeout + 1) /\ p \in Names
    BY PacketAssumption, QueueAssumption DEF Names
  <1>2. /\ n \in Entry /\ e.used /\ n.used /\ ~ n.complete /\ n.packetId = p
        /\ n.have \subseteq AllNos(p) /\ n.total = Total[p]
        /\ \A j \in n.have : j > 0 => n.frags[j] = p
        /\ 0 \in n.have => n.frag0 = <<p>>
        /\ AllParts(n, i) <=> n.have = AllNos(p)
    BY AddPartFields
  <1> HIDE DEF n
  <1>3. ~ AllParts(n, i) => EntryOK(n)
    BY <1>1, <1>2 DEF EntryOK, FreshEntry, WholeEntry, PartsEntry
  <1>4. ASSUME AllParts(n, i) PROVE a.frag0 = w
    BY <1>2, <1>4, AssembleWhole
  <1>5. a = [n EXCEPT !.frag0 = a.frag0]
    BY <1>2 DEF Assemble, Entry
  <1>6. w \in Seq(Names)
    BY <1>1
  <1>7. ASSUME AllParts(n, i) PROVE x \in Entry /\ EntryOK(x) /\ ~ x.used /\ x.packetId = p
    <2>1. x = [n EXCEPT !.frag0 = w, !.used = FALSE, !.age = 0]
      BY <1>2, <1>4, <1>5, <1>7 DEF Entry, Freed
    <2> HIDE DEF w, x
    <2>2. x \in Entry
      BY <1>1, <1>2, <1>6, <2>1 DEF Entry
    <2>3. x.frag0 = w /\ ~ x.used /\ x.packetId = p /\ x.have = n.have /\ x.total = n.total /\ x.frags = n.frags
      BY <1>2, <2>1 DEF Entry
    <2>4. IsWhole(x.frag0, p)
      BY <2>3 DEF IsWhole, w
    <2> QED BY <1>1, <1>2, <1>7, <2>2, <2>3, <2>4 DEF EntryOK, FreshEntry, WholeEntry, PartsEntry
  <1>8. ASSUME AllParts(n, i) PROVE y \in Entry /\ EntryOK(y) /\ y.packetId = p
    <2>1. y = [n EXCEPT !.frag0 = w, !.complete = TRUE]
      BY <1>2, <1>4, <1>5, <1>8 DEF Entry, Waiting
    <2> HIDE DEF w, y
    <2>2. y \in Entry
      BY <1>1, <1>2, <1>6, <2>1 DEF Entry
    <2>3. y.frag0 = w /\ y.used /\ y.packetId = p /\ y.have = n.have /\ y.total = n.total /\ y.frags = n.frags
      BY <1>2, <2>1 DEF Entry
    <2>4. IsWhole(y.frag0, p)
      BY <2>3 DEF IsWhole, w
    <2> QED BY <1>1, <1>2, <1>8, <2>2, <2>3, <2>4 DEF EntryOK, FreshEntry, WholeEntry, PartsEntry
  <1>9. a.packetId = p
    BY <1>2, <1>5 DEF Entry
  <1> QED
    BY <1>2, <1>3, <1>4, <1>7, <1>8, <1>9 DEF n

\* A complete entry in use holds a whole packet.
LEMMA CompleteIsWhole ==
  ASSUME NEW e \in Entry, EntryOK(e), e.used, e.complete
  PROVE  e.packetId \in Packets /\ IsWhole(e.frag0, e.packetId) /\ e.frag0[1] = e.packetId
  <1>1. e.packetId \in Packets
    BY DEF EntryOK, FreshEntry, Entry, Names
  <1>2. Total[e.packetId] \in Nat \ {0}
    BY <1>1, PacketAssumption, QueueAssumption
  <1>3. IsWhole(e.frag0, e.packetId)
    BY <1>1, <1>2 DEF EntryOK, WholeEntry, PartsEntry
  <1> QED
    BY <1>1, <1>2, <1>3 DEF IsWhole

\* Freeing a complete entry, or letting it grow older, keeps its invariant.
LEMMA FreeOK ==
  ASSUME NEW e \in Entry, EntryOK(e), e.complete
  PROVE  LET x == Freed(e) IN
         x \in Entry /\ EntryOK(x) /\ ~ x.used /\ x.packetId = e.packetId /\ x.complete
  <1> DEFINE x == Freed(e)
  <1>1. x \in Entry
    <2>1. 0 \in 0..(RxTimeout + 1)
      BY QueueAssumption
    <2> QED BY <2>1 DEF Entry, Freed
  <1>2. ~ x.used /\ x.packetId = e.packetId /\ x.have = e.have /\ x.total = e.total
        /\ x.frags = e.frags /\ x.frag0 = e.frag0 /\ x.complete
    BY DEF Entry, Freed
  <1> HIDE DEF x
  <1>3. EntryOK(x)
    BY <1>1, <1>2 DEF EntryOK, FreshEntry, WholeEntry, PartsEntry
  <1> QED
    BY <1>1, <1>2, <1>3 DEF x

\* RequestWhois keeps the types of what it changes.
LEMMA WhoisType ==
  ASSUME TypeOK, NEW a \in Peers, RequestWhois(a)
  PROVE  whoisAge' \in [Peers -> 0..WhoisRetry] /\ asked' \in SUBSET Peers
  BY QueueAssumption DEF TypeOK, RequestWhois

\* What a tryDecode that fails changes keeps its type, and nothing is forgotten.
LEMMA DeferType ==
  ASSUME TypeOK, NEW f, f[1] \in Packets, Defer(f)
  PROVE  /\ whoisAge' \in [Peers -> 0..WhoisRetry] /\ asked' \in SUBSET Peers
         /\ known' \in SUBSET (Peers \cup Grants) /\ known \subseteq known'
  <1> DEFINE p == f[1]
  <1>1. Source[p] \in Peers /\ Needs[p] \in Peers \cup Grants
    BY PacketAssumption
  <1>2. known' \in SUBSET (Peers \cup Grants) /\ known \subseteq known'
    BY <1>1 DEF Defer, TypeOK
  <1>3. UNCHANGED <<whoisAge, asked>> \/ \E a \in Peers : RequestWhois(a)
    BY <1>1 DEF Defer
  <1>4. whoisAge' \in [Peers -> 0..WhoisRetry] /\ asked' \in SUBSET Peers
    BY <1>3, WhoisType DEF TypeOK
  <1> QED BY <1>2, <1>4

(***************************************************************************)
(* A visit of either task: entries only ever become free, the visited one  *)
(* does so if it can be decoded, and no entry changes its packet.          *)
(***************************************************************************)
LEMMA VisitStep ==
  ASSUME TypeOK, \A t \in Slots : EntryOK(rxQueue[t]), NEW s \in Slots, VisitEntry(s)
  PROVE  /\ rxQueue' \in [Slots -> Entry]
         /\ whoisAge' \in [Peers -> 0..WhoisRetry] /\ asked' \in SUBSET Peers
         /\ known' \in SUBSET (Peers \cup Grants) /\ known \subseteq known'
         /\ \A t \in Slots : /\ EntryOK(rxQueue'[t])
                             /\ rxQueue'[t].packetId = rxQueue[t].packetId
                             /\ rxQueue'[t].used => rxQueue'[t] = rxQueue[t]
         /\ ~ Decodable(s, steady) \/ ~ rxQueue'[s].used
  <1> DEFINE e == rxQueue[s]
             x == Freed(e)
  <1>1. e \in Entry /\ EntryOK(e) /\ rxQueue \in [Slots -> Entry]
    BY DEF TypeOK
  <1>2. CASE ~ (e.used /\ e.complete)
    BY <1>1, <1>2 DEF VisitEntry, TypeOK, Decodable
  <1>3. CASE e.used /\ e.complete
    <2>1. x \in Entry /\ EntryOK(x) /\ ~ x.used /\ x.packetId = e.packetId
      BY <1>1, <1>3, FreeOK
    <2>2. e.frag0[1] \in Packets
      BY <1>1, <1>3, CompleteIsWhole
    <2>4. CASE TryDecode(e.frag0)
      <3>1. rxQueue' = [rxQueue EXCEPT ![s] = x] /\ UNCHANGED <<known, whoisAge, asked>>
        BY <1>3, <2>4 DEF VisitEntry
      <3> QED BY <1>1, <2>1, <3>1 DEF TypeOK
    <2>5. CASE ~ TryDecode(e.frag0)
      <3>1. rxQueue' = rxQueue \/ rxQueue' = [rxQueue EXCEPT ![s] = x]
        BY <1>3, <2>5 DEF VisitEntry
      <3>2. /\ whoisAge' \in [Peers -> 0..WhoisRetry] /\ asked' \in SUBSET Peers
            /\ known' \in SUBSET (Peers \cup Grants) /\ known \subseteq known'
        BY <1>3, <2>2, <2>5, DeferType DEF VisitEntry
      <3>3. ~ Decodable(s, steady)
        BY <2>5 DEF Decodable, TryDecode, Decodes, Handled, TypeOK
      <3> QED BY <1>1, <2>1, <3>1, <3>2, <3>3
    <2> QED BY <2>4, <2>5
  <1> QED
    BY <1>2, <1>3

(***************************************************************************)
(* The invariant.                                                          *)
(***************************************************************************)

\* The empty queue of the Switch constructor satisfies the invariant.
LEMMA InitIInv == Init => IInv
  <1> SUFFICES ASSUME Init PROVE IInv
    OBVIOUS
  <1>1. TypeOK
    <2>1. /\ 0 \in 0..(RxTimeout + 1) /\ 0 \in 0..MaxFragments /\ 0 \in 0..(PtrSpan - 1)
          /\ WhoisRetry \in 0..WhoisRetry /\ 0 \in 0..WhoisRetry /\ QueueSize \in 0..QueueSize
          /\ 0 \in Slots /\ 0 \in FragNos
      BY QueueAssumption DEF Slots, FragNos
    <2>2. NoPacket \in Names /\ <<>> \in Seq(Names)
      BY DEF Names
    <2>3. [i \in 1..(MaxFragments - 1) |-> NoPacket] \in [1..(MaxFragments - 1) -> Names]
      BY <2>2
    <2>4. rxQueue \in [Slots -> Entry]
      BY <2>1, <2>2, <2>3 DEF Init, Entry
    <2>5. rx \in [pc: {"recv", "lock", "flush"}, slot: Slots, packet: Names, frag: FragNos] /\ rx.pc # "lock"
      BY <2>1, <2>2 DEF Init, Idle
    <2> QED BY <2>1, <2>4, <2>5 DEF Init, TypeOK
  <1>2. \A s \in Slots : EntryOK(rxQueue[s])
    BY PacketAssumption DEF Init, EntryOK, FreshEntry, WholeEntry, PartsEntry
  <1> QED
    BY <1>1, <1>2 DEF IInv, Init, Idle, Found, OneEntryPerPacket, FlushReleases

\* Knowing less, with fewer entries in use, makes nothing decodable.
LEMMA DecodableShrinks ==
  ASSUME NEW t \in Slots, steady' \subseteq steady,
         rxQueue'[t].used => /\ rxQueue[t].used
                             /\ rxQueue'[t].complete = rxQueue[t].complete
                             /\ rxQueue'[t].frag0 = rxQueue[t].frag0,
         Decodable(t, steady)'
  PROVE  Decodable(t, steady)
  BY DEF Decodable, Decodes, Handled

\* The rx task's control state after a step that ends a handler.
LEMMA IdleType ==
  Idle \in [pc: {"recv", "lock", "flush"}, slot: Slots, packet: Names, frag: FragNos]
  /\ Idle.pc = "recv" /\ Idle.slot = 0
  <1>1. 0 \in Slots /\ 0 \in FragNos /\ NoPacket \in Names
    BY QueueAssumption DEF Slots, FragNos, Names
  <1> QED BY <1>1 DEF Idle

\* A whole packet, decoded at once or queued at the ring counter, keeps it.
LEMMA StepRecvWhole ==
  ASSUME IInv, NEW p \in Packets, RecvWhole(p)
  PROVE  IInv'
  <1>0. TypeOK /\ \A s \in Slots : EntryOK(rxQueue[s])
    BY DEF IInv
  <1>1. CASE TryDecode(<<p>>)
    <2>1. UNCHANGED vars
      BY <1>1 DEF RecvWhole, vars
    <2> QED
      BY <2>1 DEF IInv, TypeOK, Found, OneEntryPerPacket, FlushReleases, vars, SlotBehind, Decodable, Decodes, Handled
  <1>2. CASE ~ TryDecode(<<p>>)
    <2> DEFINE q == rxQueuePtr % QueueSize
               n == [rxQueue[q] EXCEPT !.used = TRUE, !.age = 0, !.packetId = p, !.frag0 = <<p>>,
                                       !.total = 1, !.have = {0}, !.complete = TRUE]
    <2>1. q \in Slots /\ rxQueuePtr' \in 0..(PtrSpan - 1)
      <3>1. rxQueuePtr' = (rxQueuePtr + 1) % PtrSpan
        BY <1>2 DEF RecvWhole
      <3> QED BY <1>0, <3>1, QueueAssumption DEF TypeOK, Slots
    <2>2. rxQueue[q] \in Entry /\ Total[p] = 1 /\ rx.pc = "recv" /\ p # NoPacket
      BY <1>0, <2>1, PacketAssumption DEF TypeOK, RecvWhole
    <2>3. n \in Entry
      <3>1. p \in Names /\ <<p>> \in Seq(Names) /\ {0} \in SUBSET FragNos /\ 1 \in 0..MaxFragments
            /\ 0 \in 0..(RxTimeout + 1)
        BY QueueAssumption DEF Names, FragNos
      <3> QED BY <2>2, <3>1 DEF Entry
    <2>4. n.packetId = p /\ n.total = 1 /\ n.have = {0} /\ n.frag0 = <<p>>
      BY <2>2 DEF Entry
    <2>5. rxQueue' = [rxQueue EXCEPT ![q] = n]
      BY <1>2 DEF RecvWhole
    <2> HIDE DEF n, q
    <2>6. EntryOK(n)
      <3>1. <<p>> = [k \in 1..Total[p] |-> p]
        BY <2>2
      <3> QED BY <2>2, <2>4, <3>1 DEF EntryOK, FreshEntry, WholeEntry, PartsEntry, IsWhole
    <2>7. rxQueue' \in [Slots -> Entry] /\ \A s \in Slots : EntryOK(rxQueue'[s])
      BY <1>0, <2>1, <2>3, <2>5, <2>6 DEF TypeOK
    <2>8. TypeOK'
      <3>1. Defer(<<p>>) /\ UNCHANGED <<cached, sinceCheck, rx, bg, steady>>
        BY <1>2 DEF RecvWhole
      <3>2. /\ whoisAge' \in [Peers -> 0..WhoisRetry] /\ asked' \in SUBSET Peers
            /\ known' \in SUBSET (Peers \cup Grants) /\ known \subseteq known'
        BY <1>0, <3>1, DeferType
      <3> QED BY <1>0, <2>1, <2>2, <2>7, <3>1, <3>2 DEF TypeOK
    <2>9. Found' /\ FlushReleases'
      BY <2>2 DEF RecvWhole, Found, FlushReleases
    <2>10. OneEntryPerPacket'
      BY <1>0, <2>1, <2>2, <2>4, <2>5 DEF IInv, OneEntryPerPacket, TypeOK
    <2> QED BY <2>7, <2>8, <2>9, <2>10 DEF IInv
  <1> QED BY <1>1, <1>2

\* The unlocked lookup keeps it, and establishes Found for the entry it returns.
LEMMA StepRecvPart ==
  ASSUME IInv, NEW p \in Packets, NEW i \in FragNos, RecvPart(p, i)
  PROVE  IInv'
  <1> DEFINE r == FindRXQueueEntry(p)
  <1>1. /\ r.slot \in Slots
        /\ r.ptr \in 0..(PtrSpan - 1)
        /\ \/ rxQueue[r.slot].packetId = p /\ rxQueue[r.slot].used
           \/ /\ \A s \in Slots : rxQueue[s].used => rxQueue[s].packetId # p
              /\ r.slot = ((r.ptr - 1) % PtrSpan) % QueueSize
    BY FindResult DEF IInv
  <1>2. /\ rx' = [pc |-> "lock", slot |-> r.slot, packet |-> p, frag |-> i]
        /\ rxQueuePtr' = r.ptr
        /\ UNCHANGED <<rxQueue, known, cached, whoisAge, asked, sinceCheck, bg, steady>>
        /\ Total[p] > 1 /\ i < Total[p]
    BY DEF RecvPart
  <1> HIDE DEF r
  <1>3. TypeOK'
    <2>1. rx' \in [pc: {"recv", "lock", "flush"}, slot: Slots, packet: Names, frag: FragNos]
          /\ rx'.packet = p /\ rx'.frag = i
      BY <1>1, <1>2 DEF Names
    <2> QED BY <1>1, <1>2, <2>1 DEF IInv, TypeOK
  <1>4. Found' /\ FlushReleases'
    BY <1>1, <1>2 DEF Found, FlushReleases, SlotBehind
  <1>5. OneEntryPerPacket' /\ \A s \in Slots : EntryOK(rxQueue'[s])
    BY <1>2 DEF IInv, OneEntryPerPacket
  <1> QED
    BY <1>3, <1>4, <1>5 DEF IInv

\* Starting over with a part in an entry of another packet keeps it.
LEMMA StepStoreNew ==
  ASSUME IInv, StoreNew
  PROVE  IInv'
  <1> DEFINE n == NewEntry(rxQueue[rx.slot], rx.packet, rx.frag)
  <1>1. /\ rx.pc = "lock" /\ rx.slot \in Slots /\ rx.packet \in Packets /\ Total[rx.packet] > 1
        /\ rx.frag \in AllNos(rx.packet) /\ rxQueue[rx.slot] \in Entry /\ rxQueue \in [Slots -> Entry]
        /\ rxQueue[rx.slot].packetId # rx.packet
    <2>1. rx.frag \in Nat /\ Total[rx.packet] \in Nat /\ rx.frag < Total[rx.packet]
      BY PacketAssumption, QueueAssumption DEF StoreNew, IInv, TypeOK, FragNos
    <2> QED BY <2>1 DEF StoreNew, IInv, TypeOK, AllNos
  <1>2. n \in Entry /\ EntryOK(n) /\ n.used /\ n.packetId = rx.packet
    BY <1>1, NewEntryOK
  <1>3. \A s \in Slots : rxQueue[s].used => rxQueue[s].packetId # rx.packet
    BY <1>1 DEF IInv, Found
  <1>4. rxQueue' = [rxQueue EXCEPT ![rx.slot] = n] /\ rx' = Idle
        /\ UNCHANGED <<rxQueuePtr, known, cached, whoisAge, asked, sinceCheck, bg, steady>>
    BY DEF StoreNew
  <1> HIDE DEF n
  <1>5. TypeOK'
    BY <1>1, <1>2, <1>4, IdleType DEF IInv, TypeOK
  <1>6. \A s \in Slots : EntryOK(rxQueue'[s])
    BY <1>1, <1>2, <1>4 DEF IInv
  <1>7. OneEntryPerPacket'
    BY <1>1, <1>2, <1>3, <1>4 DEF IInv, OneEntryPerPacket
  <1>8. Found' /\ FlushReleases'
    BY <1>4, IdleType DEF Found, FlushReleases
  <1> QED
    BY <1>5, <1>6, <1>7, <1>8 DEF IInv

\* Adding a part, and assembling the packet with the last one, keeps it.
LEMMA StepStorePart ==
  ASSUME IInv, StorePart
  PROVE  IInv'
  <1> DEFINE e == rxQueue[rx.slot]
             n == AddPart(e, rx.packet, rx.frag)
             a == Assemble(n)
             x == Freed(a)
             y == Waiting(a)
  <1>1. /\ rx.pc = "lock" /\ rx.slot \in Slots /\ rx.packet \in Packets /\ Total[rx.packet] > 1
        /\ rx.frag \in AllNos(rx.packet) /\ e \in Entry /\ EntryOK(e) /\ rxQueue \in [Slots -> Entry]
        /\ e.packetId = rx.packet /\ rx.frag \notin e.have
    <2>1. rx.frag \in Nat /\ Total[rx.packet] \in Nat /\ rx.frag < Total[rx.packet]
      BY PacketAssumption, QueueAssumption DEF StorePart, IInv, TypeOK, FragNos
    <2> QED BY <2>1 DEF StorePart, IInv, TypeOK, AllNos
  <1>2. /\ e.used /\ n.packetId = rx.packet
        /\ ~ AllParts(n, rx.frag) => n \in Entry /\ EntryOK(n)
        /\ AllParts(n, rx.frag) =>
             /\ a.frag0 = [k \in 1..Total[rx.packet] |-> rx.packet]
             /\ x \in Entry /\ EntryOK(x) /\ x.packetId = rx.packet
             /\ y \in Entry /\ EntryOK(y) /\ y.packetId = rx.packet
    BY <1>1, StorePartOK
  <1>3. \E z \in Entry : EntryOK(z) /\ z.packetId = rx.packet /\ rxQueue' = [rxQueue EXCEPT ![rx.slot] = z]
    BY <1>2 DEF StorePart
  <1>4. rx' = Idle /\ UNCHANGED <<rxQueuePtr, cached, sinceCheck, bg, steady>>
    BY DEF StorePart
  <1>5. /\ whoisAge' \in [Peers -> 0..WhoisRetry] /\ asked' \in SUBSET Peers
        /\ known' \in SUBSET (Peers \cup Grants) /\ known \subseteq known'
    <2>1. CASE UNCHANGED <<known, whoisAge, asked>>
      BY <2>1 DEF IInv, TypeOK
    <2>2. CASE AllParts(n, rx.frag) /\ Defer(a.frag0)
      <3>1. Total[rx.packet] \in Nat
        BY <1>1, PacketAssumption, QueueAssumption
      <3>2. a.frag0[1] = rx.packet
        BY <1>1, <1>2, <2>2, <3>1
      <3> QED BY <1>1, <2>2, <3>2, DeferType DEF IInv
    <2> QED BY <2>1, <2>2 DEF StorePart
  <1>6. PICK z \in Entry : EntryOK(z) /\ z.packetId = rx.packet /\ rxQueue' = [rxQueue EXCEPT ![rx.slot] = z]
    BY <1>3
  <1> HIDE DEF n, a, x, y
  <1>7. TypeOK'
    BY <1>1, <1>4, <1>5, <1>6, IdleType DEF IInv, TypeOK
  <1>8. \A s \in Slots : EntryOK(rxQueue'[s])
    BY <1>1, <1>6 DEF IInv
  <1>9. OneEntryPerPacket'
    <2>1. \A s \in Slots : rxQueue'[s].packetId = rxQueue[s].packetId /\ (rxQueue'[s].used => rxQueue[s].used)
      BY <1>1, <1>2, <1>6
    <2> QED BY <2>1 DEF IInv, OneEntryPerPacket
  <1>10. Found' /\ FlushReleases'
    BY <1>4, IdleType DEF Found, FlushReleases
  <1> QED
    BY <1>7, <1>8, <1>9, <1>10 DEF IInv

\* Ignoring a part that the entry has keeps it.
LEMMA StepStoreDuplicate ==
  ASSUME IInv, StoreDuplicate
  PROVE  IInv'
  <1>1. rx' = Idle /\ UNCHANGED <<rxQueue, rxQueuePtr, known, cached, whoisAge, asked, sinceCheck, bg, steady>>
    BY DEF StoreDuplicate
  <1>2. TypeOK'
    BY <1>1, IdleType DEF IInv, TypeOK
  <1>3. Found' /\ FlushReleases'
    BY <1>1, IdleType DEF Found, FlushReleases
  <1> QED
    BY <1>1, <1>2, <1>3 DEF IInv, OneEntryPerPacket

\* Learning a peer from its HELLO keeps it.
LEMMA StepRecvHello ==
  ASSUME IInv, NEW a \in Peers, RecvHello(a)
  PROVE  IInv'
  <1>1. rx.pc = "recv" /\ known' = known \cup {a}
        /\ UNCHANGED <<rxQueue, rxQueuePtr, cached, whoisAge, asked, sinceCheck, rx, bg, steady>>
    BY DEF RecvHello
  <1>2. TypeOK'
    BY <1>1 DEF IInv, TypeOK
  <1>3. Found' /\ FlushReleases'
    BY <1>1 DEF Found, FlushReleases
  <1> QED
    BY <1>1, <1>2, <1>3 DEF IInv, OneEntryPerPacket

\* Learning a peer from a WHOIS answer, which starts a flush, keeps it.
LEMMA StepRecvWhoisOK ==
  ASSUME IInv, NEW a \in Peers, RecvWhoisOK(a)
  PROVE  IInv'
  <1>1. known' = known \cup {a} /\ whoisAge' = [whoisAge EXCEPT ![a] = WhoisRetry]
        /\ rx' = [Idle EXCEPT !.pc = "flush"]
        /\ steady' = known'
        /\ UNCHANGED <<rxQueue, rxQueuePtr, cached, asked, sinceCheck, bg>>
    BY DEF RecvWhoisOK
  <1>2. rx' \in [pc: {"recv", "lock", "flush"}, slot: Slots, packet: Names, frag: FragNos]
        /\ rx'.pc = "flush" /\ rx'.slot = 0
    BY <1>1, IdleType DEF Idle
  <1>3. TypeOK'
    BY <1>1, <1>2, QueueAssumption DEF IInv, TypeOK
  <1>4. Found' /\ FlushReleases'
    BY <1>2 DEF Found, FlushReleases, Slots
  <1> QED
    BY <1>1, <1>3, <1>4 DEF IInv, OneEntryPerPacket

\* Both tasks' visits: all of the invariant but the flush position, which
\* depends on whose visit it is.
LEMMA VisitKeeps ==
  ASSUME IInv, NEW s \in Slots, VisitEntry(s), steady' \subseteq steady
  PROVE  /\ rxQueue' \in [Slots -> Entry]
         /\ whoisAge' \in [Peers -> 0..WhoisRetry] /\ asked' \in SUBSET Peers
         /\ known' \in SUBSET (Peers \cup Grants) /\ known \subseteq known'
         /\ \A t \in Slots : EntryOK(rxQueue'[t])
         /\ OneEntryPerPacket'
         /\ ~ Decodable(s, steady)'
         /\ \A t \in Slots : Decodable(t, steady)' => Decodable(t, steady)
         /\ \A t \in Slots : rxQueue'[t].packetId = rxQueue[t].packetId
                             /\ (rxQueue'[t].used => rxQueue[t].used)
  <1>1. /\ rxQueue' \in [Slots -> Entry]
        /\ whoisAge' \in [Peers -> 0..WhoisRetry] /\ asked' \in SUBSET Peers
        /\ known' \in SUBSET (Peers \cup Grants) /\ known \subseteq known'
        /\ \A t \in Slots : /\ EntryOK(rxQueue'[t])
                            /\ rxQueue'[t].packetId = rxQueue[t].packetId
                            /\ rxQueue'[t].used => rxQueue'[t] = rxQueue[t]
        /\ ~ Decodable(s, steady) \/ ~ rxQueue'[s].used
    BY VisitStep DEF IInv
  <1>2. OneEntryPerPacket'
    BY <1>1 DEF IInv, OneEntryPerPacket
  <1>3. \A t \in Slots : Decodable(t, steady)' => Decodable(t, steady)
    BY <1>1, DecodableShrinks
  <1>4. ~ Decodable(s, steady)'
    <2>1. CASE ~ Decodable(s, steady)
      BY <1>3, <2>1
    <2>2. CASE ~ rxQueue'[s].used
      BY <2>2 DEF Decodable
    <2> QED BY <1>1, <2>1, <2>2
  <1> QED
    BY <1>1, <1>2, <1>3, <1>4

\* Visiting one entry in a flush keeps it.
LEMMA StepFlushEntry ==
  ASSUME IInv, FlushEntry
  PROVE  IInv'
  <1>0. PICK s \in Slots : s = rx.slot
    BY DEF IInv, TypeOK
  <1>1. rx.pc = "flush" /\ rx.slot \in Slots /\ VisitEntry(s)
        /\ rx' = (IF rx.slot + 1 = QueueSize THEN Idle ELSE [rx EXCEPT !.slot = @ + 1])
        /\ steady' = (IF rx.slot + 1 = QueueSize THEN {} ELSE steady)
        /\ UNCHANGED <<rxQueuePtr, cached, sinceCheck, bg>>
    BY <1>0 DEF FlushEntry
  <1>2. /\ rxQueue' \in [Slots -> Entry]
        /\ whoisAge' \in [Peers -> 0..WhoisRetry] /\ asked' \in SUBSET Peers
        /\ known' \in SUBSET (Peers \cup Grants) /\ known \subseteq known'
        /\ \A t \in Slots : EntryOK(rxQueue'[t])
        /\ OneEntryPerPacket'
        /\ ~ Decodable(s, steady)'
        /\ \A t \in Slots : Decodable(t, steady)' => Decodable(t, steady)
    BY <1>1, VisitKeeps
  <1>3. rx' \in [pc: {"recv", "lock", "flush"}, slot: Slots, packet: Names, frag: FragNos] /\ rx'.pc # "lock"
    <2>1. CASE rx.slot + 1 = QueueSize
      BY <1>1, <2>1, IdleType
    <2>2. CASE rx.slot + 1 # QueueSize
      <3>1. rx.slot + 1 \in Slots
        BY <1>1, <2>2, QueueAssumption DEF Slots
      <3> QED BY <1>1, <2>2, <3>1 DEF IInv, TypeOK
    <2> QED BY <2>1, <2>2
  <1>4. TypeOK'
    BY <1>1, <1>2, <1>3 DEF IInv, TypeOK
  <1>5. FlushReleases'
    <2>1. CASE rx.slot + 1 = QueueSize
      BY <1>1, <2>1, IdleType DEF FlushReleases
    <2>2. CASE rx.slot + 1 # QueueSize
      <3>1. rx'.slot = rx.slot + 1
        BY <1>1, <2>2 DEF IInv, TypeOK
      <3>2. \A t \in Slots : t < rx.slot => ~ Decodable(t, steady)
        BY <1>1 DEF IInv, FlushReleases
      <3>3. \A t \in Slots : t < rx'.slot => t < rx.slot \/ t = rx.slot
        BY <1>1, <3>1 DEF Slots
      <3>4. \A t \in Slots : t < rx'.slot => ~ Decodable(t, steady)'
        BY <1>0, <1>2, <3>2, <3>3
      <3> QED BY <3>4 DEF FlushReleases
    <2> QED BY <2>1, <2>2
  <1>6. Found'
    BY <1>3 DEF Found
  <1> QED
    BY <1>2, <1>4, <1>5, <1>6 DEF IInv

\* Visiting one entry in a timer pass keeps it.
LEMMA StepPassEntry ==
  ASSUME IInv, PassEntry
  PROVE  IInv'
  <1>1. bg \in Slots /\ VisitEntry(bg) /\ bg' = bg + 1 /\ bg + 1 \in 0..QueueSize
        /\ UNCHANGED <<rxQueuePtr, cached, sinceCheck, rx, steady>>
    BY QueueAssumption DEF PassEntry, IInv, TypeOK, Slots
  <1>2. /\ rxQueue' \in [Slots -> Entry]
        /\ whoisAge' \in [Peers -> 0..WhoisRetry] /\ asked' \in SUBSET Peers
        /\ known' \in SUBSET (Peers \cup Grants) /\ known \subseteq known'
        /\ \A t \in Slots : EntryOK(rxQueue'[t])
        /\ OneEntryPerPacket'
        /\ \A t \in Slots : Decodable(t, steady)' => Decodable(t, steady)
        /\ \A t \in Slots : rxQueue'[t].packetId = rxQueue[t].packetId
                            /\ (rxQueue'[t].used => rxQueue[t].used)
    BY <1>1, VisitKeeps
  <1>3. TypeOK'
    BY <1>1, <1>2 DEF IInv, TypeOK
  <1>4. FlushReleases'
    BY <1>1, <1>2 DEF IInv, FlushReleases
  <1>5. Found'
    BY <1>1, <1>2 DEF IInv, TypeOK, Found, SlotBehind
  <1> QED
    BY <1>2, <1>3, <1>4, <1>5 DEF IInv

\* Starting a timer pass keeps it.
LEMMA StepBeginPass ==
  ASSUME IInv, BeginPass
  PROVE  IInv'
  <1>1. sinceCheck' = 0 /\ bg' = 0 /\ UNCHANGED <<rxQueue, rxQueuePtr, known, cached, whoisAge, asked, rx, steady>>
    BY DEF BeginPass
  <1>2. TypeOK'
    BY <1>1, QueueAssumption DEF IInv, TypeOK
  <1> QED
    BY <1>1, <1>2 DEF IInv, Found, SlotBehind, OneEntryPerPacket, FlushReleases, Decodable, Decodes, Handled

\* Forgetting a silent peer keeps it.
LEMMA StepForgetPeer ==
  ASSUME IInv, NEW a \in Peers, ForgetPeer(a)
  PROVE  IInv'
  <1>1. /\ known' = known \ {a} /\ steady' = steady \ {a} /\ cached' \subseteq cached \cup {a}
        /\ UNCHANGED <<rxQueue, rxQueuePtr, whoisAge, asked, sinceCheck, rx, bg>>
    BY DEF ForgetPeer
  <1>2. TypeOK'
    BY <1>1 DEF IInv, TypeOK
  <1>3. \A t \in Slots : Decodable(t, steady)' => Decodable(t, steady)
    BY <1>1, DecodableShrinks
  <1>4. FlushReleases'
    BY <1>1, <1>3 DEF IInv, FlushReleases
  <1> QED
    BY <1>1, <1>2, <1>4 DEF IInv, Found, SlotBehind, OneEntryPerPacket

\* Proving a membership, and ending one, keeps it.
LEMMA StepGrants ==
  ASSUME IInv, NEW g \in Grants, Grant(g) \/ Revoke(g)
  PROVE  IInv'
  <1>1. /\ known' \in {known \cup {g}, known \ {g}}
        /\ \/ steady' = steady /\ known \subseteq known'
           \/ steady' = steady \ {g} /\ known' = known \ {g}
        /\ UNCHANGED <<rxQueue, rxQueuePtr, cached, whoisAge, asked, sinceCheck, rx, bg>>
    BY DEF Grant, Revoke
  <1>2. TypeOK'
    BY <1>1 DEF IInv, TypeOK
  <1>3. \A t \in Slots : Decodable(t, steady)' => Decodable(t, steady)
    BY <1>1, DecodableShrinks
  <1>4. FlushReleases'
    BY <1>1, <1>3 DEF IInv, FlushReleases
  <1> QED
    BY <1>1, <1>2, <1>4 DEF IInv, Found, SlotBehind, OneEntryPerPacket

\* The passing of time keeps it.
LEMMA StepTick ==
  ASSUME IInv, Tick
  PROVE  IInv'
  <1>1. rxQueue' = [s \in Slots |->
          IF rxQueue[s].used THEN [rxQueue[s] EXCEPT !.age = Older(@, RxTimeout + 1)] ELSE rxQueue[s]]
        /\ whoisAge' = [a \in Peers |-> Older(whoisAge[a], WhoisRetry)]
        /\ sinceCheck' = Older(sinceCheck, WhoisRetry)
        /\ UNCHANGED <<rxQueuePtr, known, cached, asked, rx, bg, steady>>
    BY DEF Tick
  <1>2. ASSUME NEW t \in Slots
        PROVE  /\ rxQueue'[t] \in Entry /\ EntryOK(rxQueue'[t])
               /\ rxQueue'[t].used = rxQueue[t].used
               /\ rxQueue'[t].packetId = rxQueue[t].packetId
               /\ rxQueue'[t].complete = rxQueue[t].complete
               /\ rxQueue'[t].frag0 = rxQueue[t].frag0
    <2> DEFINE e == rxQueue[t]
               n == [e EXCEPT !.age = Older(e.age, RxTimeout + 1)]
    <2>1. e \in Entry /\ EntryOK(e)
      BY DEF IInv, TypeOK
    <2>2. Older(e.age, RxTimeout + 1) \in 0..(RxTimeout + 1)
      BY <2>1, QueueAssumption DEF Older, Entry
    <2>3. n \in Entry /\ n.used = e.used /\ n.packetId = e.packetId /\ n.complete = e.complete
          /\ n.frag0 = e.frag0 /\ n.frags = e.frags /\ n.total = e.total /\ n.have = e.have
      BY <2>1, <2>2 DEF Entry
    <2>4. rxQueue'[t] = n \/ rxQueue'[t] = e
      BY <1>1
    <2> HIDE DEF n, e
    <2>5. EntryOK(n)
      BY <2>1, <2>3 DEF EntryOK, FreshEntry, WholeEntry, PartsEntry
    <2> QED BY <2>1, <2>3, <2>4, <2>5 DEF e
  <1>3. rxQueue' \in [Slots -> Entry]
    BY <1>1, <1>2
  <1>4. whoisAge' \in [Peers -> 0..WhoisRetry] /\ sinceCheck' \in 0..WhoisRetry
    BY <1>1, QueueAssumption DEF IInv, TypeOK, Older
  <1>5. TypeOK'
    BY <1>1, <1>3, <1>4 DEF IInv, TypeOK
  <1>6. \A t \in Slots : Decodable(t, steady)' => Decodable(t, steady)
    BY <1>1, <1>2, DecodableShrinks
  <1>7. FlushReleases'
    BY <1>1, <1>6 DEF IInv, FlushReleases
  <1>8. Found'
    BY <1>1, <1>2 DEF IInv, TypeOK, Found, SlotBehind
  <1>9. OneEntryPerPacket'
    BY <1>2 DEF IInv, OneEntryPerPacket
  <1> QED
    BY <1>2, <1>5, <1>7, <1>8, <1>9 DEF IInv

\* Every step of either task keeps the invariant.
LEMMA StepIInv == IInv /\ [Next]_vars => IInv'
  <1> SUFFICES ASSUME IInv, [Next]_vars PROVE IInv'
    OBVIOUS
  <1>1. CASE UNCHANGED vars
    BY <1>1 DEF IInv, TypeOK, Found, OneEntryPerPacket, FlushReleases, vars, SlotBehind, Decodable, Decodes, Handled
  <1>2. CASE RxTask
    BY <1>2, StepRecvWhole, StepRecvPart, StepRecvHello, StepRecvWhoisOK, StepStoreNew,
       StepStoreDuplicate, StepStorePart, StepFlushEntry DEF RxTask
  <1>3. CASE BgTask
    BY <1>3, StepBeginPass, StepPassEntry, StepForgetPeer DEF BgTask
  <1>4. CASE Tick
    BY <1>4, StepTick
  <1>5. CASE \E g \in Grants : Grant(g) \/ Revoke(g)
    BY <1>5, StepGrants
  <1> QED
    BY <1>1, <1>2, <1>3, <1>4, <1>5 DEF Next

\* The inductive invariant holds in every state of the queue.
THEOREM InvariantHolds == Spec => []IInv
  BY InitIInv, StepIInv, PTL DEF Spec

\* Every variable of the queue keeps its type.
THEOREM TypeCorrect == Spec => []TypeOK
  <1>1. IInv => TypeOK
    BY DEF IInv
  <1> QED BY <1>1, InvariantHolds, PTL

\* No lookup that races with the timer pass splits a packet over two entries.
THEOREM NoSplitPackets == Spec => []OneEntryPerPacket
  <1>1. IInv => OneEntryPerPacket
    BY DEF IInv
  <1> QED BY <1>1, InvariantHolds, PTL

\* Whatever order its parts arrive in, a packet is decoded from its own parts.
THEOREM ReassemblyCorrect == Spec => []Reassembled
  <1>1. IInv => Reassembled
    <2> SUFFICES ASSUME IInv, NEW s \in Slots, rxQueue[s].packetId \in Packets, rxQueue[s].total > 0,
                        Cardinality(rxQueue[s].have) = rxQueue[s].total
                 PROVE  /\ rxQueue[s].total = Total[rxQueue[s].packetId]
                        /\ IsWhole(rxQueue[s].frag0, rxQueue[s].packetId)
      BY DEF Reassembled
    <2> DEFINE e == rxQueue[s]
               p == e.packetId
    <2>1. e \in Entry /\ EntryOK(e)
      BY DEF IInv, TypeOK
    <2>2. Total[p] \in Nat \ {0}
      BY PacketAssumption, QueueAssumption
    <2>3. CASE Total[p] = 1
      BY <2>1, <2>3 DEF EntryOK, WholeEntry
    <2>4. CASE Total[p] > 1
      <3>1. e.have \in SUBSET AllNos(p) /\ e.total = Total[p]
        BY <2>1, <2>4 DEF EntryOK, PartsEntry
      <3>2. e.have = AllNos(p)
        BY <3>1, CountParts
      <3> QED BY <2>1, <2>4, <3>1, <3>2 DEF EntryOK, PartsEntry
    <2> QED BY <2>2, <2>3, <2>4
  <1> QED BY <1>1, InvariantHolds, PTL

\* A WHOIS answer releases everything that waited for it.
THEOREM FlushComplete == Spec => []FlushReleases
  <1>1. IInv => FlushReleases
    BY DEF IInv
  <1> QED BY <1>1, InvariantHolds, PTL

\* The part of one entry in PartialKept: its parts stay, or leave with all others.
Keeps(e, n) ==
  /\ n.packetId = e.packetId
  /\ e.have \subseteq n.have
  /\ n.used \/ Cardinality(n.have) = n.total

\* A visit of either task leaves an unfinished packet as it is.
LEMMA VisitKeepsPartial ==
  ASSUME TypeOK, NEW t \in Slots, VisitEntry(t), NEW s \in Slots, Partial(s)
  PROVE  rxQueue'[s] = rxQueue[s]
  <1>1. rxQueue \in [Slots -> Entry]
    BY DEF TypeOK
  <1>2. CASE rxQueue[t].used /\ rxQueue[t].complete
    <2>1. s # t
      BY <1>2 DEF Partial
    <2>2. rxQueue' = rxQueue \/ rxQueue' = [rxQueue EXCEPT ![t] = Freed(rxQueue[t])]
      BY <1>2 DEF VisitEntry
    <2> QED BY <1>1, <2>1, <2>2
  <1>3. CASE ~ (rxQueue[t].used /\ rxQueue[t].complete)
    BY <1>3 DEF VisitEntry
  <1> QED BY <1>2, <1>3

\* Storing a part gives up no other.
LEMMA StorePartKeeps ==
  ASSUME IInv, StorePart, NEW s \in Slots, Partial(s)
  PROVE  Keeps(rxQueue[s], rxQueue'[s])
  <1> DEFINE e == rxQueue[rx.slot]
             n == AddPart(e, rx.packet, rx.frag)
             a == Assemble(n)
             x == Freed(a)
             y == Waiting(a)
  <1>1. /\ rx.slot \in Slots /\ rx.packet \in Packets /\ Total[rx.packet] > 1
        /\ rx.frag \in AllNos(rx.packet) /\ e \in Entry /\ EntryOK(e) /\ rxQueue \in [Slots -> Entry]
        /\ e.packetId = rx.packet /\ rx.frag \notin e.have
    <2>1. rx.frag \in Nat /\ Total[rx.packet] \in Nat /\ rx.frag < Total[rx.packet]
      BY PacketAssumption, QueueAssumption DEF StorePart, IInv, TypeOK, FragNos
    <2> QED BY <2>1 DEF StorePart, IInv, TypeOK, AllNos
  <1>2. n \in Entry /\ n.used /\ n.packetId = rx.packet /\ n.have = e.have \cup {rx.frag}
    BY <1>1, AddPartFields
  <1>3. \/ rxQueue' = [rxQueue EXCEPT ![rx.slot] = n]
        \/ AllParts(n, rx.frag) /\ rxQueue' = [rxQueue EXCEPT ![rx.slot] = x]
        \/ rxQueue' = [rxQueue EXCEPT ![rx.slot] = y]
    BY DEF StorePart
  <1> HIDE DEF n
  <1>4. /\ x.packetId = n.packetId /\ x.have = n.have /\ x.total = n.total
        /\ y.packetId = n.packetId /\ y.have = n.have /\ y.used = n.used
    BY <1>2 DEF Freed, Waiting, Assemble, Entry
  <1> HIDE DEF x, y, a
  <1>5. CASE s = rx.slot
    <2>1. rxQueue'[s] = n \/ (AllParts(n, rx.frag) /\ rxQueue'[s] = x) \/ rxQueue'[s] = y
      BY <1>1, <1>3, <1>5
    <2> QED BY <1>1, <1>2, <1>4, <1>5, <2>1 DEF Keeps, AllParts
  <1>6. CASE s # rx.slot
    <2>1. rxQueue'[s] = rxQueue[s]
      BY <1>1, <1>3, <1>6
    <2> QED BY <2>1 DEF Keeps, Partial
  <1> QED BY <1>5, <1>6

\* Time changes nothing but the age of an entry.
LEMMA TickKeeps ==
  ASSUME IInv, Tick, NEW s \in Slots, Partial(s)
  PROVE  Keeps(rxQueue[s], rxQueue'[s])
  <1>1. rxQueue[s] \in Entry /\ rxQueue[s].used
    BY DEF IInv, TypeOK, Partial
  <1>2. rxQueue'[s] = [rxQueue[s] EXCEPT !.age = Older(@, RxTimeout + 1)]
    BY <1>1 DEF Tick
  <1> QED BY <1>1, <1>2 DEF Keeps, Entry

\* No part is given up by a timer pass, by a late or repeated part, or by a lookup
\* that raced with either: only the ring counter, coming round, takes an entry.
THEOREM PartsKept == Spec => PartialKept
  <1> DEFINE Kept == \A s \in Slots : Partial(s) =>
               \/ Keeps(rxQueue[s], rxQueue'[s])
               \/ rxQueuePtr % QueueSize = s /\ rxQueuePtr' # rxQueuePtr
               \/ rx.pc = "lock" /\ rx.slot = s /\ SlotBehind(1) = s
  <1>1. ASSUME IInv, Next PROVE Kept
    <2> SUFFICES ASSUME NEW s \in Slots, Partial(s)
                 PROVE  \/ Keeps(rxQueue[s], rxQueue'[s])
                        \/ rxQueuePtr % QueueSize = s /\ rxQueuePtr' # rxQueuePtr
                        \/ rx.pc = "lock" /\ rx.slot = s /\ SlotBehind(1) = s
      OBVIOUS
    <2>1. TypeOK /\ rxQueue \in [Slots -> Entry]
      BY <1>1 DEF IInv, TypeOK
    <2>2. rxQueue'[s] = rxQueue[s] => Keeps(rxQueue[s], rxQueue'[s])
      BY DEF Partial, Keeps
    <2>3. ASSUME NEW p \in Packets, RecvWhole(p)
          PROVE  \/ rxQueue'[s] = rxQueue[s]
                 \/ rxQueuePtr % QueueSize = s /\ rxQueuePtr' # rxQueuePtr
      <3>1. CASE rxQueue' = rxQueue
        BY <3>1
      <3>2. CASE rxQueue' # rxQueue
        <4>1. rxQueuePtr' = (rxQueuePtr + 1) % PtrSpan
          BY <2>3, <3>2 DEF RecvWhole
        <4>2. rxQueuePtr' # rxQueuePtr
          <5>1. rxQueuePtr \in 0..(PtrSpan - 1) /\ PtrSpan \in Nat /\ PtrSpan > 1
            BY <2>1, QueueAssumption DEF TypeOK
          <5>2. CASE rxQueuePtr + 1 < PtrSpan
            BY <4>1, <5>1, <5>2
          <5>3. CASE rxQueuePtr + 1 = PtrSpan
            BY <4>1, <5>1, <5>3
          <5> QED BY <5>1, <5>2, <5>3
        <4>3. rxQueuePtr % QueueSize # s => rxQueue'[s] = rxQueue[s]
          BY <2>1, <2>3, <3>2 DEF RecvWhole
        <4> QED BY <4>2, <4>3
      <3> QED BY <3>1, <3>2
    <2>4. CASE StoreNew
      <3>1. CASE s = rx.slot
        BY <1>1, <2>4, <3>1 DEF StoreNew, IInv, Found
      <3>2. CASE s # rx.slot
        BY <2>1, <2>2, <2>4, <3>2 DEF StoreNew
      <3> QED BY <3>1, <3>2
    <2>5. ASSUME FlushEntry \/ PassEntry
          PROVE  rxQueue'[s] = rxQueue[s]
      <3>1. PICK t \in Slots : VisitEntry(t)
        BY <2>1, <2>5, QueueAssumption DEF FlushEntry, PassEntry, TypeOK, Slots
      <3> QED BY <2>1, <3>1, VisitKeepsPartial
    <2>6. CASE StorePart \/ Tick
      BY <1>1, <2>6, StorePartKeeps, TickKeeps
    <2>7. CASE \/ \E p \in Packets : \E i \in FragNos : RecvPart(p, i)
               \/ \E b \in Peers : RecvHello(b) \/ RecvWhoisOK(b) \/ ForgetPeer(b)
               \/ \E g \in Grants : Grant(g) \/ Revoke(g)
               \/ StoreDuplicate \/ BeginPass
      BY <2>2, <2>7 DEF RecvPart, RecvHello, RecvWhoisOK, ForgetPeer, Grant, Revoke, StoreDuplicate, BeginPass
    <2> QED
      BY <1>1, <2>2, <2>3, <2>4, <2>5, <2>6, <2>7 DEF Next, RxTask, BgTask
  <1>2. IInv /\ [Next]_vars => [Kept]_vars
    BY <1>1
  <1>3. [Kept]_vars <=> [\A s \in Slots : Partial(s) =>
       \/ rxQueue'[s].packetId = rxQueue[s].packetId
          /\ rxQueue[s].have \subseteq rxQueue'[s].have
          /\ (rxQueue'[s].used \/ Cardinality(rxQueue'[s].have) = rxQueue'[s].total)
       \/ rxQueuePtr % QueueSize = s /\ rxQueuePtr' # rxQueuePtr
       \/ rx.pc = "lock" /\ rx.slot = s /\ SlotBehind(1) = s]_vars
    BY DEF Keeps
  <1> HIDE DEF Kept
  <1> QED BY InvariantHolds, <1>2, <1>3, PTL DEF Spec, PartialKept
=============================================================================
