------------------------------ MODULE RxQueue ------------------------------
(***************************************************************************)
(* The receive queue of ZeroTier::Switch: a ring of entries in which the   *)
(* rx task reassembles fragmented packets (onRemotePacket) and in which    *)
(* packets that cannot be decoded yet wait for an identity or a credential.*)
(*                                                                         *)
(* Two tasks share the ring.  The rx task looks an entry up without a lock *)
(* (_findRXQueueEntry), then locks it and works on it; the background task *)
(* visits every entry, one lock at a time (doTimerTasks).  A step of this  *)
(* module is what one task does between two lock operations.               *)
(*                                                                         *)
(* Time is counted in ticks and kept as ages (now - timestamp), saturated  *)
(* where the code stops telling them apart, so that behaviours need not    *)
(* end at a bound of the clock.                                            *)
(***************************************************************************)
EXTENDS Integers, FiniteSets, Sequences, FiniteSetsExt

CONSTANTS
  QueueSize,     \* ZT_RX_QUEUE_SIZE
  PtrSpan,       \* number of values of the ring counter before it wraps (2^32)
  MaxFragments,  \* ZT_MAX_PACKET_FRAGMENTS
  RxTimeout,     \* ZT_RECEIVE_QUEUE_TIMEOUT, in ticks
  WhoisRetry,    \* ZT_WHOIS_RETRY_DELAY, in ticks
  Packets,       \* packets (packet ids) that peers send to this node
  Peers,         \* peers that are not upstreams
  NoPacket,      \* what an entry that was never used holds as its packet id
  Total,         \* fragments the sender cut a packet into (1: not fragmented)
  Source,        \* sender of a packet
  Grants,        \* memberships of peers that a network's gate asks for
  Needs          \* what the handler of a packet needs besides its sender: the
                 \* identity of a credential's signer, or a membership

ASSUME QueueAssumption ==
  /\ QueueSize \in Nat \ {0}
  /\ PtrSpan \in Nat /\ PtrSpan > 1
  /\ PtrSpan % QueueSize = 0
  /\ MaxFragments \in Nat \ {0}
  /\ RxTimeout \in Nat
  /\ WhoisRetry \in Nat \ {0}

\* The constructor of an entry leaves packetId and the part marks unset: that
\* the 64 bits found there are no packet's id is the first assumption.
ASSUME PacketAssumption ==
  /\ NoPacket \notin Packets
  /\ Total \in [Packets -> 1..MaxFragments]
  /\ Source \in [Packets -> Peers]
  /\ Peers \cap Grants = {}
  /\ Needs \in [Packets -> Peers \cup Grants]

VARIABLES
  rxQueue,     \* _rxQueue: [Slots -> Entry]
  rxQueuePtr,  \* _rxQueuePtr
  known,       \* peers the topology knows, and memberships that were proved
  cached,      \* peers that are in the cache in flash
  whoisAge,    \* time since _lastSentWhoisRequest[peer], saturated
  asked,       \* peers a WHOIS request has gone out for
  sinceCheck,  \* time since _lastCheckedQueues, saturated
  rx,          \* control state of the rx task
  bg,          \* next entry the background pass visits; QueueSize between passes
  steady       \* (history) what has been known since the flush began

vars == <<rxQueue, rxQueuePtr, known, cached, whoisAge, asked, sinceCheck, rx, bg, steady>>

Slots == 0..(QueueSize - 1)
FragNos == 0..(MaxFragments - 1)
Names == Packets \cup {NoPacket}

(***************************************************************************)
(* used is timestamp # 0.  frag0 is the assembled packet: the owner of     *)
(* each part, in order; frags[i] is the owner of the stored fragment i.    *)
(***************************************************************************)
Entry ==
  [used: BOOLEAN, age: 0..(RxTimeout + 1), packetId: Names,
   frag0: Seq(Names), frags: [1..(MaxFragments - 1) -> Names],
   total: 0..MaxFragments, have: SUBSET FragNos, complete: BOOLEAN]

Idle == [pc |-> "recv", slot |-> 0, packet |-> NoPacket, frag |-> 0]

TypeOK ==
  /\ rxQueue \in [Slots -> Entry]
  /\ rxQueuePtr \in 0..(PtrSpan - 1)
  /\ known \in SUBSET (Peers \cup Grants)
  /\ cached \in SUBSET Peers
  /\ whoisAge \in [Peers -> 0..WhoisRetry]
  /\ asked \in SUBSET Peers
  /\ sinceCheck \in 0..WhoisRetry
  /\ rx \in [pc: {"recv", "lock", "flush"}, slot: Slots, packet: Names, frag: FragNos]
  /\ rx.pc = "lock" => rx.packet \in Packets /\ rx.frag < Total[rx.packet] /\ Total[rx.packet] > 1
  /\ bg \in 0..QueueSize
  /\ steady \in SUBSET known

Init ==
  /\ rxQueue = [s \in Slots |->
       [used |-> FALSE, age |-> 0, packetId |-> NoPacket, frag0 |-> <<>>,
        frags |-> [i \in 1..(MaxFragments - 1) |-> NoPacket],
        total |-> 0, have |-> {}, complete |-> FALSE]]
  /\ rxQueuePtr = 0
  /\ known = {}
  /\ cached \in SUBSET Peers
  /\ whoisAge = [a \in Peers |-> WhoisRetry]
  /\ asked = {}
  /\ sinceCheck = 0
  /\ rx = Idle
  /\ bg = QueueSize
  /\ steady = {}
-----------------------------------------------------------------------------
(* Looking up an entry.                                                    *)

\* The slot k places behind the ring counter: unsigned subtraction wraps.
SlotBehind(k) == ((rxQueuePtr - k) % PtrSpan) % QueueSize

\* Mutant: the search misses the latest entry.
MatchesLate(p) == {k \in 2..QueueSize : LET e == rxQueue[SlotBehind(k)] IN e.packetId = p /\ e.used}

Matches(p) == {k \in 1..QueueSize : LET e == rxQueue[SlotBehind(k)] IN e.packetId = p /\ e.used}

\* _findRXQueueEntry: the matching entry nearest behind the counter, or the
\* entry at the counter, which then advances.
FindRXQueueEntry(p) ==
  IF Matches(p) # {}
    THEN [slot |-> SlotBehind(Min(Matches(p))), ptr |-> rxQueuePtr]
    ELSE [slot |-> rxQueuePtr % QueueSize, ptr |-> (rxQueuePtr + 1) % PtrSpan]
-----------------------------------------------------------------------------
(* Decoding.                                                               *)

\* f is packet p, all of its parts in order.
IsWhole(f, p) == f = [i \in 1..Total[p] |-> p]

\* The handler of packet p can do its work, knowing K: a frame passes the gate of
\* its network, the signer of a credential is known.
Handled(p, K) == Needs[p] \in K

\* tryDecode returns TRUE, knowing K: the packet was handled, or dropped because
\* its MAC does not match.  Otherwise it has to wait.
Decodes(f, K) ==
  LET p == f[1] IN
  /\ Source[p] \in K
  /\ Handled(p, K) \/ ~ IsWhole(f, p)

TryDecode(f) == Decodes(f, known)

\* requestWhois: at most one request per peer and retry delay.
RequestWhois(a) ==
  IF whoisAge[a] < WhoisRetry
    THEN UNCHANGED <<whoisAge, asked>>
    ELSE /\ whoisAge' = [whoisAge EXCEPT ![a] = 0]
         /\ asked' = asked \cup {a}

\* What a tryDecode that fails does.  getPeer loads a sender from the cache but
\* does not return it, so that an upstream is asked for its identity as well; a
\* missing membership is the sender's to send.
Defer(f) ==
  LET p == f[1] IN
  \/ /\ Source[p] \notin known
     /\ RequestWhois(Source[p])
     /\ known' = known \cup ({Source[p]} \cap cached)
  \/ /\ Source[p] \in known
     /\ IF Needs[p] \in Peers THEN RequestWhois(Needs[p]) ELSE UNCHANGED <<whoisAge, asked>>
     /\ UNCHANGED known

\* timestamp = 0; the entry keeps its contents and its packet id.
Freed(e) == [e EXCEPT !.used = FALSE, !.age = 0]

\* complete = true: left in the queue since decoding has to wait.
Waiting(e) == [e EXCEPT !.complete = TRUE]

\* Mutant: the timeout is applied to packets still being assembled.
VisitDropsParts(s) ==
  LET e == rxQueue[s] IN
  IF e.used /\ (e.age > RxTimeout \/ (e.complete /\ TryDecode(e.frag0)))
    THEN /\ rxQueue' = [rxQueue EXCEPT ![s] = Freed(@)]
         /\ UNCHANGED <<known, whoisAge, asked>>
    ELSE UNCHANGED <<rxQueue, known, whoisAge, asked>>

\* Mutant: a packet waits for ever.
VisitWithoutTimeout(s) ==
  LET e == rxQueue[s] IN
  IF e.used /\ e.complete
    THEN IF TryDecode(e.frag0)
           THEN /\ rxQueue' = [rxQueue EXCEPT ![s] = Freed(@)]
                /\ UNCHANGED <<known, whoisAge, asked>>
           ELSE /\ UNCHANGED rxQueue
                /\ Defer(e.frag0)
    ELSE UNCHANGED <<rxQueue, known, whoisAge, asked>>

\* What a visit of doTimerTasks or doAnythingWaitingForPeer does to entry s.
VisitEntry(s) ==
  LET e == rxQueue[s] IN
  IF e.used /\ e.complete
    THEN IF TryDecode(e.frag0)
           THEN /\ rxQueue' = [rxQueue EXCEPT ![s] = Freed(@)]
                /\ UNCHANGED <<known, whoisAge, asked>>
           ELSE /\ rxQueue' = IF e.age > RxTimeout
                                THEN [rxQueue EXCEPT ![s] = Freed(@)]
                                ELSE rxQueue
                /\ Defer(e.frag0)
    ELSE UNCHANGED <<rxQueue, known, whoisAge, asked>>
-----------------------------------------------------------------------------
(* The rx task: onRemotePacket.                                            *)

\* An unfragmented packet: decoded at once, or queued in the next entry.
RecvWhole(p) ==
  /\ rx.pc = "recv"
  /\ Total[p] = 1
  /\ IF TryDecode(<<p>>)
       THEN UNCHANGED <<rxQueue, rxQueuePtr, known, whoisAge, asked>>
       ELSE /\ rxQueue' = [rxQueue EXCEPT ![rxQueuePtr % QueueSize] =
                 [@ EXCEPT !.used = TRUE, !.age = 0, !.packetId = p, !.frag0 = <<p>>,
                           !.total = 1, !.have = {0}, !.complete = TRUE]]
            /\ rxQueuePtr' = (rxQueuePtr + 1) % PtrSpan
            /\ Defer(<<p>>)
  /\ UNCHANGED <<cached, sinceCheck, rx, bg, steady>>

\* Part i of a fragmented packet (0 is the head): find its entry, no lock held.
RecvPart(p, i) ==
  /\ rx.pc = "recv"
  /\ Total[p] > 1
  /\ i < Total[p]
  /\ rx' = [pc |-> "lock", slot |-> FindRXQueueEntry(p).slot, packet |-> p, frag |-> i]
  /\ rxQueuePtr' = FindRXQueueEntry(p).ptr
  /\ UNCHANGED <<rxQueue, known, cached, whoisAge, asked, sinceCheck, bg, steady>>

\* Mutant: the marks of the entry's former packet are not cleared.
NewEntryKeepsMarks(e, p, i) ==
  [e EXCEPT !.used = TRUE, !.age = 0, !.packetId = p,
            !.frag0 = IF i = 0 THEN <<p>> ELSE @,
            !.frags = IF i = 0 THEN @ ELSE [@ EXCEPT ![i] = p],
            !.total = IF i = 0 THEN 0 ELSE Total[p],
            !.have = @ \cup {i}, !.complete = FALSE]

\* The entry, now locked, belongs to another packet: start over with this part.
NewEntry(e, p, i) ==
  [e EXCEPT !.used = TRUE, !.age = 0, !.packetId = p,
            !.frag0 = IF i = 0 THEN <<p>> ELSE @,
            !.frags = IF i = 0 THEN @ ELSE [@ EXCEPT ![i] = p],
            !.total = IF i = 0 THEN 0 ELSE Total[p],
            !.have = {i}, !.complete = FALSE]

\* The entry holds other parts of the packet: add this one.  A head does not
\* carry the number of fragments, and is only counted once that is known.
AddPart(e, p, i) ==
  [e EXCEPT !.frag0 = IF i = 0 THEN <<p>> ELSE @,
            !.frags = IF i = 0 THEN @ ELSE [@ EXCEPT ![i] = p],
            !.total = IF i = 0 THEN @ ELSE Total[p],
            !.have = IF i = 0 /\ e.total <= 1 THEN @ ELSE @ \cup {i}]

AllParts(e, i) == (i = 0 => e.total > 1) /\ Cardinality(e.have) = e.total

Assemble(e) == [e EXCEPT !.frag0 = @ \o [f \in 1..(e.total - 1) |-> e.frags[f]]]

StoreNew ==
  /\ rx.pc = "lock"
  /\ rxQueue[rx.slot].packetId # rx.packet
  /\ rxQueue' = [rxQueue EXCEPT ![rx.slot] = NewEntry(@, rx.packet, rx.frag)]
  /\ rx' = Idle
  /\ UNCHANGED <<rxQueuePtr, known, cached, whoisAge, asked, sinceCheck, bg, steady>>

StoreDuplicate ==
  /\ rx.pc = "lock"
  /\ rxQueue[rx.slot].packetId = rx.packet
  /\ rx.frag \in rxQueue[rx.slot].have
  /\ rx' = Idle
  /\ UNCHANGED <<rxQueue, rxQueuePtr, known, cached, whoisAge, asked, sinceCheck, bg, steady>>

StorePart ==
  /\ rx.pc = "lock"
  /\ rxQueue[rx.slot].packetId = rx.packet
  /\ rx.frag \notin rxQueue[rx.slot].have
  /\ LET e == AddPart(rxQueue[rx.slot], rx.packet, rx.frag)
         a == Assemble(e)
     IN \/ /\ ~ AllParts(e, rx.frag)
           /\ rxQueue' = [rxQueue EXCEPT ![rx.slot] = e]
           /\ UNCHANGED <<known, whoisAge, asked>>
        \/ /\ AllParts(e, rx.frag)
           /\ TryDecode(a.frag0)
           /\ rxQueue' = [rxQueue EXCEPT ![rx.slot] = Freed(a)]
           /\ UNCHANGED <<known, whoisAge, asked>>
        \/ /\ AllParts(e, rx.frag)
           /\ ~ TryDecode(a.frag0)
           /\ rxQueue' = [rxQueue EXCEPT ![rx.slot] = Waiting(a)]
           /\ Defer(a.frag0)
  /\ rx' = Idle
  /\ UNCHANGED <<rxQueuePtr, cached, sinceCheck, bg, steady>>

\* A HELLO makes its sender known; nothing that waits is looked at.
RecvHello(a) ==
  /\ rx.pc = "recv"
  /\ known' = known \cup {a}
  /\ UNCHANGED <<rxQueue, rxQueuePtr, cached, whoisAge, asked, sinceCheck, rx, bg, steady>>

\* Mutant: the pass begins at the second entry.
FlushFromSecond(a) ==
  /\ rx.pc = "recv"
  /\ a \in asked
  /\ known' = known \cup {a}
  /\ whoisAge' = [whoisAge EXCEPT ![a] = WhoisRetry]
  /\ rx' = [Idle EXCEPT !.pc = "flush", !.slot = 1]
  /\ steady' = known'
  /\ UNCHANGED <<rxQueue, rxQueuePtr, cached, asked, sinceCheck, bg>>

\* OK(WHOIS), possibly late or duplicated: the peer becomes known, and
\* doAnythingWaitingForPeer starts its pass over the queue.
RecvWhoisOK(a) ==
  /\ rx.pc = "recv"
  /\ a \in asked
  /\ known' = known \cup {a}
  /\ whoisAge' = [whoisAge EXCEPT ![a] = WhoisRetry]
  /\ rx' = [Idle EXCEPT !.pc = "flush"]
  /\ steady' = known'
  /\ UNCHANGED <<rxQueue, rxQueuePtr, cached, asked, sinceCheck, bg>>

FlushEntry ==
  /\ rx.pc = "flush"
  /\ VisitEntry(rx.slot)
  /\ rx' = IF rx.slot + 1 = QueueSize THEN Idle ELSE [rx EXCEPT !.slot = @ + 1]
  /\ steady' = IF rx.slot + 1 = QueueSize THEN {} ELSE steady
  /\ UNCHANGED <<rxQueuePtr, cached, sinceCheck, bg>>

\* A packet that one of the tasks decoded proves a membership, or ends one.
Grant(g) ==
  /\ known' = known \cup {g}
  /\ UNCHANGED <<rxQueue, rxQueuePtr, cached, whoisAge, asked, sinceCheck, rx, bg, steady>>

Revoke(g) ==
  /\ g \in known
  /\ known' = known \ {g}
  /\ steady' = steady \ {g}
  /\ UNCHANGED <<rxQueue, rxQueuePtr, cached, whoisAge, asked, sinceCheck, rx, bg>>
-----------------------------------------------------------------------------
(* The background task: doTimerTasks, and Topology::doPeriodicTasks.       *)

BeginPass ==
  /\ bg = QueueSize
  /\ sinceCheck >= WhoisRetry
  /\ sinceCheck' = 0
  /\ bg' = 0
  /\ UNCHANGED <<rxQueue, rxQueuePtr, known, cached, whoisAge, asked, rx, steady>>

\* Mutant: the pass ends before the last entry.
PassStopsShort ==
  /\ bg < QueueSize
  /\ IF bg + 1 < QueueSize THEN VisitEntry(bg) ELSE UNCHANGED <<rxQueue, known, whoisAge, asked>>
  /\ bg' = bg + 1
  /\ UNCHANGED <<rxQueuePtr, cached, sinceCheck, rx, steady>>

PassEntry ==
  /\ bg < QueueSize
  /\ VisitEntry(bg)
  /\ bg' = bg + 1
  /\ UNCHANGED <<rxQueuePtr, cached, sinceCheck, rx, steady>>

\* doPeriodicTasks drops a peer that has been silent for too long, and saves it
\* in the cache if there is room.
ForgetPeer(a) ==
  /\ bg = QueueSize
  /\ a \in known
  /\ known' = known \ {a}
  /\ cached' \in {cached, cached \cup {a}}
  /\ steady' = steady \ {a}
  /\ UNCHANGED <<rxQueue, rxQueuePtr, whoisAge, asked, sinceCheck, rx, bg>>

Older(age, cap) == IF age < cap THEN age + 1 ELSE age

Tick ==
  /\ rxQueue' = [s \in Slots |->
       IF rxQueue[s].used THEN [rxQueue[s] EXCEPT !.age = Older(@, RxTimeout + 1)]
                          ELSE rxQueue[s]]
  /\ whoisAge' = [a \in Peers |-> Older(whoisAge[a], WhoisRetry)]
  /\ sinceCheck' = Older(sinceCheck, WhoisRetry)
  /\ UNCHANGED <<rxQueuePtr, known, cached, asked, rx, bg, steady>>
-----------------------------------------------------------------------------
RxTask ==
  \/ \E p \in Packets : RecvWhole(p) \/ \E i \in FragNos : RecvPart(p, i)
  \/ \E a \in Peers : RecvHello(a) \/ RecvWhoisOK(a)
  \/ StoreNew \/ StoreDuplicate \/ StorePart \/ FlushEntry

BgTask ==
  \/ BeginPass \/ PassEntry
  \/ \E a \in Peers : ForgetPeer(a)

Next == RxTask \/ BgTask \/ Tick \/ \E g \in Grants : Grant(g) \/ Revoke(g)

Spec == Init /\ [][Next]_vars

\* The background loop runs for ever and time passes; packets need not arrive.
FairSpec ==
  /\ Spec
  /\ WF_vars(Tick)
  /\ WF_vars(BeginPass)
  /\ WF_vars(PassEntry)
  /\ WF_vars(StoreNew \/ StoreDuplicate \/ StorePart \/ FlushEntry)
-----------------------------------------------------------------------------
(* Correctness.                                                            *)

\* A packet that is handed to the decoder from the queue is put together from
\* the parts of one packet, all of them, in order: whatever was lost, repeated
\* or reordered, no part of the entry's former packet is left in it.
Reassembled ==
  \A s \in Slots :
    LET e == rxQueue[s] IN
    (e.packetId \in Packets /\ e.total > 0 /\ Cardinality(e.have) = e.total)
      => e.total = Total[e.packetId] /\ IsWhole(e.frag0, e.packetId)

\* The parts of one fragmented packet never collect in two entries, where
\* neither would ever be complete, although the lookup holds no lock.
OneEntryPerPacket ==
  \A s, t \in Slots :
    (/\ rxQueue[s].used /\ rxQueue[t].used
     /\ rxQueue[s].packetId = rxQueue[t].packetId
     /\ Total[rxQueue[s].packetId] > 1) => s = t

\* Entry s holds a packet that could be decoded by one who knows K.
Decodable(s, K) == rxQueue[s].used /\ rxQueue[s].complete /\ Decodes(rxQueue[s].frag0, K)

Ready(s) == Decodable(s, known)

\* doAnythingWaitingForPeer leaves nothing behind it that could be decoded with
\* what has been known since it began, although the background task works on the
\* same entries and may forget peers meanwhile.
FlushReleases ==
  rx.pc = "flush" => \A s \in Slots : s < rx.slot => ~ Decodable(s, steady)

Partial(s) == rxQueue[s].used /\ ~ rxQueue[s].complete

\* Received parts are only given up when the ring counter comes round to their
\* entry: neither a timer pass nor a lookup that raced with one loses them.
PartialKept ==
  [][\A s \in Slots : Partial(s) =>
       \/ rxQueue'[s].packetId = rxQueue[s].packetId
          /\ rxQueue[s].have \subseteq rxQueue'[s].have
          /\ (rxQueue'[s].used \/ Cardinality(rxQueue'[s].have) = rxQueue'[s].total)
       \/ rxQueuePtr % QueueSize = s /\ rxQueuePtr' # rxQueuePtr
       \/ rx.pc = "lock" /\ rx.slot = s /\ SlotBehind(1) = s]_vars

\* A queued packet that nobody can decode is dropped after the timeout: the
\* timer pass reaches every entry, again and again.
ExpiredFreed ==
  \A s \in Slots :
    (rxQueue[s].used /\ rxQueue[s].complete /\ rxQueue[s].age > RxTimeout)
      ~> (~ rxQueue[s].used \/ rxQueue[s].age <= RxTimeout)

\* A packet whose sender becomes known by a HELLO, which wakes nobody, is still
\* taken from the queue (unless the peer is forgotten first).
ReadyDecoded == \A s \in Slots : Ready(s) ~> ~ Ready(s)
-----------------------------------------------------------------------------
(* The inductive invariant behind the safety properties.                   *)

AllNos(p) == 0..(Total[p] - 1)

\* An entry that was never used holds nothing.
FreshEntry(e) == e.packetId = NoPacket => ~ e.used

\* The entry of a whole packet.
WholeEntry(e) ==
  (e.packetId \in Packets /\ Total[e.packetId] = 1)
    => e.total = 1 /\ e.have = {0} /\ IsWhole(e.frag0, e.packetId)

\* The entry of a fragmented packet: its marks are of parts that it holds, and
\* it is only freed, or marked complete, when it holds them all.
PartsEntry(e) ==
  (e.packetId \in Packets /\ Total[e.packetId] > 1) =>
    LET p == e.packetId IN
    /\ e.have \subseteq AllNos(p)
    /\ e.total \in {0, Total[p]}
    /\ e.total = 0 => e.have = {0}
    /\ \A i \in e.have : i > 0 => e.frags[i] = p
    /\ e.have # AllNos(p) => (0 \in e.have => e.frag0 = <<p>>)
    /\ e.have = AllNos(p) => e.total = Total[p] /\ IsWhole(e.frag0, p)
    /\ (e.complete \/ ~ e.used) => e.have = AllNos(p)

EntryOK(e) == FreshEntry(e) /\ WholeEntry(e) /\ PartsEntry(e)

\* While the rx task waits for the lock, the entry it found is the packet's own,
\* or the one just allocated because no entry in use is the packet's.
Found ==
  (rx.pc = "lock" /\ rxQueue[rx.slot].packetId # rx.packet) =>
    /\ rx.slot = SlotBehind(1)
    /\ \A s \in Slots : rxQueue[s].used => rxQueue[s].packetId # rx.packet

IInv ==
  /\ TypeOK
  /\ \A s \in Slots : EntryOK(rxQueue[s])
  /\ Found
  /\ OneEntryPerPacket
  /\ FlushReleases
=============================================================================
