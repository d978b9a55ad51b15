------------------------------ MODULE TxQueue ------------------------------
(***************************************************************************)
(* The transmit queue of Switch: packets wait in it for their destination  *)
(* to be known and reachable, WHOIS requests are made for them, and three  *)
(* callers work on it: send, from any task; doAnythingWaitingForPeer, when *)
(* the rx task gets an OK(WHOIS); doTimerTasks, in the background task.    *)
(*                                                                         *)
(* There is one upstream.  A WHOIS is itself a packet to the upstream that *)
(* may have to be queued.  Times are kept as ages, in ticks: how long ago  *)
(* the clock showed them.  A task reads the clock when it enters the node  *)
(* and works with that time; Node::now is what the last of them read, so a *)
(* packet's creation time can be later than the time of a timer pass.      *)
(* What is sent goes out in pieces: Fragments.                             *)
(***************************************************************************)
EXTENDS Integers, Sequences, SequencesExt, Lists, Fragments

CONSTANTS
  Packets,     \* packets that are sent
  Dests,       \* their destinations
  Dest,        \* the destination of each
  Upstream,    \* the address of the upstream
  Senders,     \* tasks that call send
  QueueSize,   \* ZT_TX_QUEUE_SIZE
  Timeout,     \* ZT_TRANSMIT_QUEUE_TIMEOUT, in ticks
  RetryDelay,  \* ZT_WHOIS_RETRY_DELAY, in ticks
  Word,        \* number of values of a uint64_t
  MaxLag,      \* bound: how long a task works with one reading of the clock
  None

\* Ages are counted as far as they matter.
MaxAge == Timeout + MaxLag + 1
MaxWait == RetryDelay + MaxLag

ASSUME TxAssumption ==
  /\ Dest \in [Packets -> Dests] /\ Upstream \notin Dests
  /\ QueueSize \in Nat \ {0} /\ RetryDelay \in Nat \ {0} /\ MaxLag \in Nat
  /\ Timeout \in Nat /\ Timeout > RetryDelay /\ Word \in Nat /\ Word > 2 * MaxAge
  /\ None \notin Packets \cup Dests /\ Packets \cap Dests = {}

VARIABLES
  queue,    \* _txQueue
  peer,     \* unknown, or known with no path, an expired one, a fresh one
  whois,    \* age of _lastSentWhoisRequest
  asked,    \* destinations with a WHOIS on its way to the upstream
  nodeLag,  \* age of Node::now
  hand,     \* what each sender is doing in send
  flush,    \* the peer that the rx task calls doAnythingWaitingForPeer for
  bg,       \* the background task: control, age of its time, place in the queue,
            \* addresses to ask for
  checked,  \* age of _lastCheckedQueues
  sent,     \* (history) how often a packet was sent
  lost,     \* (history) packets that were dropped, and why
  seen      \* (history) packets in the queue when the background task read its time

vars == <<queue, peer, whois, asked, nodeLag, hand, flush, bg, checked, sent, lost, seen>>

Addresses == Dests \cup {Upstream}
Reasons == {"evicted", "expired"}
Steps == {"idle", "read", "check", "try", "age", "whois"}

\* What waits is a packet, or the WHOIS for an address.
Entry == [what: Packets \cup Dests, dest: Addresses, age: 0..MaxAge]

TypeOK ==
  /\ queue \in Seq(Entry) /\ Len(queue) <= QueueSize
  /\ peer \in [Addresses -> {"unknown", "none", "expired", "fresh"}]
  /\ whois \in [Dests -> 0..MaxWait]
  /\ asked \subseteq Dests
  /\ nodeLag \in 0..MaxLag
  /\ hand \in [Senders -> [pc: {"idle", "push", "ask"}, what: Packets \cup {None}]]
  /\ flush \in Dests \cup {None}
  /\ bg \in [pc: Steps, lag: 0..MaxLag, at: 0..QueueSize + 1, need: SUBSET Dests]
  /\ checked \in 0..MaxWait
  /\ sent \in [Packets -> 0..2]
  /\ lost \subseteq Packets \X Reasons
  /\ seen \subseteq Packets

Init ==
  /\ queue = <<>>
  /\ peer = [a \in Addresses |-> IF a = Upstream THEN "none" ELSE "unknown"]
  /\ whois = [d \in Dests |-> MaxWait]
  /\ asked = {}
  /\ nodeLag = 0
  /\ hand = [t \in Senders |-> [pc |-> "idle", what |-> None]]
  /\ flush = None
  /\ bg = [pc |-> "idle", lag |-> 0, at |-> 0, need |-> {}]
  /\ checked = MaxWait
  /\ sent = [p \in Packets |-> 0]
  /\ lost = {}
  /\ seen = {}
-----------------------------------------------------------------------------
(* Sending.                                                                *)

\* A timer pass has _txQueue_m: it goes through the queue, from entry to entry.
Locked == bg.pc \in {"try", "age"}

\* _trySend succeeds: by a fresh path, else by the upstream's, else by an old one.
CanSend(d) == peer[d] # "unknown" /\ (peer[d] \in {"fresh", "expired"} \/ peer[Upstream] = "fresh")

\* The queue is full: its first entry goes.
Pushed(q, e) == Append(IF Len(q) >= QueueSize THEN Tail(q) ELSE q, e)

\* The packets that a push throws away.
EvictedBy(q) ==
  IF Len(q) >= QueueSize /\ Head(q).what \in Packets THEN {<<Head(q).what, "evicted">>} ELSE {}

\* The rate limit, for a caller whose time is lag ticks old.
WhoisDue(d, lag) == whois[d] - lag >= RetryDelay

\* requestWhois: a packet to the upstream, sent or queued.
RequestWhois(d, lag) ==
  \/ /\ ~ WhoisDue(d, lag)
     /\ UNCHANGED <<whois, asked, queue, lost>>
  \/ /\ WhoisDue(d, lag)
     /\ whois' = [whois EXCEPT ![d] = lag]
     /\ IF CanSend(Upstream)
          THEN asked' = asked \cup {d} /\ UNCHANGED <<queue, lost>>
          ELSE /\ ~ Locked
               /\ queue' = Pushed(queue, [what |-> d, dest |-> Upstream, age |-> nodeLag])
               /\ lost' = lost \cup EvictedBy(queue)
               /\ UNCHANGED asked

\* send, up to _trySend.
Send(t, p) ==
  /\ hand[t].pc = "idle"
  /\ sent[p] = 0 /\ \A r \in Reasons : <<p, r>> \notin lost
  /\ \A s \in Senders : hand[s].what # p
  /\ \A i \in DOMAIN queue : queue[i].what # p
  /\ IF CanSend(Dest[p])
       THEN sent' = [sent EXCEPT ![p] = @ + 1] /\ UNCHANGED hand
       ELSE hand' = [hand EXCEPT ![t] = [pc |-> "push", what |-> p]] /\ UNCHANGED sent
  /\ UNCHANGED <<queue, peer, whois, asked, nodeLag, flush, bg, checked, lost, seen>>

SendPush(t) ==
  /\ hand[t].pc = "push"
  /\ ~ Locked
  /\ queue' = Pushed(queue, [what |-> hand[t].what, dest |-> Dest[hand[t].what], age |-> nodeLag])
  /\ lost' = lost \cup EvictedBy(queue)
  /\ hand' = [hand EXCEPT ![t].pc = "ask"]
  /\ UNCHANGED <<peer, whois, asked, nodeLag, flush, bg, checked, sent, seen>>

\* The destination may have been learned since.
SendAsk(t) ==
  /\ hand[t].pc = "ask"
  /\ IF peer[Dest[hand[t].what]] = "unknown" THEN RequestWhois(Dest[hand[t].what], nodeLag)
                                            ELSE UNCHANGED <<whois, asked, queue, lost>>
  /\ hand' = [hand EXCEPT ![t] = [pc |-> "idle", what |-> None]]
  /\ UNCHANGED <<peer, nodeLag, flush, bg, checked, sent, seen>>
-----------------------------------------------------------------------------
(* Retries.                                                                *)

Copies(p) == {i \in DOMAIN queue : queue[i].what = p}

Queued(p) == Copies(p) # {}

\* Entries that were sent leave the queue, and so do those that are given up.
SendEntries(out, drop) ==
  /\ queue' = EraseAt(queue, out \cup drop)
  /\ sent' = [p \in Packets |-> sent[p] + Cardinality(Copies(p) \cap out)]
  /\ lost' = lost \cup {<<p, "expired">> : p \in {q \in Packets : Copies(q) \cap drop # {}}}

\* An OK(WHOIS): the peer is known, without a path.
RecvWhoisOK(d) ==
  /\ flush = None
  /\ d \in asked
  /\ asked' = asked \ {d}
  /\ peer' = [peer EXCEPT ![d] = IF @ = "unknown" THEN "none" ELSE @]
  /\ flush' = d
  /\ UNCHANGED <<queue, whois, nodeLag, hand, bg, checked, sent, lost, seen>>

\* Mutant: what waits for the peer leaves the queue whether it could be sent or not.
FlushedAlways(d) ==
  /\ queue' = EraseAt(queue, {i \in DOMAIN queue : queue[i].dest = d})
  /\ sent' = [p \in Packets |->
                sent[p] + Cardinality({i \in Copies(p) : queue[i].dest = d /\ CanSend(d)})]
  /\ UNCHANGED lost

Flushed(d) == SendEntries({i \in DOMAIN queue : queue[i].dest = d /\ CanSend(d)}, {})

\* doAnythingWaitingForPeer.
Flush ==
  /\ flush # None
  /\ ~ Locked
  /\ whois' = [whois EXCEPT ![flush] = MaxWait]
  /\ Flushed(flush)
  /\ flush' = None
  /\ UNCHANGED <<peer, asked, nodeLag, hand, bg, checked, seen>>

\* The background task reads the clock, and gives the time to the node later.
BgRead ==
  /\ bg.pc = "idle"
  /\ bg' = [bg EXCEPT !.pc = "read", !.lag = 0]
  /\ seen' = {p \in Packets : Queued(p)}
  /\ UNCHANGED <<queue, peer, whois, asked, nodeLag, hand, flush, checked, sent, lost>>

BgEnter ==
  /\ bg.pc = "read"
  /\ bg' = [bg EXCEPT !.pc = "check"]
  /\ nodeLag' = bg.lag
  /\ UNCHANGED <<queue, peer, whois, asked, hand, flush, checked, sent, lost, seen>>

\* The rx task and the application do the same.
Enter ==
  /\ nodeLag' = 0
  /\ UNCHANGED <<queue, peer, whois, asked, hand, flush, bg, checked, sent, lost, seen>>

\* Mutant: the comparison is the wrong way round.
CheckDueReversed == checked - bg.lag < RetryDelay

CheckDue == checked - bg.lag >= RetryDelay

\* doTimerTasks, the transmit queue.  The mutex does not keep peers and their paths
\* from changing while the pass goes on.
TimerBegin ==
  /\ bg.pc = "check"
  /\ CheckDue
  /\ bg' = [bg EXCEPT !.pc = "try", !.at = 1]
  /\ checked' = bg.lag
  /\ UNCHANGED <<queue, peer, whois, asked, nodeLag, hand, flush, sent, lost, seen>>

\* An entry is tried ...
TimerTry ==
  /\ bg.pc = "try"
  /\ bg.at \in DOMAIN queue
  /\ LET e == queue[bg.at] IN
     \/ /\ CanSend(e.dest)
        /\ SendEntries({bg.at}, {})
        /\ asked' = asked \cup ({e.what} \cap Dests)
        /\ UNCHANGED bg
     \/ /\ ~ CanSend(e.dest)
        /\ bg' = [bg EXCEPT !.pc = "age"]
        /\ UNCHANGED <<queue, sent, lost, asked>>
  /\ UNCHANGED <<peer, whois, nodeLag, hand, flush, checked, seen>>

\* Mutant: an entry is given up at the timeout.
ExpiredAt(e) == (e.age - bg.lag) % Word >= Timeout

\* now - creationTime is unsigned.
Expired(e) == (e.age - bg.lag) % Word > Timeout

\* ... and if that was in vain, its age decides whether it stays.
TimerAge ==
  /\ bg.pc = "age"
  /\ LET e == queue[bg.at] IN
     \/ /\ Expired(e)
        /\ SendEntries({}, {bg.at})
        /\ bg' = [bg EXCEPT !.pc = "try"]
     \/ /\ ~ Expired(e)
        /\ bg' = [bg EXCEPT !.pc = "try", !.at = @ + 1,
                            !.need = @ \cup {d \in Dests : d = e.dest /\ peer[d] = "unknown"}]
        /\ UNCHANGED <<queue, sent, lost>>
  /\ UNCHANGED <<peer, whois, asked, nodeLag, hand, flush, checked, seen>>

TimerPassed ==
  /\ bg.pc = "try"
  /\ bg.at \notin DOMAIN queue
  /\ bg' = [bg EXCEPT !.pc = "whois", !.at = 0]
  /\ UNCHANGED <<queue, peer, whois, asked, nodeLag, hand, flush, checked, sent, lost, seen>>

TimerNotDue ==
  /\ bg.pc = "check"
  /\ ~ CheckDue
  /\ bg' = [bg EXCEPT !.pc = "idle"]
  /\ UNCHANGED <<queue, peer, whois, asked, nodeLag, hand, flush, checked, sent, lost, seen>>

TimerWhois(d) ==
  /\ bg.pc = "whois"
  /\ d \in bg.need
  /\ RequestWhois(d, bg.lag)
  /\ bg' = [bg EXCEPT !.need = @ \ {d}]
  /\ UNCHANGED <<peer, nodeLag, hand, flush, checked, sent, seen>>

TimerEnd ==
  /\ bg.pc = "whois"
  /\ bg.need = {}
  /\ bg' = [bg EXCEPT !.pc = "idle"]
  /\ UNCHANGED <<queue, peer, whois, asked, nodeLag, hand, flush, checked, sent, lost, seen>>
-----------------------------------------------------------------------------
(* What happens outside of the queue.                                      *)

\* A HELLO makes a peer known, and paths come and expire; the housekeeping
\* forgets peers other than the upstream.  An expired path to a destination is
\* as good as a fresh one here.
PeerChange(a, s) ==
  /\ a # Upstream => s # "expired"
  /\ a = Upstream => s # "unknown"
  /\ peer' = [peer EXCEPT ![a] = s]
  /\ UNCHANGED <<queue, whois, asked, nodeLag, hand, flush, bg, checked, sent, lost, seen>>

\* The WHOIS or its answer is lost.
LoseWhois(d) ==
  /\ d \in asked
  /\ asked' = asked \ {d}
  /\ UNCHANGED <<queue, peer, whois, nodeLag, hand, flush, bg, checked, sent, lost, seen>>

Older(age, max) == IF age < max THEN age + 1 ELSE age

Tick ==
  /\ nodeLag < MaxLag
  /\ bg.pc # "idle" => bg.lag < MaxLag
  /\ queue' = [i \in DOMAIN queue |-> [queue[i] EXCEPT !.age = Older(@, MaxAge)]]
  /\ whois' = [d \in Dests |-> Older(whois[d], MaxWait)]
  /\ nodeLag' = nodeLag + 1
  /\ bg' = IF bg.pc = "idle" THEN bg ELSE [bg EXCEPT !.lag = @ + 1]
  /\ checked' = Older(checked, MaxWait)
  /\ UNCHANGED <<peer, asked, hand, flush, sent, lost, seen>>
-----------------------------------------------------------------------------
Background ==
  \/ BgRead \/ BgEnter
  \/ TimerBegin \/ TimerTry \/ TimerAge \/ TimerPassed \/ TimerNotDue \/ TimerEnd
  \/ \E d \in Dests : TimerWhois(d)

Next ==
  \/ \E t \in Senders : SendPush(t) \/ SendAsk(t) \/ \E p \in Packets : Send(t, p)
  \/ \E d \in Dests : RecvWhoisOK(d) \/ LoseWhois(d)
  \/ Flush \/ Enter \/ Background \/ Tick
  \/ \E a \in Addresses : \E s \in {"unknown", "none", "expired", "fresh"} : PeerChange(a, s)

Spec == Init /\ [][Next]_vars

\* The background task and the clock go on, and tasks enter the node.  Nothing is
\* asked of senders or of who answers: they need not get the mutex.
FairSpec == Spec /\ WF_vars(Background) /\ SF_vars(Tick) /\ WF_vars(Enter)
-----------------------------------------------------------------------------
(* Correctness.                                                            *)

Here(b) == IF b THEN 1 ELSE 0

\* Packets that wait, or are on their way into the queue, and those that are dropped.
InBox ==
  {p \in Packets : Queued(p) \/ \E t \in Senders : hand[t] = [pc |-> "push", what |-> p]}

Dropped == {p \in Packets : \E r \in Reasons : <<p, r>> \in lost}

\* The refinement mapping: the queue, the senders' hands and the passes are hidden.
Box == INSTANCE Mailbox
       WITH Packets <- Packets, pending <- InBox, delivered <- sent, dropped <- Dropped

\* With send, doAnythingWaitingForPeer and doTimerTasks at the queue in any order, no
\* packet is sent twice, sent after it was dropped, or gone without a trace.
CarriesMail == Box!Spec

\* What makes that inductive: a packet is in one place only.  It is in the hand of
\* one sender, once in the queue, sent once, or dropped for one reason.
OnePlace ==
  \A p \in Packets :
    /\ \A i, j \in Copies(p) : i = j
    /\ sent[p] + Here(Copies(p) # {}) + Here(\E t \in Senders : hand[t] = [pc |-> "push", what |-> p])
         + Here(<<p, "evicted">> \in lost) + Here(<<p, "expired">> \in lost) <= 1
    /\ \A t \in Senders : hand[t] = [pc |-> "ask", what |-> p]
         => sent[p] = 1 \/ Copies(p) # {} \/ \E r \in Reasons : <<p, r>> \in lost

\* What OnePlace rests on.  A packet waits with its destination.
QueueOK == \A i \in DOMAIN queue : queue[i].what \in Packets => queue[i].dest = Dest[queue[i].what]

\* A sender that is in send has a packet, which no other sender has.
HandOK ==
  \A t \in Senders :
    /\ hand[t].what = None <=> hand[t].pc = "idle"
    /\ \A s \in Senders : hand[s].what = hand[t].what => s = t \/ hand[t].what = None

\* An entry that could not be sent is still there when its age is looked at.
PassOK == bg.pc = "age" => bg.at \in DOMAIN queue

\* What was in the queue when the background task read its time is not younger than
\* that time, and does not get into the queue again.
SeenOK ==
  /\ \A i \in DOMAIN queue : queue[i].what \in seen => queue[i].age >= bg.lag
  /\ \A p \in seen : Queued(p) \/ sent[p] > 0 \/ \E r \in Reasons : <<p, r>> \in lost

IInv == TypeOK /\ QueueOK /\ HandOK /\ OnePlace /\ PassOK /\ SeenOK

\* A packet that was in the queue when the background task read its time is given up
\* only when it is older than the timeout, whatever time has passed since.  One that
\* came later can have a time ahead of the pass's, whose unsigned age is enormous: it
\* is given up at once (README, disagreement 13).
GivenUpOld ==
  [][\A p \in seen : <<p, "expired">> \in lost' \ lost => \E i \in Copies(p) : queue[i].age > Timeout]_vars

SomeSent == \E p \in Packets : sent[p] > 0

\* The pieces of a packet that was sent, of any size that a packet can have, are the
\* packet (CutWhole), and each fits into a datagram (CutFits); a receiver takes them
\* all, or none of a packet that needs too many (CutAccepted): _sendViaSpecificPath
\* against what onRemotePacket takes.
SentIntact == SomeSent => CutWhole /\ CutAccepted /\ CutFits

\* The pass has just tried to send the packet, and has not looked at its age.
TriedInVain(p) == bg.pc = "age" /\ queue[bg.at].what = p

\* A packet that waits while its destination can be reached is sent, also when the
\* destination was learned after _trySend failed and before the packet was queued:
\* neither the flush nor another WHOIS sees it then.  Only a pass that tried it just
\* before the destination was learned may still give it up.
Delivered ==
  \A p \in Packets :
    [](Queued(p) /\ ~ TriedInVain(p) /\ [](CanSend(Dest[p]))
         => <>(sent[p] = 1 \/ <<p, "evicted">> \in lost))
=============================================================================
