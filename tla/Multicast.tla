----------------------------- MODULE Multicast -----------------------------
(***************************************************************************)
(* One multicast group of one network (Multicaster, OutboundMulticast):    *)
(* who is a member, and how a frame gets to members that are known and to  *)
(* members that are learned while it waits.                                *)
(*                                                                         *)
(* A frame is of this node, or of another member (its origin) that asked   *)
(* this node to replicate it.  Every operation holds _groups_m.  The clean *)
(* up works with the time the background task read before; times are kept  *)
(* as ages, in ticks.  Which members a frame goes to when there are more   *)
(* than the limit is random.  The filter of outgoing frames lets all pass; *)
(* sending by way of a replicator keeps no state and is left out.          *)
(***************************************************************************)
EXTENDS Integers, Sequences, FiniteSets, FiniteSetsExt, SequencesExt, Lists

CONSTANTS
  Addresses,    \* addresses of members of the network, without this node
  Bridges,      \* active bridges among them
  Frames,       \* frames that are sent, each once
  Origin,       \* the origin of a frame
  None,         \* no origin: the frame is of this node
  Limit,        \* multicastLimit
  QueueSize,    \* ZT_TX_QUEUE_SIZE
  Timeout,      \* ZT_MULTICAST_TRANSMIT_TIMEOUT, in ticks
  LikeExpire,   \* ZT_MULTICAST_LIKE_EXPIRE, in ticks
  GatherDelay,  \* ZT_MULTICAST_EXPLICIT_GATHER_DELAY, in ticks
  Period,       \* ZT_HOUSEKEEPING_PERIOD, in ticks
  Word,         \* number of values of a uint64_t
  MaxLag        \* bound: how old the time of a clean up can be

MaxAge == Period + Timeout + MaxLag + LikeExpire

ASSUME MulticastAssumption ==
  /\ IsFiniteSet(Addresses) /\ Bridges \subseteq Addresses
  /\ None \notin Addresses /\ Origin \in [Frames -> Addresses \cup {None}]
  /\ Limit \in Nat \ {0} /\ QueueSize \in Nat \ {0}
  /\ Timeout \in Nat \ {0} /\ LikeExpire \in Nat \ {0} /\ GatherDelay \in Nat /\ Period \in Nat \ {0}
  /\ MaxLag \in Nat /\ Word \in Nat /\ Word > 2 * MaxAge

VARIABLES
  members,   \* age of the last LIKE of each member
  txQueue,   \* frames that wait for more members
  gathered,  \* age of lastExplicitGather
  unsent,    \* frames still to be sent
  got,       \* (history) how often each address was sent a frame
  bg,        \* the background task: is it cleaning, age of its time, of its last clean up
  waited     \* (history) frames that waited when the time of the clean up was read

vars == <<members, txQueue, gathered, unsent, got, bg, waited>>

Known == DOMAIN members

TypeOK ==
  /\ Known \subseteq Addresses /\ members \in [Known -> 0..LikeExpire + MaxLag]
  /\ txQueue \in Seq([frame: Frames, sentTo: SUBSET Addresses, count: Nat, age: 0..Timeout + MaxLag])
  /\ Len(txQueue) <= QueueSize
  /\ gathered \in 0..GatherDelay
  /\ unsent \subseteq Frames
  /\ got \in [Frames -> [Addresses -> Nat]]
  /\ bg \in [cleaning: BOOLEAN, lag: 0..MaxLag, since: 0..Period + MaxLag]
  /\ waited \subseteq Frames

Init ==
  /\ members = << >>
  /\ txQueue = << >>
  /\ gathered \in 0..GatherDelay
  /\ unsent = Frames
  /\ got = [f \in Frames |-> [a \in Addresses |-> 0]]
  /\ bg = [cleaning |-> FALSE, lag |-> 0, since |-> Period]
  /\ waited = {}
-----------------------------------------------------------------------------
(* Multicaster::send.                                                      *)

\* Frame f is sent to active bridges, and to other members.
Sent(f, bridges, to) ==
  got' = [got EXCEPT ![f] = [a \in Addresses |->
            @[a] + (IF a \in bridges THEN 1 ELSE 0) + (IF a \in to THEN 1 ELSE 0)]]

\* The members that are not bridges.
Others == Known \ Bridges

\* As many of a set as the limit allows.
Chosen(S, n) == kSubset(IF Cardinality(S) < n THEN Cardinality(S) ELSE n, S)

\* There are members enough: one pass, and no queue.
SendDirect(f) ==
  /\ f \in unsent
  /\ Cardinality(Known) >= Limit
  /\ \E to \in Chosen(Others \ {Origin[f]}, Limit) :
       Sent(f, Bridges \ {Origin[f]}, to)
  /\ unsent' = unsent \ {f}
  /\ UNCHANGED <<members, txQueue, gathered, bg, waited>>

\* The first entries go until there is room for one more.
Room(q) == IF Len(q) < QueueSize THEN q ELSE SubSeq(q, Len(q) - QueueSize + 2, Len(q))

\* Bridges first, then members, to the limit.  The origin is logged, and counted,
\* but not left out.
SendQueued(f) ==
  /\ f \in unsent
  /\ Cardinality(Known) < Limit
  /\ \E bridges \in Chosen(Bridges, Limit) :
       \E to \in Chosen(Others, Limit - Cardinality(bridges)) :
         LET logged == {Origin[f]} \ {None}
             all == bridges \cup to
         IN /\ Sent(f, bridges, to)
            /\ txQueue' = Append(Room(txQueue),
                 [frame |-> f, sentTo |-> all \cup logged,
                  count |-> Cardinality(all) + Cardinality(logged), age |-> 0])
  /\ gathered' = IF Known = {} \/ gathered >= GatherDelay THEN 0 ELSE gathered
  /\ unsent' = unsent \ {f}
  /\ UNCHANGED <<members, bg, waited>>
-----------------------------------------------------------------------------
(* Members come and go.                                                    *)

\* Mutant: a frame that waits is sent to everybody who comes.
AtLimitNever(tx) == FALSE

AtLimit(tx) == tx.count >= Limit

\* Mutant: the log is not looked at.
SendableAny(tx, a) == ~ AtLimit(tx)

\* sendIfNew sends.
Sendable(tx, a) == ~ AtLimit(tx) /\ a \notin tx.sentTo

SendIfNew(tx, a) ==
  IF Sendable(tx, a) THEN [tx EXCEPT !.sentTo = @ \cup {a}, !.count = @ + 1] ELSE tx

IsNew(a) == a \notin Known

\* Mutant: frames that wait are not looked at.
ServeNobody(a) == UNCHANGED <<txQueue, got>>

\* The frames that wait go to a member that is new, and leave at their limit.
Serve(a) ==
  LET out == {tx \in ToSet(txQueue) : Sendable(tx, a)}
      served == [i \in DOMAIN txQueue |-> SendIfNew(txQueue[i], a)]
  IN /\ got' = [f \in Frames |-> [got[f] EXCEPT ![a] = @ + Cardinality({tx \in out : tx.frame = f})]]
     /\ txQueue' = EraseAt(served, {i \in DOMAIN served : AtLimit(served[i])})

\* A LIKE, or one address of a gather result (_add).
Add(a) ==
  /\ members' = [b \in Known \cup {a} |-> IF b = a THEN 0 ELSE members[b]]
  /\ IF IsNew(a) THEN Serve(a) ELSE UNCHANGED <<txQueue, got>>
  /\ UNCHANGED <<gathered, unsent, bg, waited>>

\* ERROR_UNWANTED_MULTICAST (remove).
Unsubscribe(a) ==
  /\ a \in Known
  /\ members' = [b \in Known \ {a} |-> members[b]]
  /\ UNCHANGED <<txQueue, gathered, unsent, got, bg, waited>>
-----------------------------------------------------------------------------
(* The clean up.                                                           *)

Waiting == {tx.frame : tx \in ToSet(txQueue)}

\* The housekeeping is due, with the time that the background task has read.
BeginClean ==
  /\ ~ bg.cleaning
  /\ bg.since >= Period
  /\ bg' = [cleaning |-> TRUE, lag |-> 0, since |-> 0]
  /\ waited' = Waiting
  /\ UNCHANGED <<members, txQueue, gathered, unsent, got>>

\* Mutant: a frame that waits is never too old.
ExpiredNever(tx) == FALSE

\* Mutant: the times are subtracted the wrong way round.
ExpiredReversed(tx) == (bg.lag - tx.age) % Word >= Timeout

\* now - _timestamp is unsigned.
Expired(tx) == (tx.age - bg.lag) % Word >= Timeout

\* A group without members and frames is forgotten, its last gather too: the next
\* one begins with time 0, when the node was started.
Clean ==
  /\ bg.cleaning
  /\ bg' = [bg EXCEPT !.cleaning = FALSE]
  /\ waited' = {}
  /\ txQueue' = EraseAt(txQueue, {i \in DOMAIN txQueue : Expired(txQueue[i]) \/ AtLimit(txQueue[i])})
  /\ members' = [b \in {b \in Known : members[b] - bg.lag < LikeExpire} |-> members[b]]
  /\ IF DOMAIN members' = {} /\ txQueue' = << >> THEN gathered' \in gathered..GatherDelay
                                                  ELSE UNCHANGED gathered
  /\ UNCHANGED <<unsent, got>>

Older(age, max) == IF age < max THEN age + 1 ELSE age

Tick ==
  /\ bg.cleaning => bg.lag < MaxLag
  /\ members' = [b \in Known |-> Older(members[b], LikeExpire + MaxLag)]
  /\ txQueue' = [i \in DOMAIN txQueue |-> [txQueue[i] EXCEPT !.age = Older(@, Timeout + MaxLag)]]
  /\ gathered' = Older(gathered, GatherDelay)
  /\ bg' = [bg EXCEPT !.since = Older(@, Period + MaxLag), !.lag = IF bg.cleaning THEN @ + 1 ELSE @]
  /\ UNCHANGED <<unsent, got, waited>>
-----------------------------------------------------------------------------
Next ==
  \/ \E f \in Frames : SendDirect(f) \/ SendQueued(f)
  \/ \E a \in Addresses : Add(a) \/ Unsubscribe(a)
  \/ BeginClean \/ Clean \/ Tick

Spec == Init /\ [][Next]_vars

\* Time passes and the background task goes on.
FairSpec == Spec /\ WF_vars(BeginClean \/ Clean) /\ WF_vars(Tick)
-----------------------------------------------------------------------------
(* Correctness.                                                            *)

\* Through lists that change while a frame waits, and members that leave and come
\* back: nobody is sent a frame twice.
SentOnce == \A f \in Frames : \A a \in Addresses : got[f][a] <= 1

\* "Maximum number of recipients per multicast (not including active bridges)"
\* (NetworkConfig.hpp), over all the occasions on which a frame is sent.
LimitKept == \A f \in Frames : Cardinality({a \in Addresses \ Bridges : got[f][a] > 0}) <= Limit

\* A frame that waits has been sent to every member that is known, except for the
\* origin, or as often as it may.
NobodyMissed ==
  \A i \in DOMAIN txQueue : LET tx == txQueue[i] IN
    \/ AtLimit(tx)
    \/ \A a \in Known : got[tx.frame][a] > 0 \/ a = Origin[tx.frame]

\* What these three rest on: nobody has a frame that is still to be sent, and a
\* frame waits once, ...
UnsentOK == \A f \in unsent : \A a \in Addresses : got[f][a] = 0

WaitsOnce == \A i, j \in DOMAIN txQueue : txQueue[i].frame = txQueue[j].frame => i = j

\* ... whose log has those it was sent to, and the origin, and whose count is not
\* below their number.
Recipients(f) == {a \in Addresses : got[f][a] > 0}

LogOK ==
  \A i \in DOMAIN txQueue : LET tx == txQueue[i] IN
    /\ tx.frame \notin unsent
    /\ Recipients(tx.frame) \subseteq tx.sentTo
    /\ tx.sentTo \subseteq Recipients(tx.frame) \cup {Origin[tx.frame]}
    /\ Cardinality(Recipients(tx.frame)) <= tx.count

IInv ==
  TypeOK /\ UnsentOK /\ WaitsOnce /\ LogOK /\ SentOnce /\ LimitKept /\ NobodyMissed

\* A frame stops waiting only when it has waited for the timeout, when it went to as
\* many as may get it, or, the first of a full queue, for a new frame.  One that came
\* after the time of a clean up was read may also be erased by it at once: its time
\* is ahead of that, and its unsigned age enormous (README, disagreement 15).
StopsInTime ==
  [][\A f \in Frames : \A i \in DOMAIN txQueue :
       txQueue[i].frame = f /\ f \notin Waiting' =>
         \/ txQueue[i].age >= Timeout
         \/ txQueue[i].count + Cardinality(Recipients(f)' \ Recipients(f)) >= Limit
         \/ i = 1 /\ Len(txQueue) = QueueSize /\ unsent' # unsent
         \/ bg.cleaning /\ f \notin waited]_vars

\* What that rests on: what waited when the time of the clean up was read is not
\* younger than that time, and does not get into the queue again.
WaitedOK ==
  /\ waited \cap unsent = {}
  /\ \A i \in DOMAIN txQueue : txQueue[i].frame \in waited => txQueue[i].age >= bg.lag

\* No frame waits for ever.
Drained == \A f \in Frames : f \in Waiting ~> f \notin Waiting
=============================================================================
