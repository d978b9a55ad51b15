--------------------------- MODULE TxQueueProofs ---------------------------
(***************************************************************************)
(* Proofs about TxQueue and Fragments: where a packet is, for any number   *)
(* of packets, destinations, senders and places in the queue, and what a   *)
(* packet is cut into, for any size and MTU.                               *)
(***************************************************************************)
EXTENDS TxQueue, SetFacts

(* Where a packet is: in the queue, ...                                    *)

Waits(p) == Copies(p) # {}

\* ... in a sender's hand, on its way there, ...
Held(p) == \E t \in Senders : hand[t] = [pc |-> "push", what |-> p]

\* ... or dropped.
Evicted(p) == <<p, "evicted">> \in lost

TooOld(p) == <<p, "expired">> \in lost

\* A sender has queued it and is not done.
Asking(p) == \E t \in Senders : hand[t] = [pc |-> "ask", what |-> p]

\* One packet, in the terms above.
Placed(p) ==
  /\ \A i, j \in Copies(p) : i = j
  /\ sent[p] + Here(Waits(p)) + Here(Held(p)) + Here(Evicted(p)) + Here(TooOld(p)) <= 1
  /\ Asking(p) => sent[p] = 1 \/ Waits(p) \/ Evicted(p) \/ TooOld(p)

(* What a step may do to a packet, as Mailbox sees it.                     *)

Inside(p) == Waits(p) \/ Held(p)

Gone(p) == Evicted(p) \/ TooOld(p)

Untouched(p) == ~ Inside(p) /\ ~ Gone(p) /\ sent[p] = 0

\* Nothing; it is handed over; it is sent, at once or after it waited; or it is
\* dropped.  Only a packet that is handed over gets into a sender's hand.
Moved(p) ==
  /\ Held(p)' => Held(p) \/ Untouched(p)
  /\ \/ (Inside(p)' <=> Inside(p)) /\ sent'[p] = sent[p] /\ (Gone(p)' <=> Gone(p))
     \/ Untouched(p) /\ Inside(p)' /\ sent'[p] = sent[p] /\ ~ Gone(p)'
     \/ (Untouched(p) \/ Inside(p)) /\ ~ Inside(p)' /\ sent'[p] = sent[p] + 1 /\ (Gone(p)' <=> Gone(p))
     \/ Inside(p) /\ ~ Inside(p)' /\ sent'[p] = sent[p] /\ Gone(p)'

\* The part of the invariant that says where packets are.
Core == TypeOK /\ QueueOK /\ HandOK /\ OnePlace

\* OnePlace, packet by packet, before and after a step.
LEMMA OnePlaceIs ==
  /\ OnePlace <=> \A p \in Packets : Placed(p)
  /\ OnePlace' <=> \A p \in Packets : Placed(p)'
  BY Zenon DEF OnePlace, Placed, Waits, Held, Evicted, TooOld, Asking, Reasons

\* The constants are numbers, and the names of packets and addresses are apart.
LEMMA TxConstants ==
  /\ QueueSize \in Nat \ {0} /\ MaxAge \in Nat /\ MaxWait \in Nat /\ MaxLag \in Nat
  /\ MaxLag <= MaxAge /\ MaxLag <= MaxWait
  /\ None \notin Packets /\ None \notin Dests /\ Packets \cap Dests = {} /\ Upstream \notin Dests
  /\ \A p \in Packets : Dest[p] \in Dests
  BY TxAssumption DEF MaxAge, MaxWait

\* A push keeps what is in the queue in its place, but for the first entry of a
\* full one, and adds the new entry at the end.
LEMMA PushedFacts ==
  ASSUME NEW q \in Seq(Entry), Len(q) <= QueueSize, NEW e \in Entry
  PROVE  LET n == Pushed(q, e)
             d == IF Len(q) >= QueueSize THEN 1 ELSE 0
         IN /\ n \in Seq(Entry) /\ Len(n) = Len(q) - d + 1 /\ Len(n) <= QueueSize
            /\ n[Len(n)] = e /\ \A i \in 1..Len(n) - 1 : n[i] = q[i + d]
            /\ d = 1 => q # << >> /\ Head(q) = q[1] /\ 1 \in DOMAIN q
            /\ DOMAIN q = 1..Len(q) /\ Len(q) \in Nat /\ DOMAIN n = 1..Len(n)
  <1>1. Len(q) \in Nat /\ DOMAIN q = 1..Len(q) /\ QueueSize \in Nat \ {0}
    BY TxConstants
  <1>2. CASE Len(q) >= QueueSize
    <2>1. q # << >> /\ Pushed(q, e) = Append(Tail(q), e)
      BY <1>1, <1>2 DEF Pushed
    <2>2. Tail(q) \in Seq(Entry) /\ Len(Tail(q)) = Len(q) - 1 /\ \A i \in 1..Len(q) - 1 : Tail(q)[i] = q[i + 1]
      BY <2>1
    <2> QED BY <1>1, <1>2, <2>1, <2>2
  <1>3. CASE ~ (Len(q) >= QueueSize)
    <2>1. Pushed(q, e) = Append(q, e)
      BY <1>3 DEF Pushed
    <2> QED BY <1>1, <1>3, <2>1
  <1> QED BY <1>2, <1>3

\* What a push does to a packet: it waits if it is the new entry, or still waits if
\* it is not the one that is thrown away.
LEMMA PushStep ==
  ASSUME TypeOK, QueueOK, \A p \in Packets : Placed(p), NEW e \in Entry,
         e.what \in Packets => ~ Waits(e.what) /\ e.dest = Dest[e.what],
         queue' = Pushed(queue, e), lost' = lost \cup EvictedBy(queue)
  PROVE  /\ queue' \in Seq(Entry) /\ Len(queue') <= QueueSize /\ lost' \in SUBSET (Packets \X Reasons)
         /\ QueueOK'
         /\ \A i \in DOMAIN queue' : queue'[i] = e \/ \E j \in DOMAIN queue : queue'[i] = queue[j]
         /\ \A p \in Packets :
              /\ \A i, j \in Copies(p)' : i = j
              /\ TooOld(p)' <=> TooOld(p)
              /\ \E out \in BOOLEAN :
                   /\ out => Waits(p)
                   /\ Evicted(p)' <=> Evicted(p) \/ out
                   /\ Waits(p)' <=> e.what = p \/ (Waits(p) /\ ~ out)
  <1> DEFINE d == IF Len(queue) >= QueueSize THEN 1 ELSE 0
             L == Len(queue)
  <1>0. queue \in Seq(Entry) /\ L <= QueueSize /\ lost \in SUBSET (Packets \X Reasons)
    BY DEF TypeOK
  <1>1. /\ queue' \in Seq(Entry) /\ Len(queue') = L - d + 1 /\ Len(queue') <= QueueSize
        /\ queue'[Len(queue')] = e /\ \A i \in 1..Len(queue') - 1 : queue'[i] = queue[i + d]
        /\ d = 1 => queue # << >> /\ Head(queue) = queue[1] /\ 1 \in DOMAIN queue
        /\ DOMAIN queue = 1..L /\ L \in Nat /\ DOMAIN queue' = 1..Len(queue')
    BY <1>0, PushedFacts
  <1>2. d \in {0, 1} /\ (d = 1 <=> L >= QueueSize)
    OBVIOUS
  <1>3. EvictedBy(queue) = IF d = 1 /\ queue[1].what \in Packets THEN {<<queue[1].what, "evicted">>} ELSE {}
    BY <1>1, <1>2 DEF EvictedBy
  <1> HIDE DEF d, L
  <1>4. lost' \in SUBSET (Packets \X Reasons)
    BY <1>0, <1>3 DEF Reasons
  <1>a. ASSUME NEW i \in DOMAIN queue'
        PROVE  queue'[i] = e \/ \E j \in DOMAIN queue : queue'[i] = queue[j]
    <2>1. CASE i = Len(queue')
      BY <1>1, <2>1
    <2>2. CASE i # Len(queue')
      <3>1. i \in 1..Len(queue') - 1 /\ i + d \in 1..L
        BY <1>1, <1>2, <2>2
      <3> QED BY <1>1, <3>1
    <2> QED BY <2>1, <2>2
  <1>5. QueueOK'
    BY <1>a DEF QueueOK
  <1>6. ASSUME NEW p \in Packets
        PROVE  /\ \A i, j \in Copies(p)' : i = j
               /\ TooOld(p)' <=> TooOld(p)
               /\ \E out \in BOOLEAN :
                    /\ out => Waits(p)
                    /\ Evicted(p)' <=> Evicted(p) \/ out
                    /\ Waits(p)' <=> e.what = p \/ (Waits(p) /\ ~ out)
    <2> DEFINE out == d = 1 /\ queue[1].what = p
    <2>1. \A i, j \in 1..L : queue[i].what = p /\ queue[j].what = p => i = j
      BY <1>1 DEF Placed, Copies
    <2>2. e.what = p => \A i \in 1..L : queue[i].what # p
      BY <1>1 DEF Waits, Copies
    <2>3. ASSUME NEW i \in DOMAIN queue', queue'[i].what = p
          PROVE  \/ i = Len(queue') /\ e.what = p
                 \/ i \in 1..Len(queue') - 1 /\ i + d \in 1..L /\ queue[i + d].what = p
      <3>1. CASE i = Len(queue')
        BY <1>1, <2>3, <3>1
      <3>2. CASE i # Len(queue')
        <4>1. i \in 1..Len(queue') - 1 /\ i + d \in 1..L
          BY <1>1, <1>2, <3>2
        <4> QED BY <1>1, <2>3, <4>1
      <3> QED BY <3>1, <3>2
    <2>4. \A i, j \in Copies(p)' : i = j
      <3> SUFFICES ASSUME NEW i \in DOMAIN queue', NEW j \in DOMAIN queue',
                          queue'[i].what = p, queue'[j].what = p
                   PROVE  i = j
        BY DEF Copies
      <3>1. i \in Int /\ j \in Int /\ d \in Int
        BY <1>1, <1>2
      <3>2. CASE i = Len(queue') /\ e.what = p
        BY <2>2, <2>3, <3>2
      <3>3. CASE i + d \in 1..L /\ queue[i + d].what = p
        <4>1. j + d \in 1..L /\ queue[j + d].what = p
          BY <2>2, <2>3, <3>3
        <4>2. i + d = j + d
          BY <2>1, <3>3, <4>1
        <4>3. \A x, y \in Int : x + d = y + d => x = y
          BY <3>1
        <4> QED BY <3>1, <4>2, <4>3
      <3> QED BY <2>3, <3>2, <3>3
    <2>5. TooOld(p)' <=> TooOld(p)
      BY <1>3 DEF TooOld
    <2>6. out => Waits(p)
      BY <1>1 DEF Waits, Copies
    <2>7. Evicted(p)' <=> Evicted(p) \/ out
      BY <1>3 DEF Evicted
    <2>8. Waits(p)' => e.what = p \/ (Waits(p) /\ ~ out)
      <3> SUFFICES ASSUME NEW i \in DOMAIN queue', queue'[i].what = p, e.what # p
                   PROVE  Waits(p) /\ ~ out
        BY DEF Waits, Copies
      <3>1. i \in Nat /\ i > 0 /\ i + d \in 1..L /\ queue[i + d].what = p
        BY <1>1, <2>3
      <3>2. Waits(p)
        BY <1>1, <3>1 DEF Waits, Copies
      <3>3. ~ out
        <4> SUFFICES ASSUME d = 1, queue[1].what = p PROVE FALSE
          OBVIOUS
        <4>1. 1 \in 1..L
          BY <1>1
        <4>2. i + d = 1
          BY <2>1, <3>1, <4>1
        <4> QED BY <3>1, <4>2
      <3> QED BY <3>2, <3>3
    <2>9. e.what = p => Waits(p)'
      BY <1>1, <1>2 DEF Waits, Copies
    <2>10. Waits(p) /\ ~ out => Waits(p)'
      <3> SUFFICES ASSUME NEW i \in 1..L, queue[i].what = p, ~ out
                   PROVE  Waits(p)'
        BY <1>1 DEF Waits, Copies
      <3>1. i - d \in 1..Len(queue') - 1 /\ i - d + d = i
        BY <1>1, <1>2
      <3>2. i - d \in DOMAIN queue' /\ queue'[i - d].what = p
        BY <1>1, <3>1
      <3> QED BY <3>2 DEF Waits, Copies
    <2>11. out \in BOOLEAN
      OBVIOUS
    <2> HIDE DEF out
    <2> QED BY <2>4, <2>5, <2>6, <2>7, <2>8, <2>9, <2>10, <2>11
  <1> QED BY <1>1, <1>4, <1>5, <1>6, <1>a

\* Entries that are sent and entries that are given up leave the queue, each packet
\* among them once; the others stay.
LEMMA EraseStep ==
  ASSUME TypeOK, QueueOK, \A p \in Packets : Placed(p), NEW out, NEW drop,
         out \subseteq DOMAIN queue, drop \subseteq DOMAIN queue, out \cap drop = {},
         SendEntries(out, drop)
  PROVE  /\ queue' \in Seq(Entry) /\ Len(queue') <= QueueSize /\ lost' \in SUBSET (Packets \X Reasons)
         /\ sent' \in [Packets -> 0..2]
         /\ QueueOK'
         /\ \A i \in DOMAIN queue' : \E j \in DOMAIN queue : queue'[i] = queue[j]
         /\ \A p \in Packets :
              /\ \A i, j \in Copies(p)' : i = j
              /\ Evicted(p)' <=> Evicted(p)
              /\ \E o \in BOOLEAN, g \in BOOLEAN :
                   /\ o \/ g => Waits(p)
                   /\ ~ (o /\ g)
                   /\ TooOld(p)' <=> TooOld(p) \/ g
                   /\ sent'[p] = sent[p] + Here(o)
                   /\ Waits(p)' <=> Waits(p) /\ ~ o /\ ~ g
  <1> DEFINE I == out \cup drop
  <1>0. queue \in Seq(Entry) /\ Len(queue) <= QueueSize /\ lost \in SUBSET (Packets \X Reasons)
        /\ sent \in [Packets -> 0..2] /\ DOMAIN queue = 1..Len(queue) /\ QueueSize \in Nat
        /\ Len(queue) \in Nat
    BY TxConstants DEF TypeOK
  <1>1. queue' = EraseAt(queue, I)
    BY DEF SendEntries
  <1>2. /\ queue' \in Seq(Entry) /\ Len(queue') <= Len(queue) /\ DOMAIN queue' = 1..Len(queue')
        /\ \E f \in [DOMAIN queue' -> DOMAIN queue \ I] :
              /\ \A j \in DOMAIN queue' : queue'[j] = queue[f[j]]
              /\ \A j, k \in DOMAIN queue' : f[j] = f[k] => j = k
              /\ \A i \in DOMAIN queue \ I : \E j \in DOMAIN queue' : f[j] = i
    <2> HIDE DEF I
    <2> QED BY <1>0, <1>1, EraseAtFacts
  <1>3. PICK f \in [DOMAIN queue' -> DOMAIN queue \ I] :
              /\ \A j \in DOMAIN queue' : queue'[j] = queue[f[j]]
              /\ \A j, k \in DOMAIN queue' : f[j] = f[k] => j = k
              /\ \A i \in DOMAIN queue \ I : \E j \in DOMAIN queue' : f[j] = i
    BY <1>2
  <1>4. /\ sent' = [p \in Packets |-> sent[p] + Cardinality(Copies(p) \cap out)]
        /\ lost' = lost \cup {<<p, "expired">> : p \in {q \in Packets : Copies(q) \cap drop # {}}}
    BY DEF SendEntries
  <1>5. QueueOK'
    BY <1>3 DEF QueueOK
  <1>6. lost' \in SUBSET (Packets \X Reasons)
    BY <1>0, <1>4 DEF Reasons
  <1>7. Len(queue') \in Nat /\ Len(queue') <= QueueSize
    BY <1>0, <1>2
  <1>8. ASSUME NEW p \in Packets
        PROVE  /\ \A i, j \in Copies(p)' : i = j
               /\ Evicted(p)' <=> Evicted(p)
               /\ \E o \in BOOLEAN, g \in BOOLEAN :
                    /\ o \/ g => Waits(p)
                    /\ ~ (o /\ g)
                     /\ TooOld(p)' <=> TooOld(p) \/ g
                    /\ sent'[p] = sent[p] + Here(o)
                    /\ Waits(p)' <=> Waits(p) /\ ~ o /\ ~ g
    <2> DEFINE o == Copies(p) \cap out # {}
               g == Copies(p) \cap drop # {}
    <2>1. \A i, j \in DOMAIN queue : queue[i].what = p /\ queue[j].what = p => i = j
      BY DEF Placed, Copies
    <2>3. \A i, j \in Copies(p)' : i = j
      BY <1>3, <2>1 DEF Copies
    <2>4. Evicted(p)' <=> Evicted(p)
      BY <1>4 DEF Evicted
    <2>5. TooOld(p)' <=> TooOld(p) \/ g
      BY <1>4 DEF TooOld
    <2>6. sent'[p] = sent[p] + Here(o)
      <3> DEFINE C == Copies(p) \cap out
      <3>1. sent'[p] = sent[p] + Cardinality(C)
        BY <1>4
      <3>2. CASE o
        <4>1. PICK i \in C : TRUE
          BY <3>2
        <4>2. C = {i}
          BY <2>1, <4>1 DEF Copies
        <4>3. Cardinality(C) = 1
          BY <4>2, FS_Singleton
        <4> QED BY <3>1, <3>2, <4>3 DEF Here
      <3>3. CASE ~ o
        <4>1. Cardinality(C) = 0
          BY <3>3, FS_EmptySet
        <4> QED BY <3>1, <3>3, <4>1 DEF Here
      <3> QED BY <3>2, <3>3
    <2>7. o \/ g => Waits(p)
      BY DEF Waits
    <2>8. ~ (o /\ g)
      BY <2>1 DEF Copies
    <2>9. Waits(p)' => Waits(p) /\ ~ o /\ ~ g
      <3> SUFFICES ASSUME NEW j \in DOMAIN queue', queue'[j].what = p
                   PROVE  Waits(p) /\ ~ o /\ ~ g
        BY DEF Waits, Copies
      <3>1. f[j] \in DOMAIN queue \ I /\ queue[f[j]].what = p
        BY <1>3
      <3>2. \A i \in Copies(p) : i = f[j]
        BY <2>1, <3>1 DEF Copies
      <3> QED BY <3>1, <3>2 DEF Waits, Copies
    <2>10. Waits(p) /\ ~ o /\ ~ g => Waits(p)'
      <3> SUFFICES ASSUME NEW i \in DOMAIN queue, queue[i].what = p, ~ o, ~ g
                   PROVE  Waits(p)'
        BY DEF Waits, Copies
      <3>1. i \notin I
        BY DEF Copies
      <3>2. PICK j \in DOMAIN queue' : f[j] = i
        BY <1>3, <3>1
      <3>3. queue'[j].what = p
        BY <1>3, <3>2
      <3> QED BY <3>3 DEF Waits, Copies
    <2>11. o \in BOOLEAN /\ g \in BOOLEAN
      OBVIOUS
    <2> HIDE DEF o, g
    <2> QED BY <2>3, <2>4, <2>5, <2>6, <2>7, <2>8, <2>9, <2>10, <2>11
  <1>9. sent' \in [Packets -> 0..2]
    <2>1. ASSUME NEW p \in Packets PROVE sent'[p] \in 0..2
      <3>1. sent[p] \in 0..1
        BY <1>0 DEF Placed, Here
      <3> QED BY <1>8, <3>1 DEF Here
    <2>2. sent' = [p \in Packets |-> sent'[p]]
      BY <1>4
    <2> QED BY <2>1, <2>2
  <1> QED BY <1>2, <1>3, <1>5, <1>6, <1>7, <1>8, <1>9

\* What a packet's place depends on is what is said of it above.
LEMMA PlacedStep ==
  ASSUME NEW p \in Packets, Placed(p), sent[p] \in 0..2,
         \A i, j \in Copies(p)' : i = j,
         Held(p)' <=> Held(p), Asking(p)' => Asking(p),
         \/ /\ Evicted(p)' <=> Evicted(p)
            /\ \E o \in BOOLEAN, g \in BOOLEAN :
                 /\ o \/ g => Waits(p)
                 /\ ~ (o /\ g)
                 /\ TooOld(p)' <=> TooOld(p) \/ g
                 /\ sent'[p] = sent[p] + Here(o)
                 /\ Waits(p)' <=> Waits(p) /\ ~ o /\ ~ g
         \/ /\ sent'[p] = sent[p]
            /\ TooOld(p)' <=> TooOld(p)
            /\ \E out \in BOOLEAN :
                 /\ out => Waits(p)
                 /\ Evicted(p)' <=> Evicted(p) \/ out
                 /\ Waits(p)' <=> Waits(p) /\ ~ out
  PROVE  Placed(p)' /\ Moved(p)
  BY DEF Placed, Here, Moved, Inside, Gone

\* A step that leaves a packet's place alone.
LEMMA SamePlace ==
  ASSUME NEW p \in Packets, Placed(p), UNCHANGED <<sent, lost>>,
         Copies(p)' = Copies(p), Held(p)' <=> Held(p), Asking(p)' => Asking(p)
  PROVE  Placed(p)' /\ Moved(p)
  <1>1. (Waits(p)' <=> Waits(p)) /\ (Evicted(p)' <=> Evicted(p)) /\ (TooOld(p)' <=> TooOld(p))
    BY DEF Waits, Evicted, TooOld
  <1> QED BY <1>1 DEF Placed, Here, Moved, Inside, Gone

\* What waits for a packet after a step has waited before, or has just been pushed.
Kept ==
  \A i \in DOMAIN queue' :
    \/ \E j \in DOMAIN queue : queue'[i] = queue[j]
    \/ queue'[i].what \notin Packets
    \/ Held(queue'[i].what)

\* A WHOIS that is queued may throw a packet out, and does nothing else to packets.
LEMMA WhoisStep ==
  ASSUME Core, NEW a \in Dests, NEW lag \in 0..MaxLag, RequestWhois(a, lag)
  PROVE  /\ queue' \in Seq(Entry) /\ Len(queue') <= QueueSize /\ lost' \in SUBSET (Packets \X Reasons)
         /\ whois' \in [Dests -> 0..MaxWait] /\ asked' \subseteq Dests
         /\ QueueOK'
         /\ queue' = queue \/ ~ Locked
         /\ Kept
         /\ \A p \in Packets :
              /\ \A i, j \in Copies(p)' : i = j
              /\ TooOld(p)' <=> TooOld(p)
              /\ \E out \in BOOLEAN :
                   /\ out => Waits(p)
                   /\ Evicted(p)' <=> Evicted(p) \/ out
                   /\ Waits(p)' <=> Waits(p) /\ ~ out
  <1> DEFINE e == [what |-> a, dest |-> Upstream, age |-> nodeLag]
  <1>0. TypeOK /\ QueueOK /\ \A p \in Packets : Placed(p)
    BY OnePlaceIs DEF Core
  <1>1. whois' \in [Dests -> 0..MaxWait] /\ asked' \subseteq Dests
    <2>1. lag \in 0..MaxWait
      BY TxConstants
    <2>2. whois' = whois \/ whois' = [whois EXCEPT ![a] = lag]
      BY DEF RequestWhois
    <2>3. asked' = asked \/ asked' = asked \cup {a}
      BY DEF RequestWhois
    <2>4. whois \in [Dests -> 0..MaxWait] /\ asked \subseteq Dests
      BY <1>0 DEF TypeOK
    <2>5. whois' \in [Dests -> 0..MaxWait]
      BY <2>1, <2>2, <2>4
    <2> QED BY <2>3, <2>4, <2>5
  <1>2. CASE UNCHANGED <<queue, lost>>
    <2>1. ASSUME NEW p \in Packets
          PROVE  /\ Copies(p)' = Copies(p) /\ (Waits(p)' <=> Waits(p))
                 /\ (TooOld(p)' <=> TooOld(p)) /\ (Evicted(p)' <=> Evicted(p))
                 /\ \A i, j \in Copies(p) : i = j
      BY <1>0, <1>2 DEF Copies, Waits, TooOld, Evicted, Placed
    <2>2. QueueOK' /\ Kept
      BY <1>0, <1>2 DEF QueueOK, Kept
    <2> QED BY <1>0, <1>1, <1>2, <2>1, <2>2 DEF TypeOK
  <1>3. CASE ~ Locked /\ queue' = Pushed(queue, e) /\ lost' = lost \cup EvictedBy(queue)
    <2>1. e \in Entry /\ e.what \notin Packets
      BY <1>0, TxConstants DEF TypeOK, Entry, Addresses
    <2> HIDE DEF e
    <2>2. \A p \in Packets : e.what # p
      BY <2>1
    <2>3. \A i \in DOMAIN queue' : queue'[i] = e \/ \E j \in DOMAIN queue : queue'[i] = queue[j]
      BY <1>0, <1>3, <2>1, PushStep
    <2>4. Kept
      BY <2>1, <2>3 DEF Kept
    <2> QED BY <1>0, <1>1, <1>3, <2>1, <2>2, <2>4, PushStep
  <1> QED BY <1>2, <1>3 DEF RequestWhois

\* At first no packet is anywhere.
LEMMA InitCore == Init => Core
  <1> SUFFICES ASSUME Init PROVE Core
    OBVIOUS
  <1>1. TypeOK
    <2>1. 0 \in 0..MaxLag /\ MaxWait \in 0..MaxWait /\ 0 \in 0..2
      BY TxConstants
    <2>2. queue \in Seq(Entry) /\ Len(queue) <= QueueSize
      BY TxConstants DEF Init
    <2> QED BY <2>1, <2>2, TxConstants DEF Init, TypeOK, Steps
  <1>2. QueueOK
    BY DEF Init, QueueOK
  <1>3. HandOK
    BY DEF Init, HandOK
  <1>4. \A p \in Packets : Placed(p)
    <2> TAKE p \in Packets
    <2>1. Copies(p) = {} /\ ~ Held(p) /\ ~ Asking(p) /\ ~ Evicted(p) /\ ~ TooOld(p) /\ sent[p] = 0
      BY DEF Init, Copies, Held, Asking, Evicted, TooOld
    <2> QED BY <2>1 DEF Placed, Waits, Here
  <1> QED BY <1>1, <1>2, <1>3, <1>4, OnePlaceIs DEF Core

\* A packet goes out at once, or into the sender's hand.
LEMMA StepSend ==
  ASSUME Core, NEW t \in Senders, NEW p \in Packets, Send(t, p)
  PROVE  Core' /\ Kept /\ \A q \in Packets : Moved(q)
  <1>0. TypeOK /\ QueueOK /\ HandOK /\ \A q \in Packets : Placed(q)
    BY OnePlaceIs DEF Core
  <1>1. /\ hand[t].pc = "idle" /\ sent[p] = 0 /\ ~ Evicted(p) /\ ~ TooOld(p)
        /\ \A s \in Senders : hand[s].what # p
        /\ ~ Waits(p)
        /\ UNCHANGED <<queue, peer, whois, asked, nodeLag, flush, bg, checked, lost, seen>>
    BY DEF Send, Evicted, TooOld, Reasons, Waits, Copies
  <1>2. \/ sent' = [sent EXCEPT ![p] = @ + 1] /\ UNCHANGED hand
        \/ hand' = [hand EXCEPT ![t] = [pc |-> "push", what |-> p]] /\ UNCHANGED sent
    BY DEF Send
  <1>3. TypeOK'
    <2>1. sent' \in [Packets -> 0..2]
      <3>1. sent \in [Packets -> 0..2] /\ sent[p] + 1 \in 0..2
        BY <1>0, <1>1 DEF TypeOK
      <3> QED BY <1>2, <3>1
    <2>2. hand' \in [Senders -> [pc: {"idle", "push", "ask"}, what: Packets \cup {None}]]
      <3>1. [pc |-> "push", what |-> p] \in [pc: {"idle", "push", "ask"}, what: Packets \cup {None}]
        OBVIOUS
      <3>2. hand \in [Senders -> [pc: {"idle", "push", "ask"}, what: Packets \cup {None}]]
        BY <1>0 DEF TypeOK
      <3> QED BY <1>2, <3>1, <3>2
    <2> QED BY <1>0, <1>1, <2>1, <2>2 DEF TypeOK
  <1>4. QueueOK' /\ Kept
    BY <1>0, <1>1 DEF QueueOK, Kept
  <1>5. HandOK'
    <2>1. CASE UNCHANGED hand
      BY <1>0, <2>1 DEF HandOK
    <2>2. CASE hand' = [hand EXCEPT ![t] = [pc |-> "push", what |-> p]]
      <3>1. hand'[t].pc = "push" /\ hand'[t].what = p /\ \A s \in Senders : s # t => hand'[s] = hand[s]
        BY <1>0, <2>2 DEF TypeOK
      <3>2. p # None
        BY TxConstants
      <3> QED BY <1>0, <1>1, <3>1, <3>2 DEF HandOK
    <2> QED BY <1>2, <2>1, <2>2
  <1>6. ASSUME NEW q \in Packets PROVE Placed(q)' /\ Moved(q)
    <2>1. /\ Copies(q)' = Copies(q) /\ (Waits(q)' <=> Waits(q))
          /\ (TooOld(q)' <=> TooOld(q)) /\ (Evicted(q)' <=> Evicted(q))
          /\ \A i, j \in Copies(q) : i = j
      BY <1>0, <1>1 DEF Copies, Waits, TooOld, Evicted, Placed
    <2>2. Asking(q)' => Asking(q)
      BY <1>0, <1>1, <1>2 DEF Asking, TypeOK
    <2>3. ~ Held(p) /\ ~ Asking(p)
      BY <1>1 DEF Held, Asking
    <2>4. sent[q] \in 0..2
      BY <1>0 DEF TypeOK
    <2>5. CASE sent' = [sent EXCEPT ![p] = @ + 1] /\ UNCHANGED hand
      <3>1. sent'[q] = IF q = p THEN 1 ELSE sent[q]
        BY <1>0, <1>1, <2>5 DEF TypeOK
      <3>2. Held(q)' <=> Held(q)
        BY <2>5 DEF Held
      <3> QED BY <1>0, <1>1, <2>1, <2>2, <2>3, <2>4, <3>1, <3>2 DEF Placed, Here, Moved, Inside, Gone, Untouched
    <2>6. CASE hand' = [hand EXCEPT ![t] = [pc |-> "push", what |-> p]] /\ UNCHANGED sent
      <3>1. q # p => (Held(q)' <=> Held(q))
        BY <1>0, <1>1, <2>6 DEF Held, TypeOK
      <3> QED BY <1>0, <1>1, <2>1, <2>2, <2>3, <2>4, <2>6, <3>1 DEF Placed, Here, Moved, Inside, Gone, Untouched
    <2> QED BY <1>2, <2>5, <2>6
  <1> QED BY <1>3, <1>4, <1>5, <1>6, OnePlaceIs DEF Core

\* The sender's packet gets into the queue, and may throw another one out.
LEMMA StepSendPush ==
  ASSUME Core, NEW t \in Senders, SendPush(t)
  PROVE  Core' /\ Kept /\ \A q \in Packets : Moved(q)
  <1>0. TypeOK /\ QueueOK /\ HandOK /\ \A q \in Packets : Placed(q)
    BY OnePlaceIs DEF Core
  <1>a. PICK p \in Packets : hand[t].what = p
    BY <1>0, Zenon DEF SendPush, HandOK, TypeOK
  <1>b. PICK e : e = [what |-> p, dest |-> Dest[p], age |-> nodeLag]
    OBVIOUS
  <1>1. /\ hand[t].pc = "push" /\ queue' = Pushed(queue, e) /\ lost' = lost \cup EvictedBy(queue)
        /\ hand' = [hand EXCEPT ![t].pc = "ask"]
        /\ UNCHANGED <<peer, whois, asked, nodeLag, flush, bg, checked, sent, seen>>
    BY <1>a, <1>b DEF SendPush
  <1>2. hand[t] = [pc |-> "push", what |-> p] /\ hand'[t] = [pc |-> "ask", what |-> p]
    BY <1>0, <1>1, <1>a DEF TypeOK, HandOK
  <1>3. e \in Entry /\ e.what = p /\ e.dest = Dest[p]
    BY <1>0, <1>b, TxConstants DEF TypeOK, Entry, Addresses
  <1>4. \A s \in Senders : s # t => hand'[s] = hand[s] /\ hand[s].what # p
    BY <1>0, <1>1, <1>2, TxConstants DEF HandOK, TypeOK
  <1>5. hand' \in [Senders -> [pc: {"idle", "push", "ask"}, what: Packets \cup {None}]]
    BY <1>0, <1>1 DEF TypeOK
  <1>6. Held(p) /\ ~ Held(p)' /\ ~ Asking(p)
    <2>1. Held(p)
      BY <1>2 DEF Held
    <2>2. ~ Held(p)'
      <3> SUFFICES ASSUME NEW s \in Senders, hand'[s] = [pc |-> "push", what |-> p]
                   PROVE  FALSE
        BY DEF Held
      <3>1. hand'[s].pc = "push" /\ hand'[s].what = p
        OBVIOUS
      <3>2. hand'[t].pc = "ask"
        BY <1>2
      <3> QED BY <1>4, <3>1, <3>2
    <2>3. ~ Asking(p)
      <3> SUFFICES ASSUME NEW s \in Senders, hand[s] = [pc |-> "ask", what |-> p]
                   PROVE  FALSE
        BY DEF Asking
      <3>1. hand[s].pc = "ask" /\ hand[s].what = p
        OBVIOUS
      <3> QED BY <1>1, <1>4, <3>1
    <2> QED BY <2>1, <2>2, <2>3
  <1>7. ~ Waits(p) /\ ~ Evicted(p) /\ ~ TooOld(p) /\ sent[p] = 0
    BY <1>0, <1>2, <1>6 DEF Placed, Here, TypeOK
  <1>8. /\ queue' \in Seq(Entry) /\ Len(queue') <= QueueSize /\ lost' \in SUBSET (Packets \X Reasons)
        /\ QueueOK'
        /\ \A i \in DOMAIN queue' : queue'[i] = e \/ \E j \in DOMAIN queue : queue'[i] = queue[j]
        /\ \A q \in Packets :
              /\ \A i, j \in Copies(q)' : i = j
              /\ TooOld(q)' <=> TooOld(q)
              /\ \E out \in BOOLEAN :
                   /\ out => Waits(q)
                   /\ Evicted(q)' <=> Evicted(q) \/ out
                   /\ Waits(q)' <=> p = q \/ (Waits(q) /\ ~ out)
    BY <1>0, <1>1, <1>3, <1>7, PushStep
  <1>9. TypeOK'
    BY <1>0, <1>1, <1>5, <1>8 DEF TypeOK
  <1>10. HandOK'
    BY <1>0, <1>2, <1>4, <1>5, TxConstants DEF HandOK
  <1>11. ASSUME NEW q \in Packets PROVE Placed(q)' /\ Moved(q)
    <2>1. sent[q] \in 0..2 /\ sent'[q] = sent[q] /\ Placed(q)
      BY <1>0, <1>1 DEF TypeOK
    <2>2. CASE q = p
      <3>1. /\ \A i, j \in Copies(p)' : i = j
            /\ ~ TooOld(p)' /\ ~ Evicted(p)' /\ Waits(p)' /\ sent'[p] = 0
        BY <1>7, <1>8, <2>1, <2>2
      <3> QED BY <1>6, <1>7, <2>1, <2>2, <3>1 DEF Placed, Here, Moved, Inside, Gone
    <2>3. CASE q # p
      <3>1. (Held(q)' <=> Held(q))
        BY <1>2, <1>4, <2>3 DEF Held
      <3>2. Asking(q)' => Asking(q)
        BY <1>2, <1>4, <2>3 DEF Asking
      <3> QED BY <1>8, <2>1, <2>3, <3>1, <3>2, PlacedStep
    <2> QED BY <2>2, <2>3
  <1>12. Kept
    BY <1>3, <1>6, <1>8 DEF Kept
  <1> QED BY <1>8, <1>9, <1>10, <1>11, <1>12, OnePlaceIs DEF Core

\* The sender lets go of its packet, which is in the queue or was there.
LEMMA StepSendAsk ==
  ASSUME Core, NEW t \in Senders, SendAsk(t)
  PROVE  Core' /\ Kept /\ \A q \in Packets : Moved(q)
  <1>0. TypeOK /\ QueueOK /\ HandOK /\ \A q \in Packets : Placed(q)
    BY OnePlaceIs DEF Core
  <1>1. PICK p \in Packets : hand[t].what = p
    BY <1>0, Zenon DEF SendAsk, HandOK, TypeOK
  <1>2. /\ hand[t].pc = "ask"
        /\ RequestWhois(Dest[p], nodeLag) \/ UNCHANGED <<whois, asked, queue, lost>>
        /\ hand' = [hand EXCEPT ![t] = [pc |-> "idle", what |-> None]]
        /\ UNCHANGED <<peer, nodeLag, flush, bg, checked, sent, seen>>
    BY <1>1 DEF SendAsk
  <1>3. /\ queue' \in Seq(Entry) /\ Len(queue') <= QueueSize /\ lost' \in SUBSET (Packets \X Reasons)
        /\ whois' \in [Dests -> 0..MaxWait] /\ asked' \subseteq Dests
        /\ QueueOK' /\ Kept
        /\ \A q \in Packets :
              /\ \A i, j \in Copies(q)' : i = j
              /\ TooOld(q)' <=> TooOld(q)
              /\ \E out \in BOOLEAN :
                   /\ out => Waits(q)
                   /\ Evicted(q)' <=> Evicted(q) \/ out
                   /\ Waits(q)' <=> Waits(q) /\ ~ out
    <2>1. CASE RequestWhois(Dest[p], nodeLag)
      <3>1. Dest[p] \in Dests /\ nodeLag \in 0..MaxLag
        BY <1>0, TxConstants DEF TypeOK
      <3> QED BY <2>1, <3>1, WhoisStep
    <2>2. CASE UNCHANGED <<whois, asked, queue, lost>>
      <3>1. ASSUME NEW q \in Packets
            PROVE  /\ Copies(q)' = Copies(q) /\ (Waits(q)' <=> Waits(q))
                   /\ (TooOld(q)' <=> TooOld(q)) /\ (Evicted(q)' <=> Evicted(q))
                   /\ \A i, j \in Copies(q) : i = j
        BY <1>0, <2>2 DEF Copies, Waits, TooOld, Evicted, Placed
      <3>2. QueueOK' /\ Kept
        BY <1>0, <2>2 DEF QueueOK, Kept
      <3> QED BY <1>0, <2>2, <3>1, <3>2 DEF TypeOK
    <2> QED BY <1>2, <2>1, <2>2
  <1>4. /\ hand' \in [Senders -> [pc: {"idle", "push", "ask"}, what: Packets \cup {None}]]
        /\ hand'[t].pc = "idle" /\ hand'[t].what = None /\ \A s \in Senders : s # t => hand'[s] = hand[s]
    <2>1. [pc |-> "idle", what |-> None] \in [pc: {"idle", "push", "ask"}, what: Packets \cup {None}]
      OBVIOUS
    <2>2. hand \in [Senders -> [pc: {"idle", "push", "ask"}, what: Packets \cup {None}]]
      BY <1>0 DEF TypeOK
    <2> QED BY <1>2, <2>1, <2>2
  <1>5. TypeOK'
    BY <1>0, <1>2, <1>3, <1>4 DEF TypeOK
  <1>6. HandOK'
    BY <1>0, <1>4 DEF HandOK
  <1>7. ASSUME NEW q \in Packets PROVE Placed(q)' /\ Moved(q)
    <2>1. sent[q] \in 0..2 /\ sent'[q] = sent[q] /\ Placed(q)
      BY <1>0, <1>2 DEF TypeOK
    <2>2. ASSUME NEW s \in Senders, NEW c \in {"push", "ask"}, hand'[s] = [pc |-> c, what |-> q]
          PROVE  hand[s] = [pc |-> c, what |-> q]
      <3>1. hand'[s].pc # "idle"
        BY <2>2
      <3> QED BY <1>4, <2>2, <3>1
    <2>3. Asking(q)' => Asking(q)
      BY <2>2 DEF Asking
    <2>4. Held(q)' => Held(q)
      BY <2>2 DEF Held
    <2>5. Held(q) => Held(q)'
      <3> SUFFICES ASSUME NEW s \in Senders, hand[s] = [pc |-> "push", what |-> q]
                   PROVE  Held(q)'
        BY DEF Held
      <3>1. hand[s].pc = "push"
        OBVIOUS
      <3>2. hand'[s] = hand[s]
        BY <1>2, <1>4, <3>1
      <3> QED BY <3>2 DEF Held
    <2> QED BY <1>3, <2>1, <2>3, <2>4, <2>5, PlacedStep
  <1> QED BY <1>3, <1>5, <1>6, <1>7, OnePlaceIs DEF Core

\* A step that leaves the queue, the senders and the history alone.
LEMMA StepQuiet ==
  ASSUME Core, UNCHANGED <<queue, hand, sent, lost>>, TypeOK'
  PROVE  Core' /\ Kept /\ \A q \in Packets : Moved(q)
  <1>1. QueueOK' /\ HandOK'
    BY Zenon DEF Core, QueueOK, HandOK
  <1>a. Kept
    BY DEF Kept
  <1>2. OnePlace' /\ \A p \in Packets : Moved(p)
    <2>1. ASSUME NEW p \in Packets PROVE Placed(p)' /\ Moved(p)
      <3>1. Placed(p)
        BY OnePlaceIs DEF Core
      <3>2. Copies(p)' = Copies(p) /\ (Held(p)' <=> Held(p)) /\ (Asking(p)' => Asking(p))
        BY Zenon DEF Copies, Held, Asking
      <3> QED BY <3>1, <3>2, SamePlace
    <2> QED BY <2>1, OnePlaceIs
  <1> QED BY <1>1, <1>2, <1>a DEF Core

\* Entries are sent or given up by a step that leaves the senders alone.
LEMMA StepErase ==
  ASSUME Core, NEW out, NEW drop, out \subseteq DOMAIN queue, drop \subseteq DOMAIN queue,
         out \cap drop = {}, SendEntries(out, drop), UNCHANGED hand
  PROVE  /\ queue' \in Seq(Entry) /\ Len(queue') <= QueueSize /\ lost' \in SUBSET (Packets \X Reasons)
         /\ sent' \in [Packets -> 0..2]
         /\ QueueOK' /\ HandOK' /\ OnePlace' /\ Kept /\ \A p \in Packets : Moved(p)
  <1>0. TypeOK /\ QueueOK /\ HandOK /\ \A q \in Packets : Placed(q)
    BY OnePlaceIs DEF Core
  <1>1. /\ queue' \in Seq(Entry) /\ Len(queue') <= QueueSize /\ lost' \in SUBSET (Packets \X Reasons)
        /\ sent' \in [Packets -> 0..2]
        /\ QueueOK'
        /\ \A i \in DOMAIN queue' : \E j \in DOMAIN queue : queue'[i] = queue[j]
        /\ \A p \in Packets :
              /\ \A i, j \in Copies(p)' : i = j
              /\ Evicted(p)' <=> Evicted(p)
              /\ \E o \in BOOLEAN, g \in BOOLEAN :
                   /\ o \/ g => Waits(p)
                   /\ ~ (o /\ g)
                   /\ TooOld(p)' <=> TooOld(p) \/ g
                   /\ sent'[p] = sent[p] + Here(o)
                   /\ Waits(p)' <=> Waits(p) /\ ~ o /\ ~ g
    BY <1>0, EraseStep
  <1>2. HandOK' /\ Kept
    BY <1>0, <1>1 DEF HandOK, Kept
  <1>3. ASSUME NEW p \in Packets PROVE Placed(p)' /\ Moved(p)
    <2>1. (Held(p)' <=> Held(p)) /\ (Asking(p)' => Asking(p))
      BY DEF Held, Asking
    <2>2. sent[p] \in 0..2 /\ Placed(p)
      BY <1>0 DEF TypeOK
    <2> QED BY <1>1, <2>1, <2>2, PlacedStep
  <1> QED BY <1>1, <1>2, <1>3, OnePlaceIs

\* What waits for a peer is sent when the peer is known (doAnythingWaitingForPeer).
LEMMA StepFlush ==
  ASSUME Core, Flush
  PROVE  Core' /\ Kept /\ \A q \in Packets : Moved(q)
  <1>1. PICK out : out = {i \in DOMAIN queue : queue[i].dest = flush /\ CanSend(flush)}
    OBVIOUS
  <1>2. SendEntries(out, {}) /\ UNCHANGED hand
    BY <1>1 DEF Flush, Flushed
  <1>3. out \subseteq DOMAIN queue /\ {} \subseteq DOMAIN queue /\ out \cap {} = {}
    BY <1>1
  <1>4. /\ queue' \in Seq(Entry) /\ Len(queue') <= QueueSize /\ lost' \in SUBSET (Packets \X Reasons)
        /\ sent' \in [Packets -> 0..2]
        /\ QueueOK' /\ HandOK' /\ OnePlace' /\ Kept /\ \A p \in Packets : Moved(p)
    BY <1>2, <1>3, StepErase
  <1>5. whois' \in [Dests -> 0..MaxWait] /\ flush' \in Dests \cup {None}
    BY TxConstants DEF Flush, Core, TypeOK
  <1>6. TypeOK'
    BY <1>4, <1>5 DEF Flush, Core, TypeOK
  <1> QED BY <1>4, <1>6 DEF Core

\* An entry is tried by the background task, and leaves the queue if it is sent.
LEMMA StepTimerTry ==
  ASSUME Core, TimerTry
  PROVE  Core' /\ Kept /\ \A p \in Packets : Moved(p)
  <1>0. TypeOK /\ bg.at \in DOMAIN queue
    BY DEF Core, TimerTry
  <1>1. CASE SendEntries({bg.at}, {}) /\ UNCHANGED bg /\ asked' = asked \cup ({queue[bg.at].what} \cap Dests)
    <2>1. {bg.at} \subseteq DOMAIN queue /\ {} \subseteq DOMAIN queue /\ {bg.at} \cap {} = {}
      BY <1>0
    <2>2. UNCHANGED hand
      BY DEF TimerTry
    <2>3. /\ queue' \in Seq(Entry) /\ Len(queue') <= QueueSize /\ lost' \in SUBSET (Packets \X Reasons)
          /\ sent' \in [Packets -> 0..2]
          /\ QueueOK' /\ HandOK' /\ OnePlace' /\ Kept /\ \A p \in Packets : Moved(p)
      BY <1>1, <2>1, <2>2, StepErase
    <2>4. TypeOK'
      BY <1>0, <1>1, <2>3 DEF TimerTry, TypeOK
    <2> QED BY <2>3, <2>4 DEF Core
  <1>2. CASE bg' = [bg EXCEPT !.pc = "age"] /\ UNCHANGED <<queue, sent, lost, asked>>
    <2>1. bg' \in [pc: Steps, lag: 0..MaxLag, at: 0..QueueSize + 1, need: SUBSET Dests]
      BY <1>0, <1>2 DEF TypeOK, Steps
    <2>2. TypeOK' /\ UNCHANGED <<queue, hand, sent, lost>>
      BY <1>0, <1>2, <2>1 DEF TimerTry, TypeOK
    <2> QED BY <2>2, StepQuiet
  <1> QED BY <1>1, <1>2 DEF TimerTry

\* An entry that could not be sent is given up if it is too old.
LEMMA StepTimerAge ==
  ASSUME Core, PassOK, TimerAge
  PROVE  Core' /\ Kept /\ \A p \in Packets : Moved(p)
  <1>0. TypeOK /\ bg.at \in DOMAIN queue
    BY DEF Core, TimerAge, PassOK
  <1>1. bg.at + 1 \in 0..QueueSize + 1
    BY <1>0, TxConstants DEF TypeOK
  <1>2. CASE SendEntries({}, {bg.at}) /\ bg' = [bg EXCEPT !.pc = "try"]
    <2>1. {bg.at} \subseteq DOMAIN queue /\ {} \subseteq DOMAIN queue /\ {} \cap {bg.at} = {}
      BY <1>0
    <2>2. UNCHANGED hand
      BY DEF TimerAge
    <2>3. /\ queue' \in Seq(Entry) /\ Len(queue') <= QueueSize /\ lost' \in SUBSET (Packets \X Reasons)
          /\ sent' \in [Packets -> 0..2]
          /\ QueueOK' /\ HandOK' /\ OnePlace' /\ Kept /\ \A p \in Packets : Moved(p)
      BY <1>2, <2>1, <2>2, StepErase
    <2>4. bg' \in [pc: Steps, lag: 0..MaxLag, at: 0..QueueSize + 1, need: SUBSET Dests]
      BY <1>0, <1>2 DEF TypeOK, Steps
    <2>5. TypeOK'
      BY <1>0, <2>3, <2>4 DEF TimerAge, TypeOK
    <2> QED BY <2>3, <2>5 DEF Core
  <1>3. CASE /\ \E n \in SUBSET Dests : bg' = [bg EXCEPT !.pc = "try", !.at = @ + 1, !.need = @ \cup n]
             /\ UNCHANGED <<queue, sent, lost>>
    <2> PICK n \in SUBSET Dests : bg' = [bg EXCEPT !.pc = "try", !.at = @ + 1, !.need = @ \cup n]
      BY <1>3
    <2>0. bg \in [pc: Steps, lag: 0..MaxLag, at: 0..QueueSize + 1, need: SUBSET Dests]
      BY <1>0 DEF TypeOK
    <2>a. bg.need \cup n \in SUBSET Dests /\ "try" \in Steps
      BY <2>0 DEF Steps
    <2>1. bg' \in [pc: Steps, lag: 0..MaxLag, at: 0..QueueSize + 1, need: SUBSET Dests]
      BY <1>1, <2>0, <2>a
    <2>2. TypeOK' /\ UNCHANGED <<queue, hand, sent, lost>>
      BY <1>0, <1>3, <2>1 DEF TimerAge, TypeOK
    <2> QED BY <2>2, StepQuiet
  <1>4. TimerAge => \/ SendEntries({}, {bg.at}) /\ bg' = [bg EXCEPT !.pc = "try"]
                    \/ /\ \E n \in SUBSET Dests :
                              bg' = [bg EXCEPT !.pc = "try", !.at = @ + 1, !.need = @ \cup n]
                       /\ UNCHANGED <<queue, sent, lost>>
    <2> DEFINE N == {d \in Dests : d = queue[bg.at].dest /\ peer[d] = "unknown"}
    <2>1. N \in SUBSET Dests
      OBVIOUS
    <2>2. TimerAge => \/ SendEntries({}, {bg.at}) /\ bg' = [bg EXCEPT !.pc = "try"]
                      \/ /\ bg' = [bg EXCEPT !.pc = "try", !.at = @ + 1, !.need = @ \cup N]
                         /\ UNCHANGED <<queue, sent, lost>>
      BY DEF TimerAge
    <2> HIDE DEF N
    <2> QED BY <2>1, <2>2
  <1> QED BY <1>2, <1>3, <1>4

\* Time passes: what waits gets older, and is otherwise what it was.
LEMMA StepTick ==
  ASSUME Core, Tick
  PROVE  /\ Core' /\ \A q \in Packets : Moved(q)
         /\ DOMAIN queue' = DOMAIN queue
         /\ \A i \in DOMAIN queue :
              queue'[i].what = queue[i].what /\ queue'[i].age = Older(queue[i].age, MaxAge)
  <1>0. TypeOK /\ QueueOK /\ HandOK /\ \A q \in Packets : Placed(q)
    BY OnePlaceIs DEF Core
  <1>1. /\ queue' = [i \in DOMAIN queue |-> [queue[i] EXCEPT !.age = Older(@, MaxAge)]]
        /\ UNCHANGED <<peer, asked, hand, flush, sent, lost, seen>>
    BY DEF Tick
  <1>2. \A m \in Nat : \A a \in 0..m : Older(a, m) \in 0..m
    BY DEF Older
  <1>3. /\ queue' \in Seq(Entry) /\ Len(queue') = Len(queue)
        /\ \A i \in DOMAIN queue : /\ queue'[i].what = queue[i].what /\ queue'[i].dest = queue[i].dest
                                   /\ queue'[i].age = Older(queue[i].age, MaxAge)
        /\ DOMAIN queue' = DOMAIN queue
    <2>1. queue \in Seq(Entry) /\ DOMAIN queue = 1..Len(queue) /\ Len(queue) \in Nat
      BY <1>0 DEF TypeOK
    <2>2. ASSUME NEW i \in DOMAIN queue
          PROVE  /\ [queue[i] EXCEPT !.age = Older(@, MaxAge)] \in Entry
                 /\ [queue[i] EXCEPT !.age = Older(@, MaxAge)].what = queue[i].what
                 /\ [queue[i] EXCEPT !.age = Older(@, MaxAge)].dest = queue[i].dest
                 /\ [queue[i] EXCEPT !.age = Older(@, MaxAge)].age = Older(queue[i].age, MaxAge)
      <3>1. queue[i] \in Entry
        BY <2>1
      <3>2. Older(queue[i].age, MaxAge) \in 0..MaxAge
        BY <1>2, <3>1, TxConstants DEF Entry
      <3> QED BY <3>1, <3>2 DEF Entry
    <2>3. DOMAIN queue' = 1..Len(queue) /\ \A i \in 1..Len(queue) : queue'[i] \in Entry
      BY <1>1, <2>1, <2>2
    <2>4. queue' \in Seq(Entry) /\ Len(queue') = Len(queue)
      <3>1. queue' = [i \in 1..Len(queue) |-> queue'[i]]
        BY <1>1, <2>1
      <3> QED BY <2>1, <2>3, <3>1
    <2> QED BY <1>1, <2>1, <2>2, <2>3, <2>4
  <1>4. whois' \in [Dests -> 0..MaxWait] /\ checked' \in 0..MaxWait
    BY <1>0, <1>2, TxConstants DEF TypeOK, Tick
  <1>5. nodeLag' \in 0..MaxLag
    BY <1>0, TxConstants DEF TypeOK, Tick
  <1>6. bg' \in [pc: Steps, lag: 0..MaxLag, at: 0..QueueSize + 1, need: SUBSET Dests]
    <2>1. bg \in [pc: Steps, lag: 0..MaxLag, at: 0..QueueSize + 1, need: SUBSET Dests]
      BY <1>0 DEF TypeOK
    <2>2. CASE bg.pc = "idle"
      BY <2>1, <2>2 DEF Tick
    <2>3. CASE bg.pc # "idle"
      <3>1. bg.lag + 1 \in 0..MaxLag /\ bg' = [bg EXCEPT !.lag = @ + 1]
        BY <2>1, <2>3, TxConstants DEF Tick
      <3> QED BY <2>1, <3>1
    <2> QED BY <2>2, <2>3
  <1>7. TypeOK'
    BY <1>0, <1>1, <1>3, <1>4, <1>5, <1>6 DEF TypeOK
  <1>8. QueueOK'
    BY <1>0, <1>3 DEF QueueOK
  <1>9. HandOK'
    BY <1>0, <1>1, Zenon DEF HandOK
  <1>10. ASSUME NEW p \in Packets PROVE Placed(p)' /\ Moved(p)
    <2>1. Copies(p)' = Copies(p)
      BY <1>3 DEF Copies
    <2>2. (Held(p)' <=> Held(p)) /\ (Asking(p)' => Asking(p))
      BY <1>1, Zenon DEF Held, Asking
    <2> QED BY <1>0, <1>1, <2>1, <2>2, SamePlace
  <1> QED BY <1>3, <1>7, <1>8, <1>9, <1>10, OnePlaceIs DEF Core

\* The background task makes a WHOIS for what still waits.
LEMMA StepTimerWhois ==
  ASSUME Core, NEW a \in Dests, TimerWhois(a)
  PROVE  Core' /\ Kept /\ \A q \in Packets : Moved(q)
  <1>0. TypeOK /\ QueueOK /\ HandOK /\ \A q \in Packets : Placed(q)
    BY OnePlaceIs DEF Core
  <1>1. /\ RequestWhois(a, bg.lag) /\ bg' = [bg EXCEPT !.need = @ \ {a}]
        /\ UNCHANGED <<peer, nodeLag, hand, flush, checked, sent, seen>>
    BY DEF TimerWhois
  <1>2. bg.lag \in 0..MaxLag
    BY <1>0 DEF TypeOK
  <1>3. /\ queue' \in Seq(Entry) /\ Len(queue') <= QueueSize /\ lost' \in SUBSET (Packets \X Reasons)
        /\ whois' \in [Dests -> 0..MaxWait] /\ asked' \subseteq Dests
        /\ QueueOK' /\ Kept
        /\ \A q \in Packets :
              /\ \A i, j \in Copies(q)' : i = j
              /\ TooOld(q)' <=> TooOld(q)
              /\ \E out \in BOOLEAN :
                   /\ out => Waits(q)
                   /\ Evicted(q)' <=> Evicted(q) \/ out
                   /\ Waits(q)' <=> Waits(q) /\ ~ out
    BY <1>1, <1>2, WhoisStep
  <1>4. bg' \in [pc: Steps, lag: 0..MaxLag, at: 0..QueueSize + 1, need: SUBSET Dests]
    BY <1>0, <1>1 DEF TypeOK
  <1>5. TypeOK'
    BY <1>0, <1>1, <1>3, <1>4 DEF TypeOK
  <1>6. HandOK'
    BY <1>0, <1>1, Zenon DEF HandOK
  <1>7. ASSUME NEW q \in Packets PROVE Placed(q)' /\ Moved(q)
    <2>1. (Held(q)' <=> Held(q)) /\ (Asking(q)' => Asking(q))
      BY <1>1, Zenon DEF Held, Asking
    <2>2. sent[q] \in 0..2 /\ Placed(q) /\ sent'[q] = sent[q]
      BY <1>0, <1>1 DEF TypeOK
    <2> QED BY <1>3, <2>1, <2>2, PlacedStep
  <1> QED BY <1>3, <1>5, <1>6, <1>7, OnePlaceIs DEF Core

\* Every step keeps packets where they may be.
LEMMA TxNextCore ==
  ASSUME IInv, [Next]_vars
  PROVE  Core' /\ (Tick \/ Kept) /\ \A q \in Packets : Moved(q)
  <1>0. TypeOK /\ MaxLag \in Nat /\ 0 \in 0..MaxLag /\ Core /\ PassOK
    BY TxConstants DEF IInv, Core
  <1>1. CASE UNCHANGED vars
    <2>1. UNCHANGED <<queue, hand, sent, lost>> /\ TypeOK'
      BY <1>0, <1>1 DEF vars, TypeOK
    <2> QED BY <1>0, <2>1, StepQuiet
  <1>2. ASSUME NEW t \in Senders, SendPush(t) PROVE Core' /\ Kept /\ \A q \in Packets : Moved(q)
    BY <1>0, <1>2, StepSendPush
  <1>3. ASSUME NEW t \in Senders, SendAsk(t) PROVE Core' /\ Kept /\ \A q \in Packets : Moved(q)
    BY <1>0, <1>3, StepSendAsk
  <1>4. ASSUME NEW t \in Senders, NEW p \in Packets, Send(t, p)
        PROVE  Core' /\ Kept /\ \A q \in Packets : Moved(q)
    BY <1>0, <1>4, StepSend
  <1>5. ASSUME NEW d \in Dests, RecvWhoisOK(d) \/ LoseWhois(d)
        PROVE  Core' /\ Kept /\ \A q \in Packets : Moved(q)
    <2>1. UNCHANGED <<queue, hand, sent, lost>> /\ TypeOK'
      BY <1>0, <1>5 DEF RecvWhoisOK, LoseWhois, TypeOK
    <2> QED BY <1>0, <2>1, StepQuiet
  <1>6. CASE Flush
    BY <1>0, <1>6, StepFlush
  <1>7. CASE Enter \/ BgRead \/ BgEnter
    <2>1. bg' \in [pc: Steps, lag: 0..MaxLag, at: 0..QueueSize + 1, need: SUBSET Dests]
      BY <1>0, <1>7 DEF Enter, BgRead, BgEnter, TypeOK, Steps
    <2>2. UNCHANGED <<queue, hand, sent, lost>> /\ TypeOK'
      BY <1>0, <1>7, <2>1 DEF Enter, BgRead, BgEnter, TypeOK
    <2> QED BY <1>0, <2>2, StepQuiet
  <1>8. CASE Tick
    BY <1>0, <1>8, StepTick
  <1>9. ASSUME NEW a \in Addresses, NEW s \in {"unknown", "none", "expired", "fresh"}, PeerChange(a, s)
        PROVE  Core' /\ Kept /\ \A q \in Packets : Moved(q)
    <2>1. UNCHANGED <<queue, hand, sent, lost>> /\ TypeOK'
      BY <1>0, <1>9 DEF PeerChange, TypeOK
    <2> QED BY <1>0, <2>1, StepQuiet
  <1>10. CASE TimerBegin \/ TimerPassed \/ TimerNotDue \/ TimerEnd
    <2>1. 0 \in 0..QueueSize + 1 /\ 1 \in 0..QueueSize + 1 /\ \A x \in 0..MaxLag : x \in 0..MaxWait
      BY TxConstants
    <2>2. bg' \in [pc: Steps, lag: 0..MaxLag, at: 0..QueueSize + 1, need: SUBSET Dests]
      BY <1>0, <1>10, <2>1 DEF TimerBegin, TimerPassed, TimerNotDue, TimerEnd, TypeOK, Steps
    <2>3. checked' \in 0..MaxWait
      BY <1>0, <1>10, <2>1 DEF TimerBegin, TimerPassed, TimerNotDue, TimerEnd, TypeOK
    <2>4. UNCHANGED <<queue, hand, sent, lost>> /\ TypeOK'
      BY <1>0, <1>10, <2>2, <2>3 DEF TimerBegin, TimerPassed, TimerNotDue, TimerEnd, TypeOK
    <2> QED BY <1>0, <2>4, StepQuiet
  <1>11. CASE TimerTry
    BY <1>0, <1>11, StepTimerTry
  <1>12. CASE TimerAge
    BY <1>0, <1>12, StepTimerAge
  <1>13. ASSUME NEW d \in Dests, TimerWhois(d) PROVE Core' /\ Kept /\ \A q \in Packets : Moved(q)
    BY <1>0, <1>13, StepTimerWhois
  <1> QED
    BY <1>1, <1>2, <1>3, <1>4, <1>5, <1>6, <1>7, <1>8, <1>9, <1>10, <1>11, <1>12, <1>13
    DEF Next, Background

\* While the background task has the mutex, the entry it has tried stays.
LEMMA TxNextPass ==
  ASSUME IInv, [Next]_vars
  PROVE  PassOK'
  <1> SUFFICES ASSUME bg'.pc = "age" PROVE bg'.at \in DOMAIN queue'
    BY DEF PassOK
  <1>0. TypeOK /\ (bg.pc = "age" => bg.at \in DOMAIN queue /\ Locked) /\ Core
    BY DEF IInv, PassOK, Core, Locked
  <1>1. CASE UNCHANGED <<queue, bg>>
    BY <1>0, <1>1
  <1>2. CASE TimerTry
    BY <1>0, <1>2 DEF TimerTry, TypeOK
  <1>3. CASE Tick
    <2>1. DOMAIN queue' = DOMAIN queue
      BY <1>0, <1>3, StepTick
    <2>2. bg'.pc = bg.pc /\ bg'.at = bg.at
      BY <1>0, <1>3 DEF Tick, TypeOK
    <2> QED BY <1>0, <2>1, <2>2
  <1>4. ASSUME NEW t \in Senders, SendPush(t) \/ SendAsk(t) PROVE bg'.at \in DOMAIN queue'
    <2>1. UNCHANGED bg /\ (~ Locked \/ UNCHANGED queue)
      BY <1>4 DEF SendPush, SendAsk, RequestWhois
    <2> QED BY <1>0, <2>1
  <1>5. CASE Flush
    BY <1>0, <1>5 DEF Flush
  <1>6. CASE BgRead \/ BgEnter \/ TimerBegin \/ TimerPassed \/ TimerNotDue \/ TimerEnd \/ TimerAge
    <2>1. bg'.pc # "age"
      BY <1>0, <1>6 DEF BgRead, BgEnter, TimerBegin, TimerPassed, TimerNotDue, TimerEnd, TimerAge, TypeOK
    <2> QED BY <2>1
  <1>7. ASSUME NEW d \in Dests, TimerWhois(d) PROVE FALSE
    BY <1>0, <1>7 DEF TimerWhois, TypeOK
  <1>8. ASSUME NEW t \in Senders, NEW p \in Packets, Send(t, p) PROVE UNCHANGED <<queue, bg>>
    BY <1>8 DEF Send
  <1>9. ASSUME NEW d \in Dests, RecvWhoisOK(d) \/ LoseWhois(d) PROVE UNCHANGED <<queue, bg>>
    BY <1>9 DEF RecvWhoisOK, LoseWhois
  <1>10. ASSUME Enter \/ UNCHANGED vars \/
                \E a \in Addresses : \E s \in {"unknown", "none", "expired", "fresh"} : PeerChange(a, s)
         PROVE  UNCHANGED <<queue, bg>>
    BY <1>10 DEF Enter, vars, PeerChange
  <1> QED
    BY <1>1, <1>2, <1>3, <1>4, <1>5, <1>6, <1>7, <1>8, <1>9, <1>10
    DEF Next, Background

\* The time of the background task moves with the clock, or is read anew.
LEMMA TxNextTime ==
  ASSUME TypeOK, [Next]_vars
  PROVE  BgRead \/ Tick \/ (bg'.lag = bg.lag /\ seen' = seen)
  <1>1. ASSUME NEW t \in Senders, SendPush(t) \/ SendAsk(t) PROVE bg'.lag = bg.lag /\ seen' = seen
    BY <1>1 DEF SendPush, SendAsk
  <1>2. ASSUME NEW t \in Senders, NEW p \in Packets, Send(t, p) PROVE bg'.lag = bg.lag /\ seen' = seen
    BY <1>2 DEF Send
  <1>3. ASSUME NEW d \in Dests, RecvWhoisOK(d) \/ LoseWhois(d) \/ TimerWhois(d)
        PROVE  bg'.lag = bg.lag /\ seen' = seen
    BY <1>3 DEF RecvWhoisOK, LoseWhois, TimerWhois, TypeOK
  <1>4. ASSUME Enter \/ Flush \/ UNCHANGED vars \/
               \E a \in Addresses : \E s \in {"unknown", "none", "expired", "fresh"} : PeerChange(a, s)
        PROVE  bg'.lag = bg.lag /\ seen' = seen
    BY <1>4 DEF Enter, Flush, vars, PeerChange
  <1>5. CASE BgEnter \/ TimerBegin \/ TimerPassed \/ TimerNotDue \/ TimerEnd
    BY <1>5 DEF BgEnter, TimerBegin, TimerPassed, TimerNotDue, TimerEnd, TypeOK
  <1>6. CASE TimerTry \/ TimerAge
    BY <1>6 DEF TimerTry, TimerAge, TypeOK
  <1> QED
    BY <1>1, <1>2, <1>3, <1>4, <1>5, <1>6 DEF Next, Background

\* What SeenOK says of a packet, in the terms above.
Handled(p) == Waits(p) \/ sent[p] > 0 \/ Gone(p)

\* A packet that waited stays out of the senders' hands, and what waits of those that
\* the background task has seen grows older with its time.
LEMMA TxNextSeen ==
  ASSUME IInv, [Next]_vars
  PROVE  SeenOK'
  <1>0. /\ TypeOK /\ Core /\ SeenOK /\ \A p \in Packets : Placed(p)
        /\ Core' /\ (Tick \/ Kept) /\ \A p \in Packets : Moved(p)
    BY TxNextCore, OnePlaceIs DEF IInv, Core
  <1>1. /\ queue \in Seq(Entry) /\ DOMAIN queue = 1..Len(queue) /\ bg.lag \in 0..MaxLag
        /\ \A i \in DOMAIN queue : queue[i].age \in 0..MaxAge
        /\ MaxLag \in Nat /\ MaxAge \in Nat /\ MaxLag <= MaxAge /\ seen \subseteq Packets
        /\ \A p \in Packets : sent[p] \in Nat /\ sent'[p] \in Nat
    <2>1. queue \in Seq(Entry) /\ DOMAIN queue = 1..Len(queue)
      BY <1>0 DEF TypeOK
    <2>2. bg.lag \in 0..MaxLag /\ seen \subseteq Packets /\ sent \in [Packets -> 0..2]
      BY <1>0 DEF TypeOK
    <2>3. sent' \in [Packets -> 0..2]
      BY <1>0 DEF TypeOK, Core
    <2>4. \A i \in DOMAIN queue : queue[i].age \in 0..MaxAge
      <3>1. \A e \in Entry : e.age \in 0..MaxAge
        BY DEF Entry
      <3>2. \A i \in DOMAIN queue : queue[i] \in Entry
        BY <2>1
      <3> QED BY <3>1, <3>2
    <2>5. MaxLag \in Nat /\ MaxAge \in Nat /\ MaxLag <= MaxAge
      BY TxAssumption DEF MaxAge
    <2> QED BY <2>1, <2>2, <2>3, <2>4, <2>5
  <1>2. /\ \A p \in seen : Handled(p)
        /\ SeenOK' <=> /\ \A i \in DOMAIN queue' : queue'[i].what \in seen' => queue'[i].age >= bg'.lag
                       /\ \A p \in seen' : Handled(p)'
    <2>1. \A p : Queued(p) <=> Waits(p)
      BY DEF Queued, Waits
    <2>2. \A p : (\E r \in Reasons : <<p, r>> \in lost) <=> Gone(p)
      BY DEF Reasons, Gone, Evicted, TooOld
    <2>3. \A p : Queued(p)' <=> Waits(p)'
      BY DEF Queued, Waits
    <2>4. \A p : (\E r \in Reasons : <<p, r>> \in lost') <=> Gone(p)'
      BY DEF Reasons, Gone, Evicted, TooOld
    <2> QED BY <1>0, <2>1, <2>2, <2>3, <2>4 DEF SeenOK, Handled
  <1>3. ASSUME NEW p \in Packets, Handled(p) PROVE Handled(p)' /\ ~ Held(p)
    <2>1. Placed(p) /\ Moved(p) /\ sent[p] \in Nat /\ sent'[p] \in Nat
      BY <1>0, <1>1
    <2>2. ~ Untouched(p) /\ ~ Held(p)
      BY <1>3, <2>1 DEF Handled, Placed, Here, Untouched, Inside, Gone
    <2> QED BY <1>3, <2>1, <2>2 DEF Handled, Moved, Inside
  <1>4. CASE BgRead
    <2>1. seen' = {p \in Packets : Waits(p)} /\ queue' = queue /\ bg'.lag = 0
      BY <1>0, <1>4 DEF BgRead, Queued, Waits, TypeOK
    <2>2. \A p \in seen' : Handled(p)'
      BY <1>3, <2>1 DEF Handled
    <2>3. \A i \in DOMAIN queue' : queue'[i].age >= bg'.lag
      BY <1>1, <2>1
    <2> QED BY <1>2, <2>2, <2>3
  <1>5. CASE Tick
    <2>1. /\ DOMAIN queue' = DOMAIN queue
          /\ \A i \in DOMAIN queue :
               queue'[i].what = queue[i].what /\ queue'[i].age = Older(queue[i].age, MaxAge)
      BY <1>0, <1>5, StepTick
    <2>2. seen' = seen /\ bg'.lag \in 0..MaxLag /\ bg'.lag <= bg.lag + 1
      BY <1>0, <1>1, <1>5 DEF Tick, TypeOK, Core
    <2>3. ASSUME NEW i \in DOMAIN queue, queue[i].what \in seen
          PROVE  Older(queue[i].age, MaxAge) >= bg'.lag
      <3>1. queue[i].age >= bg.lag /\ queue[i].age \in 0..MaxAge
        BY <1>0, <1>1, <2>3 DEF SeenOK
      <3> QED BY <1>1, <2>2, <3>1 DEF Older
    <2> QED BY <1>1, <1>2, <1>3, <2>1, <2>2, <2>3
  <1>6. CASE bg'.lag = bg.lag /\ seen' = seen /\ Kept
    <2>1. ASSUME NEW i \in DOMAIN queue', queue'[i].what \in seen PROVE queue'[i].age >= bg.lag
      <3>1. queue'[i].what \in Packets /\ ~ Held(queue'[i].what)
        BY <1>1, <1>2, <1>3, <2>1
      <3>2. PICK j \in DOMAIN queue : queue'[i] = queue[j]
        BY <1>6, <2>1, <3>1 DEF Kept
      <3> QED BY <1>0, <2>1, <3>2 DEF SeenOK
    <2> QED BY <1>1, <1>2, <1>3, <1>6, <2>1
  <1> QED BY <1>0, <1>4, <1>5, <1>6, TxNextTime

\* Every step keeps the invariant.
LEMMA TxNext == IInv /\ [Next]_vars => IInv' /\ \A q \in Packets : Moved(q)
  BY TxNextCore, TxNextPass, TxNextSeen DEF IInv, Core

\* At first the invariant holds.
LEMMA InitIInv == Init => IInv
  <1> SUFFICES ASSUME Init PROVE IInv
    OBVIOUS
  <1>1. PassOK /\ SeenOK
    BY DEF Init, PassOK, SeenOK
  <1> QED BY <1>1, InitCore DEF IInv, Core

\* The inductive invariant: a packet waits with its own destination, is in the hand
\* of one sender, and is in one place; the entry that a timer pass has tried stays
\* until its age was looked at, and what the pass has seen is not ahead of its time.
THEOREM InvariantHolds == Spec => []IInv
  <1>1. IInv /\ [Next]_vars => IInv'
    BY TxNext
  <1> QED BY <1>1, InitIInv, PTL DEF Spec

\* With send, doAnythingWaitingForPeer and doTimerTasks at the queue in any order, a
\* packet is in one place: none is sent twice, none is lost without a reason.
THEOREM PacketInOnePlace == Spec => []OnePlace
  <1>1. IInv => OnePlace
    BY DEF IInv
  <1> QED BY <1>1, InvariantHolds, PTL

\* doTimerTasks gives a packet that was in the queue when the time was read up only
\* when it is older than the timeout, however long the pass takes.
THEOREM OnlyOldGivenUp == Spec => GivenUpOld
  <1> DEFINE A == \A p \in seen : <<p, "expired">> \in lost' \ lost
                                  => \E i \in Copies(p) : queue[i].age > Timeout
  <1>1. ASSUME IInv, Next PROVE A
    <2> SUFFICES ASSUME NEW p \in seen, TooOld(p)', ~ TooOld(p)
                 PROVE  \E i \in Copies(p) : queue[i].age > Timeout
      BY DEF TooOld
    <2>1. ASSUME lost' = lost \/ lost' = lost \cup EvictedBy(queue) PROVE FALSE
      BY <2>1 DEF EvictedBy, TooOld
    <2>2. ASSUME NEW out, SendEntries(out, {}) PROVE FALSE
      BY <2>2 DEF SendEntries, TooOld
    <2>3. CASE TimerAge /\ Expired(queue[bg.at]) /\ SendEntries({}, {bg.at})
      <3>1. bg.at \in Copies(p)
        BY <2>3 DEF SendEntries, TooOld
      <3>2. /\ bg.at \in DOMAIN queue /\ queue[bg.at].what = p /\ queue[bg.at].age >= bg.lag
            /\ queue \in Seq(Entry) /\ bg.lag \in 0..MaxLag
        <4>1. bg.at \in DOMAIN queue /\ queue[bg.at].what = p
          BY <3>1 DEF Copies
        <4>2. queue[bg.at].age >= bg.lag
          BY <1>1, <4>1 DEF IInv, SeenOK
        <4>3. queue \in Seq(Entry) /\ bg.lag \in 0..MaxLag
          BY <1>1 DEF IInv, TypeOK
        <4> QED BY <4>1, <4>2, <4>3
      <3>3. queue[bg.at].age \in 0..MaxAge
        <4>1. \A e \in Entry : e.age \in 0..MaxAge
          BY DEF Entry
        <4>2. queue[bg.at] \in Entry
          BY <3>2
        <4> QED BY <4>1, <4>2
      <3>4. Word \in Nat /\ MaxAge < Word /\ Timeout \in Nat /\ MaxAge \in Nat /\ MaxLag \in Nat
        BY TxAssumption DEF MaxAge
      <3>5. PICK x \in 0..MaxAge : x = queue[bg.at].age - bg.lag
        BY <3>2, <3>3, <3>4
      <3>6. x % Word = x
        BY <3>4, <3>5
      <3>7. x > Timeout
        BY <2>3, <3>5, <3>6 DEF Expired
      <3>8. queue[bg.at].age > Timeout
        BY <3>2, <3>3, <3>4, <3>5, <3>7
      <3> QED BY <3>1, <3>8
    <2>4. \/ TimerAge /\ Expired(queue[bg.at]) /\ SendEntries({}, {bg.at})
          \/ \E out : SendEntries(out, {})
          \/ lost' = lost \/ lost' = lost \cup EvictedBy(queue)
      <3>1. CASE Flush
        BY <3>1 DEF Flush, Flushed
      <3>2. CASE TimerTry
        BY <3>2 DEF TimerTry
      <3>3. CASE TimerAge
        BY <3>3 DEF TimerAge
      <3>4. Flush \/ TimerTry \/ TimerAge \/ lost' = lost \/ lost' = lost \cup EvictedBy(queue)
        BY <1>1 DEF Next, Background, SendPush, SendAsk, Send, RecvWhoisOK, LoseWhois, Enter, Tick,
                    PeerChange, BgRead, BgEnter, TimerBegin, TimerPassed, TimerNotDue, TimerWhois,
                    TimerEnd, RequestWhois
      <3> QED BY <3>1, <3>2, <3>3, <3>4
    <2> QED BY <2>1, <2>2, <2>3, <2>4
  <1>2. IInv /\ [Next]_vars => [A]_vars
    BY <1>1
  <1>3. [][A]_vars => GivenUpOld
    BY DEF GivenUpOld
  <1> HIDE DEF A
  <1> QED BY <1>2, <1>3, InvariantHolds, PTL DEF Spec

\* The terms of Mailbox are those above.
LEMMA BoxIs ==
  /\ InBox = {p \in Packets : Inside(p)} /\ InBox' = {p \in Packets : Inside(p)'}
  /\ Dropped = {p \in Packets : Gone(p)} /\ Dropped' = {p \in Packets : Gone(p)'}
  BY DEF InBox, Dropped, Inside, Gone, Waits, Queued, Held, Evicted, TooOld, Reasons

\* If every packet moves as it may, Mailbox can take a step that moves them all.
LEMMA BoxStep ==
  ASSUME sent \in [Packets -> 0..2], sent' \in [Packets -> 0..2],
         \A p \in Packets : Placed(p) /\ Moved(p)
  PROVE  Box!Next
  <1> DEFINE new == {p \in Packets : Untouched(p) /\ (Inside(p)' \/ sent'[p] # sent[p])}
             out == {p \in Packets : sent'[p] # sent[p]}
             drop == {p \in Packets : Inside(p) /\ ~ Inside(p)' /\ sent'[p] = sent[p]}
  <1>1. ASSUME NEW p \in Packets
        PROVE  /\ Inside(p) \/ Gone(p) => ~ Untouched(p)
               /\ Inside(p) => ~ Gone(p)
               /\ Untouched(p) => sent[p] = 0
               /\ sent[p] \in Nat /\ sent'[p] \in Nat
               /\ sent'[p] # sent[p] => sent'[p] = sent[p] + 1
               /\ p \in out => Inside(p) \/ p \in new
               /\ Inside(p)' <=> (Inside(p) \/ p \in new) /\ p \notin out /\ p \notin drop
               /\ Gone(p)' <=> Gone(p) \/ p \in drop
    BY DEF Placed, Here, Moved, Inside, Gone, Untouched
  <1>2. new \subseteq Box!Fresh
    BY <1>1, BoxIs DEF Box!Fresh, Untouched
  <1>3. out \subseteq InBox \cup new /\ drop \subseteq InBox \ out
    BY <1>1, BoxIs
  <1>4. InBox' = (InBox \cup new) \ (out \cup drop)
    BY <1>1, BoxIs
  <1>5. sent' = [p \in Packets |-> IF p \in out THEN sent[p] + 1 ELSE sent[p]]
    <2>1. \A p \in Packets : sent'[p] = IF p \in out THEN sent[p] + 1 ELSE sent[p]
      BY <1>1
    <2> HIDE DEF out
    <2> QED BY <2>1
  <1>6. Dropped' = Dropped \cup drop
    BY <1>1, BoxIs
  <1>7. Box!Transfer(new, out, drop)
    <2> HIDE DEF new, out, drop
    <2> QED BY <1>2, <1>3, <1>4, <1>5, <1>6 DEF Box!Transfer
  <1>8. new \in SUBSET Packets /\ out \in SUBSET Packets /\ drop \in SUBSET Packets
    OBVIOUS
  <1> HIDE DEF new, out, drop
  <1> QED BY <1>7, <1>8 DEF Box!Next

\* Refinement: whatever send, doAnythingWaitingForPeer and doTimerTasks do to the
\* queue, and in whatever order, a packet that is handed to Switch::send is kept
\* until it is sent, once, or dropped.
THEOREM MailCarried == Spec => CarriesMail
  <1>1. Init => Box!Init
    <2> SUFFICES ASSUME Init PROVE Box!Init
      OBVIOUS
    <2>1. \A p \in Packets : ~ Inside(p) /\ ~ Gone(p)
      BY DEF Init, Inside, Waits, Copies, Held, Gone, Evicted, TooOld
    <2>2. InBox = {} /\ Dropped = {}
      BY <2>1, BoxIs
    <2> QED BY <2>2 DEF Init, Box!Init
  <1>2. IInv /\ IInv' /\ [Next]_vars => [Box!Next]_(Box!vars)
    <2> SUFFICES ASSUME IInv, IInv', [Next]_vars PROVE Box!Next
      OBVIOUS
    <2>1. sent \in [Packets -> 0..2] /\ sent' \in [Packets -> 0..2]
      BY DEF IInv, TypeOK
    <2>2. \A p \in Packets : Placed(p) /\ Moved(p)
      BY TxNext, OnePlaceIs DEF IInv
    <2> QED BY <2>1, <2>2, BoxStep
  <1> QED BY <1>1, <1>2, InvariantHolds, PTL DEF Spec, CarriesMail, Box!Spec
-----------------------------------------------------------------------------
(* What a packet is cut into.                                             *)

\* Division rounded down.
LEMMA DivFacts ==
  ASSUME NEW r \in Nat, NEW c \in Nat \ {0}
  PROVE  LET f == r \div c IN f \in Nat /\ f * c <= r /\ r < (f + 1) * c
  OBVIOUS

\* As many fragments as are needed: c bytes in each are enough, and one fragment
\* less is not.
LEMMA CountFacts ==
  ASSUME NEW n \in Nat \ {0}, NEW m \in Nat, m > Header, Header \in Nat
  PROVE  LET k == FragmentCount(n, m)
             c == m - Header
         IN /\ k \in Nat \ {0}
            /\ n <= m + (k - 1) * c
            /\ k > 1 => m + (k - 2) * c < n
  <1> DEFINE c == m - Header
             f == (n - m) \div c
             k == FragmentCount(n, m)
  <1>1. c \in Nat \ {0}
    OBVIOUS
  <1>2. CASE n <= m
    BY <1>1, <1>2 DEF FragmentCount
  <1>3. CASE ~ (n <= m)
    <2>1. n - m \in Nat \ {0}
      BY <1>3
    <2>2. f \in Nat /\ f * c <= n - m /\ n - m < (f + 1) * c
      BY <1>1, <2>1, DivFacts
    <2>3. k = 1 + (IF f * c < n - m THEN f + 1 ELSE f)
      BY <1>3 DEF FragmentCount
    <2> HIDE DEF f, c, k
    <2>4. CASE f * c < n - m
      <3>1. k = f + 2 /\ k - 1 = f + 1 /\ k - 2 = f
        BY <2>2, <2>3, <2>4
      <3> QED BY <1>1, <2>1, <2>2, <2>4, <3>1 DEF c, k
    <2>5. CASE ~ (f * c < n - m)
      <3>1. f * c = n - m /\ f # 0
        BY <1>1, <2>1, <2>2, <2>5
      <3>2. k = f + 1 /\ k - 1 = f /\ k - 2 = f - 1
        BY <2>2, <2>3, <2>5
      <3>3. (f - 1) * c = f * c - c
        BY <1>1, <2>2
      <3> QED BY <1>1, <2>1, <2>2, <3>1, <3>2, <3>3 DEF c, k
    <2> QED BY <2>4, <2>5
  <1> QED BY <1>2, <1>3

\* Where piece i begins.
Begin(n, m, i) == IF i = 0 THEN 0 ELSE Lesser(n, m + (i - 1) * (m - Header))

\* The loop that adds the size of one fragment after the other is at Begin(n, m, i)
\* with fragment i.
LEMMA PiecesAre ==
  ASSUME NEW n \in Nat \ {0}, NEW m \in Nat, m > Header, Header \in Nat
  PROVE  LET k == FragmentCount(n, m)
         IN Pieces(n, m) = [i \in 0..k - 1 |->
               [start |-> Begin(n, m, i), len |-> Begin(n, m, i + 1) - Begin(n, m, i),
                no |-> i % Nibble, total |-> k % Nibble]]
  <1> DEFINE c == m - Header
             k == FragmentCount(n, m)
             B(i) == Begin(n, m, i)
             Loop(f) == [i \in 0..k |-> CASE i = 0 -> 0
                                          [] i = 1 -> Lesser(n, m)
                                          [] OTHER -> f[i - 1] + ChunkSize(n, m, f[i - 1])]
             start == CHOOSE f : f = Loop(f)
  <1>1. k \in Nat \ {0} /\ c \in Nat \ {0}
    BY CountFacts
  <1>2. Pieces(n, m) = [i \in 0..k - 1 |->
          [start |-> start[i], len |-> start[i + 1] - start[i], no |-> i % Nibble, total |-> k % Nibble]]
    BY DEF Pieces
  <1>3. \A i \in 0..k : B(i) \in Int
    BY <1>1 DEF Begin, Lesser
  <1>4. B(0) = 0 /\ B(1) = Lesser(n, m)
    BY <1>1 DEF Begin
  <1>5. ASSUME NEW i \in 0..k, i # 0, i # 1
        PROVE  B(i) = B(i - 1) + ChunkSize(n, m, B(i - 1))
    <2>1. m + (i - 1) * c = m + (i - 1 - 1) * c + c /\ i \in Int
      BY <1>1
    <2>2. PICK x \in Int : x = m + (i - 1 - 1) * c
      BY <1>1
    <2>3. B(i - 1) = Lesser(n, x) /\ B(i) = Lesser(n, x + c)
      BY <1>1, <1>5, <2>1, <2>2 DEF Begin
    <2> HIDE DEF B
    <2> QED BY <1>1, <2>2, <2>3 DEF Lesser, ChunkSize
  <1> HIDE DEF k, B
  <1>6. [i \in 0..k |-> B(i)] = Loop([i \in 0..k |-> B(i)])
    <2> DEFINE b == [i \in 0..k |-> B(i)]
    <2>1. ASSUME NEW i \in 0..k PROVE b[i] = Loop(b)[i]
      <3>1. CASE i = 0 \/ i = 1
        BY <1>1, <1>4, <3>1
      <3>2. CASE i # 0 /\ i # 1
        <4>1. i - 1 \in 0..k
          BY <1>1, <3>2
        <4> QED BY <1>5, <3>2, <4>1
      <3> QED BY <3>1, <3>2
    <2> QED BY <2>1
  <1>7. start = Loop(start)
    <2>1. \E f : f = Loop(f)
      BY <1>6
    <2> HIDE DEF Loop
    <2> QED BY <2>1
  <1>8. \A i \in 0..k : start[i] = B(i)
    <2> HIDE DEF start
    <2> DEFINE Bad == {i \in 0..k : start[i] # B(i)}
    <2> SUFFICES ASSUME Bad # {} PROVE FALSE
      OBVIOUS
    <2>1. PICK i \in Bad : \A j \in Bad : i <= j
      <3>1. Bad \in SUBSET Nat
        BY <1>1
      <3> HIDE DEF Bad
      <3> QED BY <3>1, MinOf
    <2>2. i \in 0..k /\ start[i] # B(i)
      BY <2>1
    <2>3. start[i] = CASE i = 0 -> 0
                       [] i = 1 -> Lesser(n, m)
                       [] OTHER -> start[i - 1] + ChunkSize(n, m, start[i - 1])
      BY <1>7, <2>2
    <2>4. i # 0 /\ i # 1
      BY <1>4, <2>2, <2>3
    <2>5. i - 1 \in 0..k /\ i - 1 < i /\ ~ (i <= i - 1)
      BY <1>1, <2>2, <2>4
    <2>6. start[i - 1] = B(i - 1)
      BY <2>1, <2>5
    <2>7. start[i] = start[i - 1] + ChunkSize(n, m, start[i - 1])
      BY <2>3, <2>4
    <2> QED BY <1>5, <2>2, <2>4, <2>6, <2>7
  <1>9. \A i \in 0..k - 1 : i \in 0..k /\ i + 1 \in 0..k
    BY <1>1
  <1> HIDE DEF start
  <1>10. Pieces(n, m) = [i \in 0..k - 1 |->
          [start |-> B(i), len |-> B(i + 1) - B(i), no |-> i % Nibble, total |-> k % Nibble]]
    BY <1>2, <1>8, <1>9
  <1> QED BY <1>10 DEF B, k

\* Every piece but the last is full.
LEMMA BeginFacts ==
  ASSUME NEW n \in Nat \ {0}, NEW m \in Nat, m > Header, Header \in Nat
  PROVE  LET k == FragmentCount(n, m)
         IN /\ Begin(n, m, 0) = 0 /\ Begin(n, m, k) = n
            /\ \A i \in 0..k : Begin(n, m, i) \in Int
            /\ \A i \in 0..k - 1 :
                 /\ Begin(n, m, i) < Begin(n, m, i + 1)
                 /\ Begin(n, m, i + 1) - Begin(n, m, i) + (IF i = 0 THEN 0 ELSE Header) <= m
  <1> DEFINE c == m - Header
             k == FragmentCount(n, m)
  <1>1. k \in Nat \ {0} /\ c \in Nat \ {0} /\ n <= m + (k - 1) * c /\ (k > 1 => m + (k - 2) * c < n)
    BY CountFacts
  <1> HIDE DEF k
  <1>2. Begin(n, m, 0) = 0 /\ Begin(n, m, k) = n
    BY <1>1 DEF Begin, Lesser
  <1>3. \A i \in 0..k : Begin(n, m, i) \in Int
    BY <1>1 DEF Begin, Lesser
  <1>4. ASSUME NEW i \in 0..k - 1
        PROVE  /\ Begin(n, m, i) < Begin(n, m, i + 1)
               /\ Begin(n, m, i + 1) - Begin(n, m, i) + (IF i = 0 THEN 0 ELSE Header) <= m
    <2>1. CASE i = 0
      BY <1>1, <2>1 DEF Begin, Lesser
    <2>2. CASE i # 0
      <3>1. i \in Int /\ i > 0 /\ k > 1 /\ i - 1 <= k - 2 /\ i - 1 \in Nat /\ k - 2 \in Nat
        BY <1>1, <2>2
      <3>2. (i - 1) * c <= (k - 2) * c
        BY <1>1, <3>1
      <3>3. PICK x \in Int : x = m + (i - 1) * c
        BY <1>1, <3>1
      <3>4. x < n /\ i * c = (i - 1) * c + c
        BY <1>1, <3>1, <3>2, <3>3
      <3>5. m + (i + 1 - 1) * c = x + c
        BY <1>1, <3>1, <3>3, <3>4
      <3>6. Begin(n, m, i) = Lesser(n, x) /\ Begin(n, m, i + 1) = Lesser(n, x + c)
        BY <2>2, <3>1, <3>3, <3>5 DEF Begin
      <3> QED BY <1>1, <2>2, <3>4, <3>6 DEF Lesser
    <2> QED BY <2>1, <2>2
  <1> QED BY <1>2, <1>3, <1>4 DEF k

\* Of the sizes and MTUs that are considered.
LEMMA CutConstants ==
  ASSUME NEW m \in Mtus, NEW n \in Sizes
  PROVE  n \in Nat \ {0} /\ m \in Nat /\ m > Header /\ Header \in Nat
  BY FragmentsAssumption DEF Sizes

\* The pieces are the packet, and each fits into a datagram.
LEMMA Whole == CutWhole /\ CutFits
  <1> SUFFICES ASSUME NEW m \in Mtus, NEW n \in Sizes
               PROVE  LET p == Pieces(n, m)
                          k == FragmentCount(n, m)
                      IN /\ \A i \in 1..k - 1 : p[i].start = p[i - 1].start + p[i - 1].len
                         /\ p[k - 1].start + p[k - 1].len = n
                         /\ \A i \in DOMAIN p : p[i].len > 0 /\ p[i].len + (IF i = 0 THEN 0 ELSE Header) <= m
    BY DEF CutWhole, CutFits
  <1> DEFINE p == Pieces(n, m)
             k == FragmentCount(n, m)
             B(i) == Begin(n, m, i)
  <1>0. n \in Nat \ {0} /\ m \in Nat /\ m > Header /\ Header \in Nat
    BY CutConstants
  <1>1. k \in Nat \ {0}
    BY <1>0, CountFacts
  <1>2. p = [i \in 0..k - 1 |->
          [start |-> B(i), len |-> B(i + 1) - B(i), no |-> i % Nibble, total |-> k % Nibble]]
    BY <1>0, PiecesAre
  <1>3. /\ B(0) = 0 /\ B(k) = n
        /\ \A i \in 0..k : B(i) \in Int
        /\ \A i \in 0..k - 1 : B(i) < B(i + 1) /\ B(i + 1) - B(i) + (IF i = 0 THEN 0 ELSE Header) <= m
    BY <1>0, BeginFacts
  <1> HIDE DEF p, k, B
  <1>4. ASSUME NEW i \in 0..k - 1
        PROVE  p[i].start = B(i) /\ p[i].len = B(i + 1) - B(i) /\ B(i) \in Int /\ B(i + 1) \in Int
               /\ p[i].start + p[i].len = B(i + 1)
    <2>1. i \in 0..k /\ i + 1 \in 0..k
      BY <1>1
    <2> QED BY <1>2, <1>3, <2>1
  <1>5. \A i \in 1..k - 1 : p[i].start = p[i - 1].start + p[i - 1].len
    <2> TAKE i \in 1..k - 1
    <2>1. i \in 0..k - 1 /\ i - 1 \in 0..k - 1 /\ i - 1 + 1 = i
      BY <1>1
    <2> QED BY <1>4, <2>1
  <1>6. p[k - 1].start + p[k - 1].len = n
    <2>1. k - 1 \in 0..k - 1 /\ k - 1 + 1 = k
      BY <1>1
    <2> QED BY <1>3, <1>4, <2>1
  <1>7. \A i \in DOMAIN p : p[i].len > 0 /\ p[i].len + (IF i = 0 THEN 0 ELSE Header) <= m
    <2> TAKE i \in DOMAIN p
    <2>1. i \in 0..k - 1
      BY <1>2
    <2> QED BY <1>0, <1>3, <1>4, <2>1
  <1> QED BY <1>5, <1>6, <1>7 DEF p, k

\* More than MaxFragments are needed exactly for packets larger than the capacity.
LEMMA CountFits ==
  ASSUME NEW n \in Nat \ {0}, NEW m \in Nat, m > Header, Header \in Nat
  PROVE  FragmentCount(n, m) <= MaxFragments <=> n <= Capacity(m)
  <1> DEFINE c == m - Header
             k == FragmentCount(n, m)
  <1>1. k \in Nat \ {0} /\ c \in Nat \ {0} /\ n <= m + (k - 1) * c /\ (k > 1 => m + (k - 2) * c < n)
    BY CountFacts
  <1>2. MaxFragments \in Nat \ {0}
    BY FragmentsAssumption
  <1> HIDE DEF k
  <1>3. CASE k <= MaxFragments
    <2>1. (k - 1) * c <= (MaxFragments - 1) * c
      BY <1>1, <1>2, <1>3
    <2> QED BY <1>1, <1>2, <1>3, <2>1 DEF Capacity, k
  <1>4. CASE k > MaxFragments
    <2>0. k > 1 /\ k - 2 >= MaxFragments - 1
      BY <1>1, <1>2, <1>4
    <2>1. (MaxFragments - 1) * c <= (k - 2) * c
      BY <1>1, <1>2, <2>0
    <2> QED BY <1>1, <1>2, <1>4, <2>0, <2>1 DEF Capacity, k
  <1> QED BY <1>1, <1>2, <1>3, <1>4

\* As many fragments as the largest packet needs can be counted.
LEMMA CountCounts ==
  ASSUME NEW m \in Mtus, NEW n \in Sizes
  PROVE  FragmentCount(n, m) < Nibble
  <1> DEFINE c == m - Header
             k == FragmentCount(n, m)
  <1>0. n \in Nat \ {0} /\ m \in Nat /\ m > Header /\ Header \in Nat
        /\ Nibble \in Nat /\ Nibble > 1 /\ Largest \in Nat /\ n <= Largest
        /\ Largest <= m + (Nibble - 2) * c
    BY CutConstants, FragmentsAssumption DEF Sizes
  <1>1. k \in Nat \ {0} /\ c \in Nat \ {0} /\ (k > 1 => m + (k - 2) * c < n)
    BY <1>0, CountFacts
  <1> HIDE DEF k, c
  <1> SUFFICES ASSUME k >= Nibble PROVE FALSE
    BY <1>0, <1>1 DEF k
  <1>2. (Nibble - 2) * c <= (k - 2) * c
    BY <1>0, <1>1
  <1>3. (Nibble - 2) * c \in Int /\ (k - 2) * c \in Int
    BY <1>0, <1>1
  <1> QED BY <1>0, <1>1, <1>2, <1>3

\* A receiver takes every fragment of a packet that is not too large, and none of one
\* that is.
LEMMA Accepted == CutAccepted
  <1> SUFFICES ASSUME NEW m \in Mtus, NEW n \in Sizes
               PROVE  LET p == Pieces(n, m)
                          k == FragmentCount(n, m)
                      IN \A i \in 1..k - 1 :
                           p[i].no = i /\ p[i].total = k /\ (Sane(p[i]) <=> n <= Capacity(m))
    BY DEF CutAccepted
  <1> DEFINE p == Pieces(n, m)
             k == FragmentCount(n, m)
  <1>0. n \in Nat \ {0} /\ m \in Nat /\ m > Header /\ Header \in Nat
        /\ MaxFragments \in Nat /\ Nibble \in Nat
    BY CutConstants, FragmentsAssumption
  <1>1. k \in Nat \ {0} /\ k < Nibble /\ (k <= MaxFragments <=> n <= Capacity(m))
    BY <1>0, CountFacts, CountFits, CountCounts
  <1>2. p = [i \in 0..k - 1 |->
          [start |-> Begin(n, m, i), len |-> Begin(n, m, i + 1) - Begin(n, m, i),
           no |-> i % Nibble, total |-> k % Nibble]]
    BY <1>0, PiecesAre
  <1> HIDE DEF p, k
  <1>3. ASSUME NEW i \in 1..k - 1
        PROVE  p[i].no = i /\ p[i].total = k /\ (Sane(p[i]) <=> n <= Capacity(m))
    <2>1. i \in 0..k - 1 /\ i \in Nat /\ i < Nibble /\ k < Nibble /\ i > 0 /\ k > 1 /\ i < k
      BY <1>0, <1>1
    <2>2. i % Nibble = i /\ k % Nibble = k
      BY <1>0, <1>1, <2>1
    <2>3. p[i].no = i /\ p[i].total = k
      BY <1>2, <2>1, <2>2
    <2>4. Sane(p[i]) <=> k <= MaxFragments
      BY <1>0, <1>1, <2>1, <2>3 DEF Sane
    <2> QED BY <1>1, <2>3, <2>4
  <1> QED BY <1>3 DEF p, k

\* Packets up to the capacity of MaxFragments datagrams need no more fragments than
\* onRemotePacket takes, and every larger one does.
THEOREM LargestPacket ==
  \A m \in Mtus : \A n \in Nat \ {0} : FragmentCount(n, m) <= MaxFragments <=> n <= Capacity(m)
  BY CountFits, FragmentsAssumption

\* What _sendViaSpecificPath makes of a packet of any size that fits into the packet
\* buffer, on a path of any MTU that the count of fragments allows, is the packet
\* again for onRemotePacket, which takes all of it or, beyond the capacity of
\* MaxFragments datagrams, nothing but the head.
THEOREM PiecesIntact == Spec => []SentIntact
  <1>1. SentIntact
    BY Whole, Accepted DEF SentIntact
  <1> QED BY <1>1, PTL
=============================================================================
