-------------------------- MODULE MulticastProofs --------------------------
(***************************************************************************)
(* Proofs about Multicast: who is sent a frame, for any members, bridges,  *)
(* frames and origins, any limit and any size of the queue.                *)
(***************************************************************************)
EXTENDS Multicast, SetFacts, SequenceTheorems

\* An entry of the queue.
Tx == [frame: Frames, sentTo: SUBSET Addresses, count: Nat, age: 0..Timeout + MaxLag]

\* The constants are numbers, and the sets of addresses are finite.
LEMMA McConstants ==
  /\ Limit \in Nat \ {0} /\ QueueSize \in Nat \ {0} /\ GatherDelay \in Nat /\ MaxLag \in Nat
  /\ Timeout + MaxLag \in Nat /\ LikeExpire + MaxLag \in Nat /\ Period + MaxLag \in Nat
  /\ Period \in 0..(Period + MaxLag)
  /\ IsFiniteSet(Addresses) /\ Bridges \subseteq Addresses /\ IsFiniteSet(Bridges)
  /\ \A f \in Frames : Origin[f] \in Addresses \cup {None}
  /\ None \notin Addresses
  <1>1. Bridges \subseteq Addresses /\ IsFiniteSet(Addresses)
    BY MulticastAssumption
  <1>2. IsFiniteSet(Bridges)
    BY <1>1, FS_Subset
  <1> QED BY <1>1, <1>2, MulticastAssumption

\* Those that the limit leaves are no more than it, and all when they are less.
LEMMA ChosenFacts ==
  ASSUME NEW S, IsFiniteSet(S), NEW n \in Nat, NEW T \in Chosen(S, n)
  PROVE  /\ T \subseteq S /\ IsFiniteSet(T) /\ Cardinality(T) \in Nat /\ Cardinality(T) <= n
         /\ Cardinality(T) < n => T = S
  <1>1. Cardinality(S) \in Nat
    BY FS_CardinalityType
  <1>2. T \in SUBSET S /\ Cardinality(T) = IF Cardinality(S) < n THEN Cardinality(S) ELSE n
    BY DEF Chosen, kSubset
  <1>3. IsFiniteSet(T) /\ (Cardinality(S) = Cardinality(T) => S = T)
    BY <1>2, FS_Subset
  <1> QED BY <1>1, <1>2, <1>3

\* The recipients of a frame are finitely many, those that are not bridges among
\* them.
LEMMA RecipientFacts ==
  ASSUME NEW R \in SUBSET Addresses
  PROVE  /\ IsFiniteSet(R) /\ Cardinality(R) \in Nat
         /\ \A Q \in SUBSET R : IsFiniteSet(Q) /\ Cardinality(Q) \in Nat /\ Cardinality(Q) <= Cardinality(R)
  <1>1. IsFiniteSet(R)
    BY McConstants, FS_Subset
  <1>2. Cardinality(R) \in Nat
    BY <1>1, FS_CardinalityType
  <1>3. ASSUME NEW Q \in SUBSET R
        PROVE  IsFiniteSet(Q) /\ Cardinality(Q) \in Nat /\ Cardinality(Q) <= Cardinality(R)
    BY <1>1, FS_Subset, FS_CardinalityType
  <1> QED BY <1>1, <1>2, <1>3

\* At first there are no members, and no frame has been sent.
LEMMA InitIInv == Init => IInv
  <1> SUFFICES ASSUME Init PROVE IInv
    OBVIOUS
  <1>1. DOMAIN members = {} /\ members \in [{} -> 0..LikeExpire + MaxLag]
    BY DEF Init
  <1>2. TypeOK
    <2>1. txQueue \in Seq(Tx) /\ Len(txQueue) <= QueueSize
      BY McConstants DEF Init
    <2>2. got \in [Frames -> [Addresses -> Nat]]
      BY DEF Init
    <2>3. 0 \in 0..MaxLag /\ Period \in 0..(Period + MaxLag)
      BY McConstants
    <2>4. bg \in [cleaning: BOOLEAN, lag: 0..MaxLag, since: 0..Period + MaxLag]
      BY <2>3, Zenon DEF Init
    <2>5. gathered \in 0..GatherDelay /\ unsent \subseteq Frames /\ waited \subseteq Frames
      BY DEF Init
    <2> QED BY <1>1, <2>1, <2>2, <2>4, <2>5 DEF TypeOK, Tx, Known
  <1>3. UnsentOK /\ WaitsOnce /\ LogOK /\ NobodyMissed
    BY DEF Init, UnsentOK, WaitsOnce, LogOK, NobodyMissed
  <1>4. ASSUME NEW f \in Frames, NEW a \in Addresses PROVE got[f][a] = 0
    BY DEF Init
  <1>5. SentOnce
    BY <1>4 DEF SentOnce
  <1>6. LimitKept
    <2> SUFFICES ASSUME NEW f \in Frames
                 PROVE  Cardinality({a \in Addresses \ Bridges : got[f][a] > 0}) <= Limit
      BY DEF LimitKept
    <2>1. {a \in Addresses \ Bridges : got[f][a] > 0} = {}
      BY <1>4
    <2> QED BY <2>1, FS_EmptySet, McConstants
  <1> QED BY <1>2, <1>3, <1>5, <1>6 DEF IInv

\* A frame that was not sent before goes to bridges and to others, once to each.
LEMMA SentFacts ==
  ASSUME TypeOK, UnsentOK, NEW f \in unsent, NEW bridges, NEW to,
         bridges \subseteq Addresses, to \subseteq Addresses, bridges \cap to = {}, Sent(f, bridges, to)
  PROVE  /\ got' \in [Frames -> [Addresses -> Nat]]
         /\ \A g \in Frames : g # f => got'[g] = got[g] /\ Recipients(g)' = Recipients(g)
         /\ \A a \in Addresses : got'[f][a] = IF a \in bridges \cup to THEN 1 ELSE 0
         /\ Recipients(f)' = bridges \cup to
  <1>1. f \in Frames /\ got \in [Frames -> [Addresses -> Nat]] /\ \A a \in Addresses : got[f][a] = 0
    BY DEF TypeOK, UnsentOK
  <1>2. got' = [got EXCEPT ![f] = [a \in Addresses |->
            got[f][a] + (IF a \in bridges THEN 1 ELSE 0) + (IF a \in to THEN 1 ELSE 0)]]
    BY <1>1 DEF Sent
  <1>3. ASSUME NEW a \in Addresses
        PROVE  got'[f][a] = IF a \in bridges \cup to THEN 1 ELSE 0
    BY <1>1, <1>2
  <1>4. \A g \in Frames : g # f => got'[g] = got[g] /\ Recipients(g)' = Recipients(g)
    BY <1>1, <1>2 DEF Recipients
  <1>5. got' \in [Frames -> [Addresses -> Nat]]
    BY <1>1, <1>2
  <1>6. Recipients(f)' = bridges \cup to
    BY <1>3 DEF Recipients
  <1> QED BY <1>3, <1>4, <1>5, <1>6

\* When only frame f is sent, and keeps to the limit.
LEMMA SentKeeps ==
  ASSUME TypeOK, SentOnce, LimitKept, NEW f \in Frames,
         got' \in [Frames -> [Addresses -> Nat]],
         \A g \in Frames : g # f => got'[g] = got[g],
         \A a \in Addresses : got'[f][a] <= 1,
         Cardinality({a \in Addresses \ Bridges : got'[f][a] > 0}) <= Limit
  PROVE  SentOnce' /\ LimitKept'
  <1>1. SentOnce'
    <2> SUFFICES ASSUME NEW g \in Frames, NEW a \in Addresses PROVE got'[g][a] <= 1
      BY DEF SentOnce
    <2> QED BY DEF SentOnce
  <1>2. LimitKept'
    <2> SUFFICES ASSUME NEW g \in Frames
                 PROVE  Cardinality({a \in Addresses \ Bridges : got'[g][a] > 0}) <= Limit
      BY DEF LimitKept
    <2>1. CASE g = f
      BY <2>1
    <2>2. CASE g # f
      <3>1. got'[g] = got[g]
        BY <2>2
      <3> QED BY <3>1 DEF LimitKept
    <2> QED BY <2>1, <2>2
  <1> QED BY <1>1, <1>2

\* What waits is an entry.
LEMMA EntryFacts ==
  ASSUME TypeOK
  PROVE  /\ txQueue \in Seq(Tx) /\ DOMAIN txQueue = 1..Len(txQueue) /\ Len(txQueue) \in Nat
         /\ \A i \in DOMAIN txQueue :
              /\ txQueue[i] \in Tx
              /\ txQueue[i].frame \in Frames /\ txQueue[i].sentTo \subseteq Addresses
              /\ txQueue[i].count \in Nat
  <1>1. txQueue \in Seq(Tx)
    BY DEF TypeOK, Tx
  <1>2. \A tx \in Tx : tx.frame \in Frames /\ tx.sentTo \subseteq Addresses /\ tx.count \in Nat
    BY DEF Tx
  <1> QED BY <1>1, <1>2

\* A frame is sent at once to as many members as the limit allows.
LEMMA StepSendDirect ==
  ASSUME IInv, NEW f \in Frames, SendDirect(f)
  PROVE  IInv'
  <1>1. f \in unsent /\ unsent' = unsent \ {f} /\ UNCHANGED <<members, txQueue, gathered, bg, waited>>
    BY DEF SendDirect
  <1>2. PICK to \in Chosen(Others \ {Origin[f]}, Limit) : Sent(f, Bridges \ {Origin[f]}, to)
    BY DEF SendDirect
  <1>3. PICK br : br = Bridges \ {Origin[f]}
    OBVIOUS
  <1>4. /\ TypeOK /\ UnsentOK /\ SentOnce /\ LimitKept /\ LogOK /\ NobodyMissed /\ WaitsOnce
        /\ Known \subseteq Addresses
    BY DEF IInv, TypeOK
  <1>5. /\ to \subseteq Others \ {Origin[f]} /\ IsFiniteSet(to)
        /\ Cardinality(to) \in Nat /\ Cardinality(to) <= Limit
    <2>1. Others \ {Origin[f]} \in SUBSET Addresses
      BY <1>4 DEF Others
    <2>2. IsFiniteSet(Others \ {Origin[f]}) /\ Limit \in Nat
      BY <2>1, RecipientFacts, McConstants
    <2> QED BY <1>2, <2>2, ChosenFacts
  <1>6. br \subseteq Addresses /\ br \subseteq Bridges /\ to \subseteq Addresses /\ to \cap Bridges = {}
        /\ br \cap to = {}
    BY <1>3, <1>4, <1>5, McConstants DEF Others
  <1>7. Sent(f, br, to)
    BY <1>2, <1>3
  <1>8. /\ got' \in [Frames -> [Addresses -> Nat]]
        /\ \A g \in Frames : g # f => got'[g] = got[g] /\ Recipients(g)' = Recipients(g)
        /\ \A a \in Addresses : got'[f][a] = IF a \in br \cup to THEN 1 ELSE 0
        /\ Recipients(f)' = br \cup to
    BY <1>1, <1>4, <1>6, <1>7, SentFacts
  <1>9. TypeOK'
    BY <1>1, <1>4, <1>8 DEF TypeOK, Known
  <1>10. UnsentOK'
    BY <1>1, <1>4, <1>8 DEF UnsentOK, TypeOK
  <1>11. WaitsOnce'
    BY <1>1, <1>4 DEF WaitsOnce
  <1>12. ASSUME NEW i \in DOMAIN txQueue
         PROVE  /\ txQueue[i].frame \in Frames /\ txQueue[i].frame # f
                /\ got'[txQueue[i].frame] = got[txQueue[i].frame]
                /\ Recipients(txQueue[i].frame)' = Recipients(txQueue[i].frame)
    <2>1. txQueue[i].frame \in Frames /\ txQueue[i].frame # f
      BY <1>1, <1>4, EntryFacts DEF LogOK
    <2>2. PICK g \in Frames : g = txQueue[i].frame
      BY <2>1
    <2>3. got'[g] = got[g] /\ txQueue' = txQueue
      BY <1>1, <1>8, <2>1, <2>2
    <2> QED BY <2>1, <2>2, <2>3 DEF Recipients
  <1>13. LogOK'
    BY <1>1, <1>4, <1>12 DEF LogOK, Recipients
  <1>14. NobodyMissed'
    BY <1>1, <1>4, <1>12 DEF NobodyMissed, AtLimit, Known
  <1>15. SentOnce' /\ LimitKept'
    <2>1. \A a \in Addresses : got'[f][a] <= 1
      BY <1>8
    <2>2. {a \in Addresses \ Bridges : got'[f][a] > 0} = to
      BY <1>6, <1>8
    <2> QED BY <1>4, <1>5, <1>8, <2>1, <2>2, SentKeeps
  <1> QED BY <1>9, <1>10, <1>11, <1>13, <1>14, <1>15 DEF IInv

\* The queue keeps its last entries when it has no room.
LEMMA RoomFacts ==
  ASSUME TypeOK
  PROVE  LET q == Room(txQueue)
             d == Len(txQueue) - Len(q)
         IN /\ q \in Seq(Tx) /\ Len(q) \in Nat /\ Len(q) + 1 <= QueueSize /\ d \in Nat
            /\ d = 0 \/ (d = 1 /\ Len(txQueue) = QueueSize)
            /\ \A i \in 1..Len(q) : i + d \in DOMAIN txQueue /\ q[i] = txQueue[i + d]
  <1>1. /\ txQueue \in Seq(Tx) /\ Len(txQueue) \in Nat /\ Len(txQueue) <= QueueSize
        /\ DOMAIN txQueue = 1..Len(txQueue) /\ QueueSize \in Nat \ {0}
    BY EntryFacts, McConstants DEF TypeOK
  <1>2. CASE Len(txQueue) < QueueSize
    <2>1. Room(txQueue) = txQueue
      BY <1>2 DEF Room
    <2> QED BY <1>1, <1>2, <2>1
  <1>3. CASE ~ (Len(txQueue) < QueueSize)
    <2> DEFINE L == Len(txQueue)
               q == SubSeq(txQueue, 2, L)
    <2>0. L \in Int /\ QueueSize \in Int /\ L <= QueueSize /\ ~ (L < QueueSize)
      BY <1>1, <1>3
    <2>1. L = QueueSize /\ L - QueueSize + 2 = 2
      <3> HIDE DEF L
      <3> QED BY <2>0
    <2>2. Room(txQueue) = q
      BY <1>3, <2>1 DEF Room
    <2>3. /\ q \in Seq(Tx) /\ Len(q) = (IF 2 <= L THEN L - 2 + 1 ELSE 0)
          /\ \A i \in 1..L - 2 + 1 : q[i] = txQueue[2 + i - 1]
      <3>1. L \in Int /\ 2 \in Int /\ \A i \in 2..L : txQueue[i] \in Tx
        BY <1>1
      <3> HIDE DEF L
      <3> QED BY <3>1, SubSeqProperties
    <2>4. Len(q) = L - 1
      BY <1>1, <2>1, <2>3
    <2> HIDE DEF L, q
    <2>5. ASSUME NEW i \in 1..Len(q)
          PROVE  i + (L - Len(q)) \in 1..L /\ q[i] = txQueue[i + (L - Len(q))]
      <3>1. L \in Nat
        BY <1>1 DEF L
      <3>2. i + (L - Len(q)) = 2 + i - 1 /\ i \in 1..L - 2 + 1 /\ i + (L - Len(q)) \in 1..L
        BY <2>4, <3>1
      <3> QED BY <2>3, <3>2
    <2>6. L \in Nat \ {0} /\ L = QueueSize
      BY <1>1, <2>1 DEF L
    <2>7. Len(q) \in Nat /\ Len(q) + 1 <= QueueSize /\ L - Len(q) \in Nat /\ L - Len(q) = 1
      BY <2>4, <2>6
    <2> QED BY <1>1, <2>2, <2>3, <2>5, <2>6, <2>7 DEF L
  <1> QED BY <1>2, <1>3

\* A frame is sent to the members that are known, and waits for others.
LEMMA StepSendQueued ==
  ASSUME IInv, NEW f \in Frames, SendQueued(f)
  PROVE  IInv'
  <1>1. PICK br \in Chosen(Bridges, Limit) : \E to \in Chosen(Others, Limit - Cardinality(br)) :
           /\ Sent(f, br, to)
           /\ txQueue' = Append(Room(txQueue),
                [frame |-> f, sentTo |-> br \cup to \cup ({Origin[f]} \ {None}),
                 count |-> Cardinality(br \cup to) + Cardinality({Origin[f]} \ {None}), age |-> 0])
    BY DEF SendQueued
  <1>2. PICK to \in Chosen(Others, Limit - Cardinality(br)) :
           /\ Sent(f, br, to)
           /\ txQueue' = Append(Room(txQueue),
                [frame |-> f, sentTo |-> br \cup to \cup ({Origin[f]} \ {None}),
                 count |-> Cardinality(br \cup to) + Cardinality({Origin[f]} \ {None}), age |-> 0])
    BY <1>1
  <1>3. /\ f \in unsent /\ unsent' = unsent \ {f} /\ UNCHANGED <<members, bg, waited>>
        /\ gathered' \in {0, gathered}
    BY DEF SendQueued
  <1>4. /\ TypeOK /\ UnsentOK /\ SentOnce /\ LimitKept /\ LogOK /\ NobodyMissed /\ WaitsOnce
        /\ Known \subseteq Addresses
    BY DEF IInv, TypeOK
  <1>5. /\ br \subseteq Bridges /\ IsFiniteSet(br) /\ Cardinality(br) \in Nat /\ Cardinality(br) <= Limit
        /\ Cardinality(br) < Limit => br = Bridges
    BY McConstants, ChosenFacts
  <1>6. PICK n \in Nat : n = Limit - Cardinality(br)
    BY <1>5, McConstants
  <1>7. /\ to \subseteq Others /\ IsFiniteSet(to) /\ Cardinality(to) \in Nat /\ Cardinality(to) <= n
        /\ Cardinality(to) < n => to = Others
    <2>1. Others \in SUBSET Addresses
      BY <1>4 DEF Others
    <2>2. IsFiniteSet(Others)
      BY <2>1, RecipientFacts
    <2> QED BY <1>6, <2>2, ChosenFacts
  <1>8. br \subseteq Addresses /\ to \subseteq Addresses /\ br \cap to = {} /\ to \cap Bridges = {}
    BY <1>4, <1>5, <1>7, McConstants DEF Others
  <1>9. /\ got' \in [Frames -> [Addresses -> Nat]]
        /\ \A g \in Frames : g # f => got'[g] = got[g] /\ Recipients(g)' = Recipients(g)
        /\ \A a \in Addresses : got'[f][a] = IF a \in br \cup to THEN 1 ELSE 0
        /\ Recipients(f)' = br \cup to
    BY <1>2, <1>3, <1>4, <1>8, SentFacts
  <1>10. PICK c \in Nat : c = Cardinality({Origin[f]} \ {None})
    <2>1. IsFiniteSet({Origin[f]})
      BY FS_Singleton
    <2> QED BY <2>1, FS_Subset, FS_CardinalityType
  <1>11. Cardinality(br \cup to) = Cardinality(br) + Cardinality(to)
    BY <1>5, <1>7, <1>8, FS_Union, FS_EmptySet
  <1>12. PICK tx : tx = [frame |-> f, sentTo |-> br \cup to \cup ({Origin[f]} \ {None}),
                         count |-> Cardinality(br \cup to) + c, age |-> 0]
    OBVIOUS
  <1>13. /\ tx \in Tx /\ tx.frame = f /\ tx.sentTo = br \cup to \cup ({Origin[f]} \ {None})
         /\ tx.count = Cardinality(br) + Cardinality(to) + c
    <2>1. 0 \in 0..(Timeout + MaxLag)
      BY McConstants
    <2>2. br \cup to \cup ({Origin[f]} \ {None}) \in SUBSET Addresses
      BY <1>8, McConstants
    <2>3. Cardinality(br \cup to) + c \in Nat
      BY <1>5, <1>7, <1>10, <1>11
    <2> QED BY <1>11, <1>12, <2>1, <2>2, <2>3 DEF Tx
  <1>14. PICK q : q = Room(txQueue)
    OBVIOUS
  <1>15. PICK d : d = Len(txQueue) - Len(q)
    OBVIOUS
  <1>16. /\ q \in Seq(Tx) /\ Len(q) \in Nat /\ Len(q) + 1 <= QueueSize /\ d \in Nat
         /\ \A i \in 1..Len(q) : i + d \in DOMAIN txQueue /\ q[i] = txQueue[i + d]
    BY <1>4, <1>14, <1>15, RoomFacts
  <1>17. /\ txQueue' \in Seq(Tx) /\ Len(txQueue') = Len(q) + 1 /\ Len(txQueue') <= QueueSize
         /\ DOMAIN txQueue' = 1..Len(q) + 1 /\ txQueue'[Len(q) + 1] = tx
         /\ \A i \in 1..Len(q) : txQueue'[i] = q[i]
    <2>1. txQueue' = Append(q, tx)
      BY <1>2, <1>10, <1>12, <1>14
    <2> QED BY <1>13, <1>16, <2>1
  <1>18. ASSUME NEW i \in DOMAIN txQueue'
         PROVE  \/ i = Len(q) + 1 /\ txQueue'[i] = tx
                \/ i # Len(q) + 1 /\ i + d \in DOMAIN txQueue /\ txQueue'[i] = txQueue[i + d]
    BY <1>16, <1>17
  <1>19. ASSUME NEW i \in DOMAIN txQueue PROVE txQueue[i].frame \in Frames /\ txQueue[i].frame # f
    BY <1>3, <1>4, EntryFacts DEF LogOK
  <1>20. TypeOK'
    <2>1. gathered' \in 0..GatherDelay
      BY <1>3, <1>4, McConstants DEF TypeOK
    <2> QED BY <1>3, <1>4, <1>9, <1>17, <2>1 DEF TypeOK, Known, Tx
  <1>21. UnsentOK'
    BY <1>3, <1>4, <1>9 DEF UnsentOK, TypeOK
  <1>22. WaitsOnce'
    <2> SUFFICES ASSUME NEW i \in DOMAIN txQueue', NEW j \in DOMAIN txQueue',
                        txQueue'[i].frame = txQueue'[j].frame
                 PROVE  i = j
      BY DEF WaitsOnce
    <2>1. CASE txQueue'[i].frame = f
      BY <1>13, <1>18, <1>19, <2>1
    <2>2. CASE txQueue'[i].frame # f
      <3>1. i + d \in DOMAIN txQueue /\ j + d \in DOMAIN txQueue /\ txQueue[i + d].frame = txQueue[j + d].frame
        BY <1>13, <1>18, <2>2
      <3>2. i + d = j + d
        BY <1>4, <3>1 DEF WaitsOnce
      <3>3. i \in Int /\ j \in Int /\ \A x, y \in Int : x + d = y + d => x = y
        BY <1>16, <1>17
      <3> QED BY <3>2, <3>3
    <2> QED BY <2>1, <2>2
  <1>23. LogOK' /\ NobodyMissed'
    <2> SUFFICES ASSUME NEW i \in DOMAIN txQueue', NEW g \in Frames, g = txQueue'[i].frame
                 PROVE  /\ g \notin unsent'
                        /\ Recipients(g)' \subseteq txQueue'[i].sentTo
                        /\ txQueue'[i].sentTo \subseteq Recipients(g)' \cup {Origin[g]}
                        /\ Cardinality(Recipients(g)') <= txQueue'[i].count
                        /\ txQueue'[i].count >= Limit
                           \/ \A a \in Known' : got'[g][a] > 0 \/ a = Origin[g]
      <3>1. \A i \in DOMAIN txQueue' : txQueue'[i].frame \in Frames
        BY <1>13, <1>18, <1>19
      <3> QED BY <3>1 DEF LogOK, NobodyMissed, AtLimit, Recipients
    <2>1. CASE i = Len(q) + 1
      <3>1. txQueue'[i] = tx /\ g = f
        BY <1>13, <1>17, <2>1
      <3>2. tx.count < Limit => \A a \in Known' : got'[f][a] > 0 \/ a = Origin[f]
        <4> SUFFICES ASSUME tx.count < Limit PROVE \A a \in Known : got'[f][a] > 0
          BY <1>3 DEF Known
        <4>1. br = Bridges /\ to = Others
          BY <1>5, <1>6, <1>7, <1>10, <1>13, McConstants
        <4> QED BY <1>4, <1>9, <4>1 DEF Others
      <3>3. tx.count \in Nat /\ Limit \in Nat
        BY <1>5, <1>7, <1>10, <1>13, McConstants
      <3>4. Cardinality(br \cup to) <= tx.count
        BY <1>5, <1>7, <1>10, <1>11, <1>13
      <3>5. f \notin unsent' /\ Recipients(f)' = br \cup to
        BY <1>3, <1>9
      <3>6. br \cup to \subseteq tx.sentTo /\ tx.sentTo \subseteq br \cup to \cup {Origin[f]}
        BY <1>13
      <3>7. tx.count >= Limit \/ tx.count < Limit
        BY <3>3
      <3> QED BY <3>1, <3>2, <3>4, <3>5, <3>6, <3>7
    <2>2. CASE i # Len(q) + 1
      <3>1. i + d \in DOMAIN txQueue /\ txQueue'[i] = txQueue[i + d] /\ g # f
        BY <1>18, <1>19, <2>2
      <3>2. got'[g] = got[g] /\ Recipients(g)' = Recipients(g)
        BY <1>9, <3>1
      <3>3. PICK k \in DOMAIN txQueue : txQueue'[i] = txQueue[k] /\ txQueue[k].frame = g
        BY <3>1
      <3>4. /\ g \notin unsent /\ Recipients(g) \subseteq txQueue[k].sentTo
            /\ txQueue[k].sentTo \subseteq Recipients(g) \cup {Origin[g]}
            /\ Cardinality(Recipients(g)) <= txQueue[k].count
        BY <1>4, <3>3 DEF LogOK
      <3>5. txQueue[k].count >= Limit \/ \A a \in Known : got[g][a] > 0 \/ a = Origin[g]
        BY <1>4, <3>3 DEF NobodyMissed, AtLimit
      <3>6. Known' = Known /\ g \notin unsent'
        BY <1>3, <3>4 DEF Known
      <3> QED BY <3>2, <3>3, <3>4, <3>5, <3>6
    <2> QED BY <2>1, <2>2
  <1>24. SentOnce' /\ LimitKept'
    <2>1. \A a \in Addresses : got'[f][a] <= 1
      BY <1>9
    <2>2. {a \in Addresses \ Bridges : got'[f][a] > 0} = to
      BY <1>5, <1>8, <1>9
    <2>3. Cardinality(to) <= Limit
      BY <1>5, <1>6, <1>7, McConstants
    <2> QED BY <1>4, <1>9, <2>1, <2>2, <2>3, SentKeeps
  <1> QED BY <1>20, <1>21, <1>22, <1>23, <1>24 DEF IInv

\* Entries leave the queue, and members go: what is said of the others still holds.
\* Entry j of the new queue is entry h[j] of the old one, but for its age.
LEMMA LessKeeps ==
  ASSUME IInv, UNCHANGED <<unsent, got>>, TypeOK', Known' \subseteq Known,
         NEW h \in [DOMAIN txQueue' -> DOMAIN txQueue],
         \A j \in DOMAIN txQueue' : /\ txQueue'[j].frame = txQueue[h[j]].frame
                                    /\ txQueue'[j].sentTo = txQueue[h[j]].sentTo
                                    /\ txQueue'[j].count = txQueue[h[j]].count,
         \A j, k \in DOMAIN txQueue' : h[j] = h[k] => j = k
  PROVE  IInv'
  <1>1. UnsentOK' /\ SentOnce' /\ LimitKept'
    BY DEF IInv, UnsentOK, SentOnce, LimitKept
  <1>2. WaitsOnce'
    BY DEF IInv, WaitsOnce
  <1>3. LogOK'
    <2> SUFFICES ASSUME NEW j \in DOMAIN txQueue'
                 PROVE  LET tx == txQueue'[j] IN
                        /\ tx.frame \notin unsent
                        /\ Recipients(tx.frame) \subseteq tx.sentTo
                        /\ tx.sentTo \subseteq Recipients(tx.frame) \cup {Origin[tx.frame]}
                        /\ Cardinality(Recipients(tx.frame)) <= tx.count
      BY DEF LogOK, Recipients
    <2> QED BY DEF IInv, LogOK
  <1>4. NobodyMissed'
    BY DEF IInv, NobodyMissed, AtLimit
  <1> QED BY <1>1, <1>2, <1>3, <1>4 DEF IInv

\* What is left of a queue.
LEMMA ErasedKeeps ==
  ASSUME IInv, UNCHANGED <<unsent, got>>, Known' \subseteq Known, NEW I, txQueue' = EraseAt(txQueue, I),
         txQueue' \in Seq(Tx) /\ Len(txQueue') <= QueueSize => TypeOK'
  PROVE  IInv'
  <1>1. txQueue \in Seq(Tx) /\ Len(txQueue) <= QueueSize /\ Len(txQueue) \in Nat /\ QueueSize \in Nat
    BY EntryFacts, McConstants DEF IInv, TypeOK
  <1>2. /\ txQueue' \in Seq(Tx) /\ Len(txQueue') <= Len(txQueue) /\ DOMAIN txQueue' = 1..Len(txQueue')
        /\ \E h \in [DOMAIN txQueue' -> DOMAIN txQueue \ I] :
             /\ \A j \in DOMAIN txQueue' : txQueue'[j] = txQueue[h[j]]
             /\ \A j, k \in DOMAIN txQueue' : h[j] = h[k] => j = k
    BY <1>1, EraseAtFacts
  <1>3. PICK h \in [DOMAIN txQueue' -> DOMAIN txQueue \ I] :
             /\ \A j \in DOMAIN txQueue' : txQueue'[j] = txQueue[h[j]]
             /\ \A j, k \in DOMAIN txQueue' : h[j] = h[k] => j = k
    BY <1>2
  <1>4. Len(txQueue') \in Nat
    BY <1>2
  <1>5. Len(txQueue') <= QueueSize
    BY <1>1, <1>2, <1>4
  <1>6. TypeOK'
    BY <1>2, <1>5
  <1>7. h \in [DOMAIN txQueue' -> DOMAIN txQueue]
    BY <1>3
  <1> QED BY <1>3, <1>6, <1>7, LessKeeps

\* sendIfNew, for one frame: it is sent when its entry allows it.
LEMMA ServeFacts ==
  ASSUME TypeOK, WaitsOnce, NEW a \in Addresses, Serve(a), NEW f \in Frames
  PROVE  \E s \in {0, 1} :
           /\ s = 1 <=> \E i \in DOMAIN txQueue : txQueue[i].frame = f /\ Sendable(txQueue[i], a)
           /\ got'[f] = [got[f] EXCEPT ![a] = @ + s]
           /\ got'[f] \in [Addresses -> Nat]
  <1> DEFINE out == {tx \in ToSet(txQueue) : Sendable(tx, a)}
             mine == {tx \in out : tx.frame = f}
             s == Cardinality(mine)
  <1>1. got \in [Frames -> [Addresses -> Nat]]
    BY DEF TypeOK
  <1>2. got'[f] = [got[f] EXCEPT ![a] = @ + s]
    BY DEF Serve
  <1>3. mine = {} => s = 0
    BY FS_EmptySet
  <1>4. mine # {} => s = 1
    <2> SUFFICES ASSUME NEW tx \in mine PROVE s = 1
      OBVIOUS
    <2>1. \A ty \in mine : ty = tx
      BY DEF ToSet, WaitsOnce
    <2>2. mine = {tx}
      BY <2>1
    <2> HIDE DEF mine
    <2> QED BY <2>2, FS_Singleton
  <1>5. mine # {} <=> \E i \in DOMAIN txQueue : txQueue[i].frame = f /\ Sendable(txQueue[i], a)
    BY DEF ToSet
  <1> HIDE DEF mine
  <1>6. s \in {0, 1}
    BY <1>3, <1>4
  <1>7. got'[f] \in [Addresses -> Nat]
    BY <1>1, <1>2, <1>6
  <1> QED BY <1>2, <1>3, <1>4, <1>5, <1>6, <1>7

\* What serving a new member does to the recipients of a frame that waits.
LEMMA ServedEntry ==
  ASSUME IInv, NEW a \in Addresses, Serve(a), NEW i \in DOMAIN txQueue, NEW f \in Frames,
         f = txQueue[i].frame
  PROVE  /\ Sendable(txQueue[i], a) =>
              /\ a \notin Recipients(f) /\ Recipients(f)' = Recipients(f) \cup {a}
              /\ Cardinality(Recipients(f)') <= txQueue[i].count + 1 /\ txQueue[i].count < Limit
              /\ got'[f][a] = 1 /\ \A b \in Addresses : b # a => got'[f][b] = got[f][b]
         /\ ~ Sendable(txQueue[i], a) => Recipients(f)' = Recipients(f) /\ got'[f] = got[f]
  <1>1. PICK s \in {0, 1} :
           /\ s = 1 <=> \E j \in DOMAIN txQueue : txQueue[j].frame = f /\ Sendable(txQueue[j], a)
           /\ got'[f] = [got[f] EXCEPT ![a] = @ + s]
           /\ got'[f] \in [Addresses -> Nat]
    BY ServeFacts DEF IInv
  <1>2. s = 1 <=> Sendable(txQueue[i], a)
    BY <1>1 DEF IInv, WaitsOnce
  <1>3. got[f] \in [Addresses -> Nat] /\ txQueue[i].count \in Nat /\ Limit \in Nat
    BY EntryFacts, McConstants DEF IInv, TypeOK
  <1>4. CASE Sendable(txQueue[i], a)
    <2>1. a \notin txQueue[i].sentTo /\ txQueue[i].count < Limit
      BY <1>3, <1>4 DEF Sendable, AtLimit
    <2>2. a \notin Recipients(f) /\ Cardinality(Recipients(f)) <= txQueue[i].count
      BY <2>1 DEF IInv, LogOK
    <2>3. got[f][a] = 0
      BY <1>3, <2>2 DEF Recipients
    <2>4. got'[f][a] = 1 /\ \A b \in Addresses : b # a => got'[f][b] = got[f][b]
      BY <1>1, <1>2, <1>3, <1>4, <2>3
    <2>5. Recipients(f)' = Recipients(f) \cup {a}
      BY <2>4 DEF Recipients
    <2>6. Recipients(f) \in SUBSET Addresses
      BY DEF Recipients
    <2>7. IsFiniteSet(Recipients(f)) /\ Cardinality(Recipients(f)) \in Nat
      BY <2>6, RecipientFacts
    <2>8. Cardinality(Recipients(f) \cup {a}) = Cardinality(Recipients(f)) + 1
      BY <2>2, <2>7, FS_AddElement
    <2> QED BY <1>3, <1>4, <2>1, <2>2, <2>4, <2>5, <2>7, <2>8
  <1>5. CASE ~ Sendable(txQueue[i], a)
    <2>1. got'[f] = got[f]
      BY <1>1, <1>2, <1>3, <1>5
    <2> QED BY <1>5, <2>1 DEF Recipients
  <1> QED BY <1>4, <1>5

\* A LIKE makes a member young, and known.
LEMMA AddedFacts ==
  ASSUME TypeOK, NEW a \in Addresses, Add(a)
  PROVE  /\ Known' = Known \cup {a} /\ Known' \subseteq Addresses
         /\ members' \in [Known' -> 0..LikeExpire + MaxLag]
  <1>1. members \in [Known -> 0..LikeExpire + MaxLag] /\ Known \subseteq Addresses
    BY DEF TypeOK
  <1>2. members' = [b \in Known \cup {a} |-> IF b = a THEN 0 ELSE members[b]]
    BY DEF Add
  <1>3. 0 \in 0..LikeExpire + MaxLag
    BY McConstants
  <1>4. Known' = Known \cup {a}
    BY <1>2 DEF Known
  <1>5. ASSUME NEW b \in Known' PROVE members'[b] \in 0..LikeExpire + MaxLag
    BY <1>1, <1>2, <1>3, <1>4
  <1>6. members' = [b \in Known' |-> members'[b]]
    BY <1>2, <1>4
  <1> QED BY <1>1, <1>4, <1>5, <1>6

\* A new member is sent the frames that wait for it and have not reached their limit.
LEMMA StepServe ==
  ASSUME IInv, NEW a \in Addresses, Add(a), Serve(a)
  PROVE  IInv'
  <1>0. /\ TypeOK /\ UnsentOK /\ SentOnce /\ LimitKept /\ LogOK /\ NobodyMissed /\ WaitsOnce
        /\ UNCHANGED <<gathered, unsent, bg, waited>>
    BY DEF IInv, Add
  <1>1. /\ Known' = Known \cup {a} /\ Known' \subseteq Addresses
        /\ members' \in [Known' -> 0..LikeExpire + MaxLag]
    BY <1>0, AddedFacts
  <1>2. PICK served : served = [i \in DOMAIN txQueue |-> SendIfNew(txQueue[i], a)]
    OBVIOUS
  <1>3. PICK I : I = {i \in DOMAIN served : AtLimit(served[i])}
    OBVIOUS
  <1>4. txQueue' = EraseAt(served, I)
    BY <1>2, <1>3 DEF Serve
  <1>5. /\ txQueue \in Seq(Tx) /\ DOMAIN txQueue = 1..Len(txQueue) /\ Len(txQueue) \in Nat
        /\ Len(txQueue) <= QueueSize /\ QueueSize \in Nat
    BY <1>0, EntryFacts, McConstants DEF TypeOK
  <1>6. ASSUME NEW i \in DOMAIN txQueue
        PROVE  /\ served[i] \in Tx /\ served[i].frame = txQueue[i].frame /\ txQueue[i].frame \in Frames
               /\ Sendable(txQueue[i], a) => /\ served[i].sentTo = txQueue[i].sentTo \cup {a}
                                             /\ served[i].count = txQueue[i].count + 1
               /\ ~ Sendable(txQueue[i], a) => served[i] = txQueue[i]
    <2>1. txQueue[i] \in Tx /\ txQueue[i].frame \in Frames /\ served[i] = SendIfNew(txQueue[i], a)
      BY <1>0, <1>2, EntryFacts
    <2>2. CASE Sendable(txQueue[i], a)
      <3>1. served[i] = [txQueue[i] EXCEPT !.sentTo = @ \cup {a}, !.count = @ + 1]
        BY <2>1, <2>2 DEF SendIfNew
      <3>2. txQueue[i].sentTo \cup {a} \in SUBSET Addresses /\ txQueue[i].count + 1 \in Nat
        BY <2>1 DEF Tx
      <3>3. /\ served[i] \in Tx /\ served[i].frame = txQueue[i].frame
            /\ served[i].sentTo = txQueue[i].sentTo \cup {a} /\ served[i].count = txQueue[i].count + 1
        BY <2>1, <3>1, <3>2 DEF Tx
      <3> QED BY <2>1, <2>2, <3>3
    <2>3. CASE ~ Sendable(txQueue[i], a)
      BY <2>1, <2>3 DEF SendIfNew
    <2> QED BY <2>2, <2>3
  <1>7. served \in Seq(Tx) /\ Len(served) = Len(txQueue) /\ DOMAIN served = DOMAIN txQueue
    <2>1. served = [i \in 1..Len(txQueue) |-> served[i]]
      BY <1>2, <1>5
    <2> QED BY <1>5, <1>6, <2>1
  <1>8. /\ txQueue' \in Seq(Tx) /\ Len(txQueue') <= Len(served) /\ DOMAIN txQueue' = 1..Len(txQueue')
        /\ \E h \in [DOMAIN txQueue' -> DOMAIN served \ I] :
             /\ \A j \in DOMAIN txQueue' : txQueue'[j] = served[h[j]]
             /\ \A j, k \in DOMAIN txQueue' : h[j] = h[k] => j = k
    BY <1>4, <1>7, EraseAtFacts
  <1>9. PICK h \in [DOMAIN txQueue' -> DOMAIN served \ I] :
             /\ \A j \in DOMAIN txQueue' : txQueue'[j] = served[h[j]]
             /\ \A j, k \in DOMAIN txQueue' : h[j] = h[k] => j = k
    BY <1>8
  <1>10. got' \in [Frames -> [Addresses -> Nat]]
    <2>1. got' = [f \in Frames |-> got'[f]]
      BY DEF Serve
    <2>2. \A f \in Frames : got'[f] \in [Addresses -> Nat]
      BY <1>0, ServeFacts
    <2> QED BY <2>1, <2>2
  <1>11. TypeOK'
    <2>1. Len(txQueue') \in Nat
      BY <1>8
    <2>2. Len(txQueue') <= QueueSize
      BY <1>5, <1>7, <1>8, <2>1
    <2> QED BY <1>0, <1>1, <1>8, <1>10, <2>2 DEF TypeOK, Tx
  <1>12. ASSUME NEW f \in Frames
         PROVE  \/ /\ got'[f] = got[f]
                   /\ \A i \in DOMAIN txQueue : txQueue[i].frame = f => ~ Sendable(txQueue[i], a)
                \/ \E i \in DOMAIN txQueue : txQueue[i].frame = f /\ Sendable(txQueue[i], a)
    <2>1. PICK s \in {0, 1} :
           /\ s = 1 <=> \E i \in DOMAIN txQueue : txQueue[i].frame = f /\ Sendable(txQueue[i], a)
           /\ got'[f] = [got[f] EXCEPT ![a] = @ + s]
      BY <1>0, ServeFacts
    <2>2. got[f] \in [Addresses -> Nat]
      BY <1>0 DEF TypeOK
    <2> QED BY <2>1, <2>2
  <1>13. UnsentOK'
    <2> SUFFICES ASSUME NEW f \in unsent, NEW b \in Addresses PROVE got'[f][b] = 0
      BY <1>0 DEF UnsentOK
    <2>1. f \in Frames /\ \A i \in DOMAIN txQueue : txQueue[i].frame # f
      BY <1>0 DEF TypeOK, LogOK
    <2> QED BY <1>0, <1>12, <2>1 DEF UnsentOK
  <1>14. SentOnce'
    <2> SUFFICES ASSUME NEW f \in Frames, NEW b \in Addresses PROVE got'[f][b] <= 1
      BY DEF SentOnce
    <2>1. got[f][b] <= 1
      BY <1>0 DEF SentOnce
    <2>2. CASE got'[f] = got[f]
      BY <2>1, <2>2
    <2>3. CASE \E i \in DOMAIN txQueue : txQueue[i].frame = f /\ Sendable(txQueue[i], a)
      <3>1. got'[f][a] = 1 /\ (b # a => got'[f][b] = got[f][b])
        BY <2>3, ServedEntry
      <3> QED BY <2>1, <3>1
    <2> QED BY <1>12, <2>2, <2>3
  <1>15. LimitKept'
    <2> SUFFICES ASSUME NEW f \in Frames
                 PROVE  Cardinality({b \in Addresses \ Bridges : got'[f][b] > 0}) <= Limit
      BY DEF LimitKept
    <2>1. CASE got'[f] = got[f]
      BY <1>0, <2>1 DEF LimitKept
    <2>2. CASE \E i \in DOMAIN txQueue : txQueue[i].frame = f /\ Sendable(txQueue[i], a)
      <3>1. PICK i \in DOMAIN txQueue : txQueue[i].frame = f /\ Sendable(txQueue[i], a)
        BY <2>2
      <3>2. Cardinality(Recipients(f)') <= txQueue[i].count + 1 /\ txQueue[i].count < Limit
        BY <3>1, ServedEntry
      <3>3. PICK R : R = Recipients(f)'
        OBVIOUS
      <3>4. R \in SUBSET Addresses /\ {b \in Addresses \ Bridges : got'[f][b] > 0} \in SUBSET R
        BY <3>3 DEF Recipients
      <3>5. /\ Cardinality(R) \in Nat
            /\ Cardinality({b \in Addresses \ Bridges : got'[f][b] > 0}) <= Cardinality(R)
            /\ Cardinality({b \in Addresses \ Bridges : got'[f][b] > 0}) \in Nat
        BY <3>4, RecipientFacts
      <3>6. txQueue[i].count \in Nat /\ Limit \in Nat
        BY <1>0, EntryFacts, McConstants
      <3> QED BY <3>2, <3>3, <3>5, <3>6
    <2> QED BY <1>12, <2>1, <2>2
  <1>16. WaitsOnce'
    <2> SUFFICES ASSUME NEW j \in DOMAIN txQueue', NEW k \in DOMAIN txQueue',
                        txQueue'[j].frame = txQueue'[k].frame
                 PROVE  j = k
      BY DEF WaitsOnce
    <2>1. h[j] \in DOMAIN txQueue /\ h[k] \in DOMAIN txQueue
      BY <1>7, <1>9
    <2>2. txQueue[h[j]].frame = txQueue[h[k]].frame
      BY <1>6, <1>9, <2>1
    <2> QED BY <1>0, <1>9, <2>1, <2>2 DEF WaitsOnce
  <1>17. LogOK' /\ NobodyMissed'
    <2> SUFFICES ASSUME NEW j \in DOMAIN txQueue', NEW f \in Frames, f = txQueue'[j].frame
                 PROVE  /\ f \notin unsent'
                        /\ Recipients(f)' \subseteq txQueue'[j].sentTo
                        /\ txQueue'[j].sentTo \subseteq Recipients(f)' \cup {Origin[f]}
                        /\ Cardinality(Recipients(f)') <= txQueue'[j].count
                        /\ \A b \in Known' : got'[f][b] > 0 \/ b = Origin[f]
      <3>1. \A k \in DOMAIN txQueue' : txQueue'[k].frame \in Frames
        <4>1. \A tx \in Tx : tx.frame \in Frames
          BY DEF Tx
        <4> QED BY <1>8, <4>1
      <3> QED BY <3>1 DEF LogOK, NobodyMissed, Recipients
    <2>1. PICK i \in DOMAIN txQueue : i \notin I /\ txQueue'[j] = served[i]
      BY <1>7, <1>9
    <2>2. txQueue[i].frame = f /\ ~ AtLimit(served[i])
      BY <1>3, <1>6, <1>7, <2>1
    <2>3. /\ f \notin unsent /\ Recipients(f) \subseteq txQueue[i].sentTo
          /\ txQueue[i].sentTo \subseteq Recipients(f) \cup {Origin[f]}
          /\ Cardinality(Recipients(f)) <= txQueue[i].count
      BY <1>0, <2>2 DEF LogOK
    <2>4. txQueue[i].count \in Nat /\ Limit \in Nat
      BY <1>0, EntryFacts, McConstants
    <2>5. \A b \in Known : got[f][b] > 0 \/ b = Origin[f]
      <3>1. ~ AtLimit(txQueue[i])
        <4>1. CASE Sendable(txQueue[i], a)
          BY <4>1 DEF Sendable
        <4>2. CASE ~ Sendable(txQueue[i], a)
          BY <1>6, <2>2, <4>2
        <4> QED BY <4>1, <4>2
      <3> QED BY <1>0, <2>2, <3>1 DEF NobodyMissed
    <2>6. CASE Sendable(txQueue[i], a)
      <3>1. /\ Recipients(f)' = Recipients(f) \cup {a} /\ Cardinality(Recipients(f)') <= txQueue[i].count + 1
            /\ got'[f][a] = 1 /\ \A b \in Addresses : b # a => got'[f][b] = got[f][b]
        BY <2>2, <2>6, ServedEntry
      <3>2. txQueue'[j].sentTo = txQueue[i].sentTo \cup {a} /\ txQueue'[j].count = txQueue[i].count + 1
        BY <1>6, <2>1, <2>6
      <3>3. \A b \in Known' : got'[f][b] > 0 \/ b = Origin[f]
        BY <1>1, <2>5, <3>1
      <3> QED BY <1>0, <2>3, <3>1, <3>2, <3>3
    <2>7. CASE ~ Sendable(txQueue[i], a)
      <3>1. Recipients(f)' = Recipients(f) /\ got'[f] = got[f] /\ txQueue'[j] = txQueue[i]
        BY <1>6, <2>1, <2>2, <2>7, ServedEntry
      <3>2. a \in txQueue[i].sentTo
        BY <2>2, <2>7, <3>1, <2>1 DEF Sendable
      <3>3. got[f][a] > 0 \/ a = Origin[f]
        BY <2>3, <3>2 DEF Recipients
      <3>4. \A b \in Known' : got'[f][b] > 0 \/ b = Origin[f]
        BY <1>1, <2>5, <3>1, <3>3
      <3> QED BY <1>0, <2>3, <3>1, <3>4
    <2> QED BY <2>6, <2>7
  <1> QED BY <1>11, <1>13, <1>14, <1>15, <1>16, <1>17 DEF IInv

\* A LIKE of a member that is known changes nothing but its age.
LEMMA StepAdd ==
  ASSUME IInv, NEW a \in Addresses, Add(a)
  PROVE  IInv'
  <1>1. CASE IsNew(a)
    BY <1>1, StepServe DEF Add
  <1>2. CASE ~ IsNew(a)
    <2>1. UNCHANGED <<txQueue, got, gathered, unsent, bg, waited>>
      BY <1>2 DEF Add
    <2>2. Known' = Known
      BY <1>2, AddedFacts DEF IInv, IsNew
    <2>3. TypeOK'
      BY <2>1, AddedFacts DEF IInv, TypeOK
    <2>4. PICK h : h = [i \in DOMAIN txQueue |-> i]
      OBVIOUS
    <2>5. h \in [DOMAIN txQueue' -> DOMAIN txQueue] /\ \A j \in DOMAIN txQueue' : h[j] = j
      BY <2>1, <2>4
    <2> QED BY <2>1, <2>2, <2>3, <2>5, LessKeeps
  <1> QED BY <1>1, <1>2

\* A member goes.
LEMMA StepUnsubscribe ==
  ASSUME IInv, NEW a \in Addresses, Unsubscribe(a)
  PROVE  IInv'
  <1>1. /\ UNCHANGED <<txQueue, gathered, unsent, got, bg, waited>>
        /\ members' = [b \in Known \ {a} |-> members[b]]
    BY DEF Unsubscribe
  <1>2. Known' = Known \ {a}
    BY <1>1 DEF Known
  <1>3. TypeOK'
    BY <1>1, <1>2 DEF IInv, TypeOK
  <1>4. PICK h : h = [i \in DOMAIN txQueue |-> i]
    OBVIOUS
  <1>5. h \in [DOMAIN txQueue' -> DOMAIN txQueue] /\ \A j \in DOMAIN txQueue' : h[j] = j
    BY <1>1, <1>4
  <1> QED BY <1>1, <1>2, <1>3, <1>5, LessKeeps

\* Frames and members that are too old go.
LEMMA StepClean ==
  ASSUME IInv, Clean
  PROVE  IInv'
  <1>1. PICK K : K = {b \in Known : members[b] - bg.lag < LikeExpire}
    OBVIOUS
  <1>2. /\ members' = [b \in K |-> members[b]] /\ UNCHANGED <<unsent, got>> /\ waited' = {}
        /\ bg' = [bg EXCEPT !.cleaning = FALSE]
        /\ txQueue' = EraseAt(txQueue, {i \in DOMAIN txQueue : Expired(txQueue[i]) \/ AtLimit(txQueue[i])})
        /\ gathered' \in gathered..GatherDelay \/ gathered' = gathered
    BY <1>1 DEF Clean
  <1>3. Known' = K /\ K \subseteq Known
    BY <1>1, <1>2 DEF Known
  <1>4. members' \in [Known' -> 0..LikeExpire + MaxLag]
    BY <1>2, <1>3 DEF IInv, TypeOK
  <1>5. gathered' \in 0..GatherDelay
    BY <1>2, McConstants DEF IInv, TypeOK
  <1>6. bg' \in [cleaning: BOOLEAN, lag: 0..MaxLag, since: 0..Period + MaxLag]
    BY <1>2 DEF IInv, TypeOK
  <1>7. txQueue' \in Seq(Tx) /\ Len(txQueue') <= QueueSize => TypeOK'
    BY <1>2, <1>3, <1>4, <1>5, <1>6 DEF IInv, TypeOK, Tx
  <1> QED BY <1>2, <1>3, <1>7, ErasedKeeps

\* The clean up reads the clock.
LEMMA StepBeginClean ==
  ASSUME IInv, BeginClean
  PROVE  IInv'
  <1>1. UNCHANGED <<members, txQueue, gathered, unsent, got>>
        /\ bg' = [cleaning |-> TRUE, lag |-> 0, since |-> 0]
    BY DEF BeginClean
  <1>2. bg' \in [cleaning: BOOLEAN, lag: 0..MaxLag, since: 0..Period + MaxLag]
    <2>1. 0 \in 0..MaxLag /\ 0 \in 0..Period + MaxLag
      BY McConstants
    <2> QED BY <1>1, <2>1
  <1>a. waited' \subseteq Frames
    <2>1. waited' = Waiting
      BY DEF BeginClean
    <2>2. \A i \in DOMAIN txQueue : txQueue[i].frame \in Frames
      BY EntryFacts DEF IInv
    <2> QED BY <2>1, <2>2 DEF Waiting, ToSet
  <1>3. TypeOK'
    BY <1>1, <1>2, <1>a DEF IInv, TypeOK, Known
  <1>4. PICK h : h = [i \in DOMAIN txQueue |-> i]
    OBVIOUS
  <1>5. h \in [DOMAIN txQueue' -> DOMAIN txQueue] /\ \A j \in DOMAIN txQueue' : h[j] = j
    BY <1>1, <1>4
  <1>6. Known' = Known
    BY <1>1 DEF Known
  <1> QED BY <1>1, <1>3, <1>5, <1>6, LessKeeps

\* Time passes: what waits gets older, and is otherwise what it was.
LEMMA StepTick ==
  ASSUME IInv, Tick
  PROVE  IInv'
  <1>1. /\ members' = [b \in Known |-> Older(members[b], LikeExpire + MaxLag)]
        /\ txQueue' = [i \in DOMAIN txQueue |-> [txQueue[i] EXCEPT !.age = Older(@, Timeout + MaxLag)]]
        /\ gathered' = Older(gathered, GatherDelay)
        /\ UNCHANGED <<unsent, got, waited>>
    BY DEF Tick
  <1>2. \A m \in Nat : \A x \in 0..m : Older(x, m) \in 0..m
    BY DEF Older
  <1>3. Known' = Known
    BY <1>1 DEF Known
  <1>4. members' \in [Known' -> 0..LikeExpire + MaxLag]
    <2>1. \A b \in Known : members[b] \in 0..LikeExpire + MaxLag
      BY DEF IInv, TypeOK
    <2>2. \A b \in Known : Older(members[b], LikeExpire + MaxLag) \in 0..LikeExpire + MaxLag
      BY <1>2, <2>1, McConstants
    <2> QED BY <1>1, <1>3, <2>2
  <1>5. gathered' \in 0..GatherDelay
    BY <1>1, <1>2, McConstants DEF IInv, TypeOK
  <1>6. bg' \in [cleaning: BOOLEAN, lag: 0..MaxLag, since: 0..Period + MaxLag]
    <2>1. bg \in [cleaning: BOOLEAN, lag: 0..MaxLag, since: 0..Period + MaxLag]
      BY DEF IInv, TypeOK
    <2>2. Older(bg.since, Period + MaxLag) \in 0..Period + MaxLag
      BY <1>2, <2>1, McConstants
    <2>3. (IF bg.cleaning THEN bg.lag + 1 ELSE bg.lag) \in 0..MaxLag
      BY <2>1, McConstants DEF Tick
    <2>4. bg' = [bg EXCEPT !.since = Older(bg.since, Period + MaxLag),
                           !.lag = IF bg.cleaning THEN bg.lag + 1 ELSE bg.lag]
      BY <2>1 DEF Tick
    <2> QED BY <2>1, <2>2, <2>3, <2>4
  <1>7. ASSUME NEW i \in DOMAIN txQueue
        PROVE  /\ txQueue'[i] \in Tx /\ txQueue'[i].frame = txQueue[i].frame
               /\ txQueue'[i].sentTo = txQueue[i].sentTo /\ txQueue'[i].count = txQueue[i].count
    <2>1. txQueue[i] \in Tx
      BY EntryFacts DEF IInv
    <2>2. Older(txQueue[i].age, Timeout + MaxLag) \in 0..Timeout + MaxLag
      BY <1>2, <2>1, McConstants DEF Tx
    <2>3. txQueue'[i] = [txQueue[i] EXCEPT !.age = Older(txQueue[i].age, Timeout + MaxLag)]
      BY <1>1
    <2> QED BY <2>1, <2>2, <2>3 DEF Tx
  <1>8. txQueue' \in Seq(Tx) /\ Len(txQueue') = Len(txQueue) /\ DOMAIN txQueue' = DOMAIN txQueue
    <2>1. DOMAIN txQueue = 1..Len(txQueue) /\ Len(txQueue) \in Nat
      BY EntryFacts DEF IInv
    <2>2. txQueue' = [i \in 1..Len(txQueue) |-> txQueue'[i]]
      BY <1>1, <2>1
    <2> QED BY <1>7, <2>1, <2>2
  <1>9. TypeOK'
    BY <1>1, <1>3, <1>4, <1>5, <1>6, <1>8 DEF IInv, TypeOK, Tx
  <1>10. PICK h : h = [i \in DOMAIN txQueue |-> i]
    OBVIOUS
  <1>11. h \in [DOMAIN txQueue' -> DOMAIN txQueue] /\ \A j \in DOMAIN txQueue' : h[j] = j
    BY <1>8, <1>10
  <1>12. /\ \A j \in DOMAIN txQueue' : /\ txQueue'[j].frame = txQueue[h[j]].frame
                                       /\ txQueue'[j].sentTo = txQueue[h[j]].sentTo
                                       /\ txQueue'[j].count = txQueue[h[j]].count
         /\ \A j, k \in DOMAIN txQueue' : h[j] = h[k] => j = k
    BY <1>7, <1>8, <1>11
  <1>13. UNCHANGED <<unsent, got>> /\ Known' \subseteq Known
    BY <1>1, <1>3
  <1> QED BY <1>9, <1>11, <1>12, <1>13, LessKeeps

\* Every step keeps the invariant.
LEMMA McNext == IInv /\ [Next]_vars => IInv'
  <1> SUFFICES ASSUME IInv, [Next]_vars PROVE IInv'
    OBVIOUS
  <1>1. CASE UNCHANGED vars
    <2>1. UNCHANGED <<members, txQueue, gathered, unsent, got, bg, waited>>
      BY <1>1 DEF vars
    <2>2. TypeOK' /\ Known' = Known
      BY <2>1 DEF IInv, TypeOK, Known
    <2>3. PICK h : h = [i \in DOMAIN txQueue |-> i]
      OBVIOUS
    <2>4. h \in [DOMAIN txQueue' -> DOMAIN txQueue] /\ \A j \in DOMAIN txQueue' : h[j] = j
      BY <2>1, <2>3
    <2> QED BY <2>1, <2>2, <2>4, LessKeeps
  <1> QED
    BY <1>1, StepSendDirect, StepSendQueued, StepAdd, StepUnsubscribe, StepBeginClean, StepClean, StepTick
    DEF Next

\* The inductive invariant: a frame waits once, with a log of those it was sent to and
\* a count that is not below their number.
THEOREM InvariantHolds == Spec => []IInv
  BY InitIInv, McNext, PTL DEF Spec

\* send, sendOnly and _add: nobody is sent a frame twice, whoever leaves and comes
\* back while it waits.
THEOREM NobodyTwice == Spec => []SentOnce
  <1>1. IInv => SentOnce
    BY DEF IInv
  <1> QED BY <1>1, InvariantHolds, PTL

\* The multicast limit bounds the recipients of a frame over all the occasions on
\* which it is sent, without the active bridges.
THEOREM LimitHolds == Spec => []LimitKept
  <1>1. IInv => LimitKept
    BY DEF IInv
  <1> QED BY <1>1, InvariantHolds, PTL

\* A frame that waits below its limit has been sent to every member that is known.
THEOREM AllReached == Spec => []NobodyMissed
  <1>1. IInv => NobodyMissed
    BY DEF IInv
  <1> QED BY <1>1, InvariantHolds, PTL
-----------------------------------------------------------------------------
(* When a frame stops waiting.                                             *)

\* Entry i has an entry of the same frame in the next queue.
StillWaits(i) == \E j \in DOMAIN txQueue' : txQueue'[j].frame = txQueue[i].frame

\* Entry j of the next queue is of a new frame, or as old as the frame's was.
AsOld(j) ==
  \/ txQueue'[j].frame \in unsent
  \/ \E i \in DOMAIN txQueue :
       txQueue'[j].frame = txQueue[i].frame /\ txQueue'[j].age = txQueue[i].age

\* The new frame takes the place of the first one, if there is no other.
LEMMA SendQueuedMoves ==
  ASSUME IInv, NEW f \in Frames, SendQueued(f)
  PROVE  /\ \A j \in DOMAIN txQueue' : AsOld(j)
         /\ \A i \in DOMAIN txQueue : StillWaits(i) \/ (i = 1 /\ Len(txQueue) = QueueSize)
  <1>1. PICK tx : tx.frame = f /\ txQueue' = Append(Room(txQueue), tx)
    BY DEF SendQueued
  <1>2. f \in unsent
    BY DEF SendQueued
  <1>3. PICK q : q = Room(txQueue)
    OBVIOUS
  <1>4. PICK d : d = Len(txQueue) - Len(q)
    OBVIOUS
  <1>5. /\ q \in Seq(Tx) /\ Len(q) \in Nat /\ d \in Nat
        /\ d = 0 \/ (d = 1 /\ Len(txQueue) = QueueSize)
        /\ \A i \in 1..Len(q) : i + d \in DOMAIN txQueue /\ q[i] = txQueue[i + d]
    BY <1>3, <1>4, RoomFacts DEF IInv
  <1>6. DOMAIN txQueue = 1..Len(txQueue) /\ Len(txQueue) \in Nat
    BY EntryFacts DEF IInv
  <1>7. /\ DOMAIN txQueue' = 1..Len(q) + 1 /\ txQueue'[Len(q) + 1] = tx
        /\ \A i \in 1..Len(q) : txQueue'[i] = q[i]
    <2>1. txQueue' = Append(q, tx)
      BY <1>1, <1>3
    <2> QED BY <1>5, <2>1
  <1>8. ASSUME NEW j \in DOMAIN txQueue' PROVE AsOld(j)
    <2>1. CASE j = Len(q) + 1
      BY <1>1, <1>2, <1>7, <2>1 DEF AsOld
    <2>2. CASE j # Len(q) + 1
      <3>1. j \in 1..Len(q)
        BY <1>5, <1>7, <2>2
      <3> QED BY <1>5, <1>7, <3>1 DEF AsOld
    <2> QED BY <2>1, <2>2
  <1>9. ASSUME NEW i \in DOMAIN txQueue PROVE StillWaits(i) \/ (i = 1 /\ Len(txQueue) = QueueSize)
    <2>1. (i = 1 /\ d = 1) \/ i - d \in 1..Len(q)
      <3>1. PICK n \in Nat : n = Len(q)
        BY <1>5
      <3>2. PICK m \in Nat : m = Len(txQueue)
        BY <1>6
      <3>3. i \in 1..m /\ d = m - n /\ d \in {0, 1}
        BY <1>4, <1>5, <1>6, <3>1, <3>2
      <3>4. (i = 1 /\ d = 1) \/ i - d \in 1..n
        BY <3>3
      <3> QED BY <3>1, <3>4
    <2>2. CASE i - d \in 1..Len(q)
      <3>1. PICK k \in 1..Len(q) : k = i - d
        BY <2>2
      <3>2. k + d = i /\ k \in DOMAIN txQueue'
        BY <1>5, <1>6, <1>7, <3>1
      <3>3. txQueue'[k] = txQueue[i]
        BY <1>5, <1>7, <3>2
      <3> QED BY <3>2, <3>3 DEF StillWaits
    <2> QED BY <1>5, <2>1, <2>2
  <1> QED BY <1>8, <1>9

\* A frame leaves when it is served for the last time.
LEMMA ServeMoves ==
  ASSUME IInv, NEW a \in Addresses, Serve(a)
  PROVE  /\ \A j \in DOMAIN txQueue' : AsOld(j)
         /\ \A f \in Frames : \A i \in DOMAIN txQueue : txQueue[i].frame = f =>
              \/ StillWaits(i)
              \/ txQueue[i].count + Cardinality(Recipients(f)' \ Recipients(f)) >= Limit
  <1>1. PICK served : served = [i \in DOMAIN txQueue |-> SendIfNew(txQueue[i], a)]
    OBVIOUS
  <1>2. PICK I : I = {i \in DOMAIN served : AtLimit(served[i])}
    OBVIOUS
  <1>3. txQueue' = EraseAt(served, I)
    BY <1>1, <1>2 DEF Serve
  <1>4. DOMAIN txQueue = 1..Len(txQueue) /\ Len(txQueue) \in Nat
    BY EntryFacts DEF IInv
  <1>5. ASSUME NEW i \in DOMAIN txQueue
        PROVE  /\ served[i].frame = txQueue[i].frame /\ served[i].age = txQueue[i].age
               /\ Sendable(txQueue[i], a) => served[i].count = txQueue[i].count + 1
               /\ ~ Sendable(txQueue[i], a) => served[i].count = txQueue[i].count
    <2>1. txQueue[i] \in Tx /\ served[i] = SendIfNew(txQueue[i], a)
      BY <1>1, EntryFacts DEF IInv
    <2>2. CASE Sendable(txQueue[i], a)
      <3>1. served[i] = [txQueue[i] EXCEPT !.sentTo = @ \cup {a}, !.count = @ + 1]
        BY <2>1, <2>2 DEF SendIfNew
      <3> QED BY <2>1, <2>2, <3>1 DEF Tx
    <2>3. CASE ~ Sendable(txQueue[i], a)
      BY <2>1, <2>3 DEF SendIfNew
    <2> QED BY <2>2, <2>3
  <1>6. PICK S : served \in Seq(S)
    <2>1. served \in Seq({served[i] : i \in DOMAIN txQueue})
      <3>1. \A i \in 1..Len(txQueue) : served[i] \in {served[k] : k \in DOMAIN txQueue}
        BY <1>4
      <3>2. served = [i \in 1..Len(txQueue) |-> served[i]]
        BY <1>1, <1>4
      <3> QED BY <1>4, <3>1, <3>2
    <2> QED BY <2>1
  <1>7. PICK h \in [DOMAIN txQueue' -> DOMAIN served \ I] :
             /\ \A j \in DOMAIN txQueue' : txQueue'[j] = served[h[j]]
             /\ \A i \in DOMAIN served \ I : \E j \in DOMAIN txQueue' : h[j] = i
    BY <1>3, <1>6, EraseAtFacts
  <1>8. DOMAIN served = DOMAIN txQueue
    BY <1>1
  <1>9. ASSUME NEW j \in DOMAIN txQueue' PROVE AsOld(j)
    BY <1>5, <1>7, <1>8 DEF AsOld
  <1>10. ASSUME NEW f \in Frames, NEW i \in DOMAIN txQueue, txQueue[i].frame = f, ~ StillWaits(i)
         PROVE  txQueue[i].count + Cardinality(Recipients(f)' \ Recipients(f)) >= Limit
    <2>1. i \in I
      BY <1>5, <1>7, <1>8, <1>10 DEF StillWaits
    <2>2. served[i].count >= Limit /\ txQueue[i].count \in Nat /\ Limit \in Nat
      BY <1>2, <2>1, EntryFacts, McConstants DEF AtLimit, IInv
    <2>3. CASE Sendable(txQueue[i], a)
      <3>1. a \notin Recipients(f) /\ Recipients(f)' = Recipients(f) \cup {a}
        BY <1>10, <2>3, ServedEntry
      <3>2. Recipients(f)' \ Recipients(f) = {a}
        BY <3>1
      <3>3. Cardinality(Recipients(f)' \ Recipients(f)) = 1
        BY <3>2, FS_Singleton
      <3> QED BY <1>5, <2>2, <2>3, <3>3
    <2>4. CASE ~ Sendable(txQueue[i], a)
      <3>1. Recipients(f)' \ Recipients(f) = {}
        BY <1>10, <2>4, ServedEntry
      <3>2. Cardinality(Recipients(f)' \ Recipients(f)) = 0
        BY <3>1, FS_EmptySet
      <3> QED BY <1>5, <2>2, <2>4, <3>2
    <2> QED BY <2>3, <2>4
  <1> QED BY <1>9, <1>10

\* The clean up erases what is too old or at its limit.
LEMMA CleanMoves ==
  ASSUME IInv, Clean
  PROVE  /\ \A j \in DOMAIN txQueue' : AsOld(j)
         /\ \A i \in DOMAIN txQueue : StillWaits(i) \/ Expired(txQueue[i]) \/ AtLimit(txQueue[i])
  <1>1. PICK I : I = {i \in DOMAIN txQueue : Expired(txQueue[i]) \/ AtLimit(txQueue[i])}
    OBVIOUS
  <1>2. txQueue' = EraseAt(txQueue, I)
    BY <1>1 DEF Clean
  <1>3. txQueue \in Seq(Tx)
    BY EntryFacts DEF IInv
  <1>4. PICK h \in [DOMAIN txQueue' -> DOMAIN txQueue \ I] :
             /\ \A j \in DOMAIN txQueue' : txQueue'[j] = txQueue[h[j]]
             /\ \A i \in DOMAIN txQueue \ I : \E j \in DOMAIN txQueue' : h[j] = i
    BY <1>2, <1>3, EraseAtFacts
  <1>5. ASSUME NEW j \in DOMAIN txQueue' PROVE AsOld(j)
    BY <1>4 DEF AsOld
  <1>6. ASSUME NEW i \in DOMAIN txQueue, ~ StillWaits(i) PROVE i \in I
    BY <1>4, <1>6 DEF StillWaits
  <1> QED BY <1>1, <1>5, <1>6

\* Steps that leave the queue alone.
LEMMA QuietMoves ==
  ASSUME IInv,
         \/ UNCHANGED vars \/ BeginClean
         \/ \E f \in Frames : SendDirect(f)
         \/ \E a \in Addresses : Unsubscribe(a) \/ (Add(a) /\ ~ IsNew(a))
  PROVE  txQueue' = txQueue /\ \A i \in DOMAIN txQueue : AsOld(i) /\ StillWaits(i)
  <1>1. txQueue' = txQueue
    BY DEF vars, BeginClean, SendDirect, Unsubscribe, Add
  <1> QED BY <1>1 DEF AsOld, StillWaits

\* Ages are numbers, and so is the lag.
LEMMA AgeFacts ==
  ASSUME TypeOK
  PROVE  /\ \A i \in DOMAIN txQueue : txQueue[i].age \in 0..Timeout + MaxLag
         /\ bg.lag \in 0..MaxLag
  <1>1. \A tx \in Tx : tx.age \in 0..Timeout + MaxLag
    BY DEF Tx
  <1>2. \A i \in DOMAIN txQueue : txQueue[i] \in Tx
    BY EntryFacts
  <1>3. bg.lag \in 0..MaxLag
    BY DEF TypeOK
  <1> QED BY <1>1, <1>2, <1>3

\* What waited when the time was read grows older with it, and is not sent again.
LEMMA WaitedNext ==
  ASSUME IInv, WaitedOK, [Next]_vars
  PROVE  WaitedOK'
  <1>0. TypeOK /\ LogOK /\ Timeout + MaxLag \in Nat /\ MaxLag \in Nat /\ Timeout \in Nat
    BY McConstants, MulticastAssumption DEF IInv
  <1>1. /\ waited \cap unsent = {}
        /\ \A i \in DOMAIN txQueue : txQueue[i].frame \in waited => txQueue[i].age >= bg.lag
    BY DEF WaitedOK
  <1>2. CASE Tick
    <2>1. waited' = waited /\ unsent' = unsent
      BY <1>2 DEF Tick
    <2>2. DOMAIN txQueue' = DOMAIN txQueue
      BY <1>2 DEF Tick
    <2>3. ASSUME NEW i \in DOMAIN txQueue
          PROVE  /\ txQueue'[i].frame = txQueue[i].frame
                 /\ txQueue'[i].age = Older(txQueue[i].age, Timeout + MaxLag)
      <3>1. txQueue[i] \in Tx
        BY <1>0, EntryFacts
      <3>2. txQueue'[i] = [txQueue[i] EXCEPT !.age = Older(txQueue[i].age, Timeout + MaxLag)]
        BY <1>2 DEF Tick
      <3> QED BY <3>1, <3>2 DEF Tx
    <2>4. bg'.lag \in 0..MaxLag /\ bg'.lag <= bg.lag + 1 /\ bg.lag \in 0..MaxLag
      <3>1. bg'.lag = IF bg.cleaning THEN bg.lag + 1 ELSE bg.lag
        BY <1>0, <1>2 DEF Tick, TypeOK
      <3>2. bg.cleaning => bg.lag < MaxLag
        BY <1>2 DEF Tick
      <3> QED BY <1>0, <3>1, <3>2, AgeFacts
    <2>5. ASSUME NEW i \in DOMAIN txQueue, txQueue[i].frame \in waited
          PROVE  Older(txQueue[i].age, Timeout + MaxLag) >= bg'.lag
      <3>1. txQueue[i].age >= bg.lag /\ txQueue[i].age \in 0..Timeout + MaxLag
        BY <1>0, <1>1, <2>5, AgeFacts
      <3> QED BY <1>0, <2>4, <3>1 DEF Older
    <2> QED BY <1>1, <2>1, <2>2, <2>3, <2>5 DEF WaitedOK
  <1>3. CASE BeginClean
    <2>1. txQueue' = txQueue /\ unsent' = unsent /\ bg'.lag = 0 /\ waited' = Waiting
      BY <1>3 DEF BeginClean
    <2>2. \A i \in DOMAIN txQueue : txQueue[i].frame \notin unsent /\ txQueue[i].age >= 0
      BY <1>0, AgeFacts DEF LogOK
    <2>3. Waiting \cap unsent = {}
      BY <2>2 DEF Waiting, ToSet
    <2> QED BY <2>1, <2>2, <2>3 DEF WaitedOK
  <1>4. CASE ~ Tick /\ ~ BeginClean
    <2>1. waited' \in {waited, {}} /\ unsent' \subseteq unsent /\ bg'.lag = bg.lag
      <3>1. CASE UNCHANGED vars
        BY <3>1 DEF vars
      <3>2. CASE \E f \in Frames : SendDirect(f) \/ SendQueued(f)
        BY <3>2 DEF SendDirect, SendQueued
      <3>3. CASE \E a \in Addresses : Add(a) \/ Unsubscribe(a)
        BY <3>3 DEF Add, Unsubscribe
      <3>4. CASE Clean
        BY <1>0, <3>4 DEF Clean, TypeOK
      <3> QED BY <1>4, <3>1, <3>2, <3>3, <3>4 DEF Next
    <2>2. \A j \in DOMAIN txQueue' : AsOld(j)
      <3>1. \A a \in Addresses : Add(a) /\ IsNew(a) => Serve(a)
        BY DEF Add
      <3> QED BY <1>4, <3>1, QuietMoves, SendQueuedMoves, ServeMoves, CleanMoves DEF Next
    <2>3. ASSUME NEW j \in DOMAIN txQueue', txQueue'[j].frame \in waited' PROVE txQueue'[j].age >= bg.lag
      BY <1>1, <2>1, <2>2, <2>3 DEF AsOld
    <2> QED BY <1>1, <2>1, <2>3 DEF WaitedOK
  <1> QED BY <1>2, <1>3, <1>4

\* A frame stops waiting when it is old enough, when it went to as many as may get it,
\* or for a newer frame; otherwise only if it came after the time of a clean up was
\* read (clean, _add and send on txQueue).
THEOREM FramesStopInTime == Spec => StopsInTime
  <1> DEFINE A == \A f \in Frames : \A i \in DOMAIN txQueue :
                    txQueue[i].frame = f /\ f \notin Waiting' =>
                      \/ txQueue[i].age >= Timeout
                      \/ txQueue[i].count + Cardinality(Recipients(f)' \ Recipients(f)) >= Limit
                      \/ i = 1 /\ Len(txQueue) = QueueSize /\ unsent' # unsent
                      \/ bg.cleaning /\ f \notin waited
  <1>1. ASSUME IInv, WaitedOK, Next PROVE A
    <2> SUFFICES ASSUME NEW f \in Frames, NEW i \in DOMAIN txQueue, txQueue[i].frame = f, f \notin Waiting'
                 PROVE  \/ txQueue[i].age >= Timeout
                        \/ txQueue[i].count + Cardinality(Recipients(f)' \ Recipients(f)) >= Limit
                        \/ i = 1 /\ Len(txQueue) = QueueSize /\ unsent' # unsent
                        \/ bg.cleaning /\ f \notin waited
      OBVIOUS
    <2>0. ~ StillWaits(i)
      BY DEF StillWaits, Waiting, ToSet
    <2>1. CASE \E g \in Frames : SendQueued(g)
      <3>1. unsent' # unsent
        BY <2>1 DEF SendQueued
      <3> QED BY <1>1, <2>0, <2>1, <3>1, SendQueuedMoves
    <2>2. CASE \E a \in Addresses : Add(a) /\ IsNew(a)
      <3>1. PICK a \in Addresses : Serve(a)
        BY <2>2 DEF Add
      <3> QED BY <1>1, <2>0, <3>1, ServeMoves
    <2>3. CASE Clean
      <3>1. txQueue[i].age \in 0..Timeout + MaxLag /\ bg.lag \in 0..MaxLag /\ bg.cleaning
        BY <1>1, <2>3, AgeFacts DEF IInv, Clean
      <3>2. Timeout \in Nat /\ MaxLag \in Nat /\ Word \in Nat /\ Timeout + MaxLag < Word
        BY MulticastAssumption DEF MaxAge
      <3>3. CASE AtLimit(txQueue[i])
        <4>1. UNCHANGED got
          BY <2>3 DEF Clean
        <4>2. Recipients(f)' \ Recipients(f) = {}
          BY <4>1 DEF Recipients
        <4>3. Cardinality(Recipients(f)' \ Recipients(f)) = 0
          BY <4>2, FS_EmptySet
        <4>4. txQueue[i].count \in Nat /\ txQueue[i].count >= Limit
          BY <1>1, <3>3, EntryFacts DEF IInv, AtLimit
        <4> QED BY <4>3, <4>4
      <3>4. CASE Expired(txQueue[i]) /\ f \in waited
        <4>1. txQueue[i].age >= bg.lag
          BY <1>1, <3>4 DEF WaitedOK
        <4>2. PICK x \in 0..Timeout + MaxLag : x = txQueue[i].age - bg.lag
          BY <3>1, <3>2, <4>1
        <4>3. x % Word = x
          BY <3>2, <4>2
        <4>4. x >= Timeout
          BY <3>4, <4>2, <4>3 DEF Expired
        <4> QED BY <3>1, <3>2, <4>2, <4>4
      <3> QED BY <1>1, <2>0, <2>3, <3>1, <3>3, <3>4, CleanMoves
    <2>4. CASE Tick
      <3>1. DOMAIN txQueue' = DOMAIN txQueue /\ txQueue[i] \in Tx
        BY <1>1, <2>4, EntryFacts DEF Tick, IInv
      <3>2. txQueue'[i] = [txQueue[i] EXCEPT !.age = Older(txQueue[i].age, Timeout + MaxLag)]
        BY <2>4 DEF Tick
      <3>3. txQueue'[i].frame = txQueue[i].frame
        BY <3>1, <3>2 DEF Tx
      <3> QED BY <2>0, <3>1, <3>3 DEF StillWaits
    <2> QED BY <1>1, <2>0, <2>1, <2>2, <2>3, <2>4, QuietMoves DEF Next
  <1>2. Init => WaitedOK
    BY DEF Init, WaitedOK
  <1>3. IInv /\ WaitedOK /\ [Next]_vars => [A]_vars
    BY <1>1
  <1>4. IInv /\ WaitedOK /\ [Next]_vars => WaitedOK'
    BY WaitedNext
  <1>5. [][A]_vars => StopsInTime
    BY DEF StopsInTime
  <1> HIDE DEF A
  <1> QED BY <1>2, <1>3, <1>4, <1>5, InvariantHolds, PTL DEF Spec
=============================================================================
