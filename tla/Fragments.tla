----------------------------- MODULE Fragments -----------------------------
(***************************************************************************)
(* How Switch::_sendViaSpecificPath cuts a packet into a head and          *)
(* fragments, as a function of its size n and the path's MTU m.  RxQueue   *)
(* has what the receiver does with them, in any order; here is only what   *)
(* it asks of a single one.                                                *)
(***************************************************************************)
EXTENDS Integers

CONSTANTS
  Largest,       \* ZT_PROTO_MAX_PACKET_LENGTH
  Mtus,          \* MTUs of paths
  Header,        \* ZT_PROTO_MIN_FRAGMENT_LENGTH
  MaxFragments,  \* ZT_MAX_PACKET_FRAGMENTS
  Nibble         \* the number and the count of fragments have four bits each

ASSUME FragmentsAssumption ==
  /\ Largest \in Nat /\ Header \in Nat
  /\ \A m \in Mtus : m \in Nat /\ m > Header
  /\ MaxFragments \in Nat \ {0} /\ Nibble \in Nat /\ MaxFragments < Nibble
  \* No MTU is so small that the count of fragments does not fit into its bits.
  /\ \A m \in Mtus : Largest <= m + (Nibble - 2) * (m - Header)

Lesser(a, b) == IF a < b THEN a ELSE b

\* Mutant: the quotient is not rounded up.
FragmentCountDown(n, m) == IF n <= m THEN 1 ELSE 1 + (n - m) \div (m - Header)

\* What is left after the head is divided among fragments, rounded up.
FragmentCount(n, m) ==
  IF n <= m THEN 1
  ELSE LET remaining == n - m
           frags == remaining \div (m - Header)
       IN 1 + (IF frags * (m - Header) < remaining THEN frags + 1 ELSE frags)

ChunkSize(n, m, start) == Lesser(n - start, m - Header)

\* The head, 0, and the fragments of the loop.  Of the head's place and length the
\* receiver knows nothing; no and total are as in a fragment's header.
Pieces(n, m) ==
  LET k == FragmentCount(n, m)
      fragStart[i \in 0..k] ==
        CASE i = 0 -> 0
          [] i = 1 -> Lesser(n, m)
          [] OTHER -> fragStart[i - 1] + ChunkSize(n, m, fragStart[i - 1])
  IN [i \in 0..k - 1 |->
        [start |-> fragStart[i], len |-> fragStart[i + 1] - fragStart[i],
         no |-> i % Nibble, total |-> k % Nibble]]

\* onRemotePacket: what a fragment must look like not to be ignored.
Sane(f) == f.total <= MaxFragments /\ f.no < MaxFragments /\ f.no > 0 /\ f.total > 1
-----------------------------------------------------------------------------
(* Correctness.                                                            *)

Sizes == 1..Largest

\* The largest packet that goes into MaxFragments datagrams.
Capacity(m) == m + (MaxFragments - 1) * (m - Header)

\* The pieces, appended in the order of their numbers as onRemotePacket does, are
\* the packet: each begins where the one before ends, and the last ends with it.
CutWhole ==
  \A m \in Mtus, n \in Sizes :
    LET p == Pieces(n, m)
        k == FragmentCount(n, m)
    IN /\ \A i \in 1..k - 1 : p[i].start = p[i - 1].start + p[i - 1].len
       /\ p[k - 1].start + p[k - 1].len = n

\* A receiver reads the number and the count in every fragment as they were meant,
\* and takes all fragments of a packet or none: all of one that goes into MaxFragments
\* datagrams, none of a larger one, although that fits into the packet buffer.
CutAccepted ==
  \A m \in Mtus, n \in Sizes :
    LET p == Pieces(n, m)
        k == FragmentCount(n, m)
    IN \A i \in 1..k - 1 :
         p[i].no = i /\ p[i].total = k /\ (Sane(p[i]) <=> n <= Capacity(m))

\* No datagram is larger than the MTU, and none is without payload.
CutFits ==
  \A m \in Mtus, n \in Sizes :
    LET p == Pieces(n, m)
    IN \A i \in DOMAIN p : p[i].len > 0 /\ p[i].len + (IF i = 0 THEN 0 ELSE Header) <= m
=============================================================================
