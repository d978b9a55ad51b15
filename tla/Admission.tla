----------------------------- MODULE Admission -----------------------------
(***************************************************************************)
(* How a member gets its credentials accepted by another member.  The      *)
(* sender pushes them before frames, again when its configuration changed, *)
(* after a long time, and when the receiver asks for them.  The receiver   *)
(* limits the rate of pushes, defers those it cannot verify until it knows *)
(* the controller, and keeps a frame that came too early in its receive    *)
(* queue (RxQueue), where it is tried again.  Packets between the two are  *)
(* lost, delayed and reordered.  Both nodes run the same code.             *)
(*                                                                         *)
(* Configurations are numbered; a credential has the number of the         *)
(* configuration it came with, 0 stands for none.  Part 1 of a push has    *)
(* the certificate of membership.  A tick is the longer one of the two     *)
(* rate limits, a second.                                                  *)
(***************************************************************************)
EXTENDS Integers

CONSTANTS
  Parts,        \* packets that a push needs
  Delta,        \* maxDelta of the COM, in configurations
  PushTimeout,  \* ZT_PEER_ACTIVITY_TIMEOUT, in ticks
  MaxVersion    \* bound on the number of configurations

ASSUME AdmissionAssumption ==
  /\ Parts \in Nat \ {0} /\ MaxVersion \in Nat \ {0}
  /\ Delta \in Nat
  /\ PushTimeout \in Nat \ {0}

VARIABLES
  mine,      \* the sender's configuration
  stale,     \* _lastPushedCredentials < _lastConfigUpdate
  age,       \* time since _lastPushedCredentials, saturated
  wire,      \* packets under way, in any order
  theirs,    \* the receiver's configuration
  held,      \* the sender's credentials at the receiver, per part
  gated,     \* the last push was received less than ZT_PEER_CREDENTIALS_RATE_LIMIT ago
  known,     \* does the receiver know the controller's identity?
  deferred,  \* pushes in the receive queue
  frame      \* is a frame of the sender in the receive queue?

vars == <<mine, stale, age, wire, theirs, held, gated, known, deferred, frame>>

Push == [part: 1..Parts, version: 1..MaxVersion]
Frame == [part |-> 0, version |-> 0]
Need == [part |-> 0, version |-> 1]

TypeOK ==
  /\ mine \in 1..MaxVersion /\ theirs \in 1..MaxVersion
  /\ stale \in BOOLEAN
  /\ age \in 0..PushTimeout + 1
  /\ wire \subseteq Push \cup {Frame, Need}
  /\ held \in [1..Parts -> 0..MaxVersion]
  /\ gated \in BOOLEAN /\ known \in BOOLEAN /\ frame \in BOOLEAN
  /\ deferred \subseteq Push

Init ==
  /\ mine = 1 /\ theirs = 1
  /\ stale = TRUE
  /\ age = PushTimeout + 1
  /\ wire = {}
  /\ held = [p \in 1..Parts |-> 0]
  /\ gated = FALSE /\ known \in BOOLEAN /\ frame = FALSE
  /\ deferred = {}
-----------------------------------------------------------------------------
(* The sender.                                                             *)

\* setConfiguration.  A push in the same millisecond as the update looks newer.
UpdateMine ==
  /\ mine < MaxVersion
  /\ mine' = mine + 1
  /\ stale' \in IF age = 0 THEN BOOLEAN ELSE {TRUE}
  /\ UNCHANGED <<age, wire, theirs, held, gated, known, deferred, frame>>

\* pushCredentials.
Pushed == [part: 1..Parts, version: {mine}]

\* Mutant: credentials are pushed once.
PushDueOnce(limit) == stale

\* peerRequestedCredentials and pushCredentialsIfNeeded, with their limits.
PushDue(limit) == stale \/ age > limit

PushIfDue(limit, others) ==
  /\ wire' = IF PushDue(limit) THEN others \cup Pushed ELSE others
  /\ age' = IF PushDue(limit) THEN 0 ELSE age
  /\ stale' = (stale /\ ~ PushDue(limit))

\* onLocalEthernet, for another member, and OutboundMulticast::sendOnly.
SendFrame ==
  /\ PushIfDue(PushTimeout, wire \cup {Frame})
  /\ UNCHANGED <<mine, theirs, held, gated, known, deferred, frame>>

\* ERROR_NEED_MEMBERSHIP_CERTIFICATE.
ReceiveNeed ==
  /\ Need \in wire
  /\ PushIfDue(1, wire \ {Need})
  /\ UNCHANGED <<mine, theirs, held, gated, known, deferred, frame>>
-----------------------------------------------------------------------------
(* The receiver.                                                           *)

UpdateTheirs ==
  /\ theirs < MaxVersion
  /\ theirs' = theirs + 1
  /\ UNCHANGED <<mine, stale, age, wire, held, gated, known, deferred, frame>>

Agrees(v) == v # 0 /\ v - theirs <= Delta /\ theirs - v <= Delta

\* Network::gate.
Gate == Agrees(held[1])

\* _doFRAME and _doEXT_FRAME, first from the wire and then from the queue; without
\* credentials the frame stays in the queue and the sender is asked for them.
ReceiveFrame ==
  /\ Frame \in wire
  /\ frame' = (frame \/ ~ Gate)
  /\ wire' = (wire \ {Frame}) \cup (IF Gate THEN {} ELSE {Need})
  /\ UNCHANGED <<mine, stale, age, theirs, held, gated, known, deferred>>

RetryFrame ==
  /\ frame
  /\ frame' = ~ Gate
  /\ wire' = IF Gate THEN wire ELSE wire \cup {Need}
  /\ UNCHANGED <<mine, stale, age, theirs, held, gated, known, deferred>>

\* ZT_RECEIVE_QUEUE_TIMEOUT, or the slot is needed for another packet.
ExpireFrame ==
  /\ frame
  /\ frame' = FALSE
  /\ UNCHANGED <<mine, stale, age, wire, theirs, held, gated, known, deferred>>

\* addCredential: newer credentials are verified, others are rejected or redundant.
Newer(p) == p.version > held[p.part]

\* What stays in the receive queue: also a push that needs the controller's identity.
Later(p, later) == IF ~ gated /\ Newer(p) /\ ~ known THEN later \cup {p} ELSE later

\* _doNETWORK_CREDENTIALS: within the limit it is done with the push, and lets go of
\* it.
DoCredentials(p, later) ==
  /\ gated' = TRUE
  /\ held' = IF ~ gated /\ Newer(p) /\ known THEN [held EXCEPT ![p.part] = p.version] ELSE held
  /\ deferred' = Later(p, later)

ReceivePush(p) ==
  /\ p \in wire
  /\ wire' = wire \ {p}
  /\ DoCredentials(p, deferred)
  /\ UNCHANGED <<mine, stale, age, theirs, known, frame>>

\* By the timer, or when a WHOIS is answered.
RetryPush(p) ==
  /\ p \in deferred
  /\ DoCredentials(p, deferred \ {p})
  /\ UNCHANGED <<mine, stale, age, wire, theirs, known, frame>>

\* The answer to a WHOIS; and the topology forgets the controller.
KnowController ==
  /\ known' = ~ known
  /\ UNCHANGED <<mine, stale, age, wire, theirs, held, gated, deferred, frame>>
-----------------------------------------------------------------------------
Lose(p) ==
  /\ p \in wire
  /\ wire' = wire \ {p}
  /\ UNCHANGED <<mine, stale, age, theirs, held, gated, known, deferred, frame>>

\* A second passes.
Tick ==
  /\ age' = IF age <= PushTimeout THEN age + 1 ELSE age
  /\ gated' = FALSE
  /\ UNCHANGED <<mine, stale, wire, theirs, held, known, deferred, frame>>

Next ==
  \/ UpdateMine \/ SendFrame \/ ReceiveNeed
  \/ UpdateTheirs \/ ReceiveFrame \/ RetryFrame \/ ExpireFrame \/ KnowController
  \/ \E p \in Push : ReceivePush(p) \/ RetryPush(p)
  \/ \E p \in Push \cup {Frame, Need} : Lose(p)
  \/ Tick

Spec == Init /\ [][Next]_vars

\* The application goes on sending, timers run, and what is sent again and again
\* is received at some time.
FairSpec ==
  /\ Spec
  /\ WF_vars(SendFrame) /\ WF_vars(Tick) /\ WF_vars(RetryFrame)
  /\ SF_vars(ReceiveNeed) /\ SF_vars(ReceiveFrame)
  /\ \A part \in 1..Parts : \A v \in 1..MaxVersion :
       LET p == [part |-> part, version |-> v] IN SF_vars(ReceivePush(p)) /\ WF_vars(RetryPush(p))
-----------------------------------------------------------------------------
(* Correctness.                                                            *)

\* The two nodes have come to agree, and the controller is known.
Settled == Agrees(mine) /\ known

\* A member that goes on sending is admitted in the end, and stays so, though
\* pushes are lost, come late, or are dropped by the limit, and an update of the
\* configuration may go unnoticed.
Admitted == <>[]Settled => <>[]Gate
=============================================================================
