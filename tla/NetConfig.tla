----------------------------- MODULE NetConfig -----------------------------
(***************************************************************************)
(* The configuration of one network: how Network::handleConfigChunk puts   *)
(* updates together from signed chunks, how setConfiguration applies them, *)
(* and how Node::join and Node::leave, called by the application, get in   *)
(* between.                                                                *)
(*                                                                         *)
(* Chunks of several updates share a few slots.  They come from the        *)
(* controller, or from members that pass them on (fast propagation), in    *)
(* any order, any number of times, or never.  Every chunk counts as one    *)
(* unit of length, and the dictionary in a slot is represented by the      *)
(* owner of the chunk at each position: a configuration that mixes updates *)
(* is visible.  Each update has a time of its own, so that no two carry an *)
(* equal configuration, and an update stands for its configuration.        *)
(*                                                                         *)
(* The rx task, the application and the background task are separate; a    *)
(* step is what one of them does between two lock operations or callbacks. *)
(* What is only shown to the application (_netconfFailure, the port and    *)
(* its errors) is left out.                                                *)
(* Ages of timestamps are counted in ticks, from boot.                     *)
(***************************************************************************)
EXTENDS Integers, FiniteSets

CONSTANTS
  MaxIncoming,    \* ZT_NETWORK_MAX_INCOMING_UPDATES
  MaxChunks,      \* ZT_NETWORK_MAX_UPDATE_CHUNKS
  AutoconfDelay,  \* ZT_NETWORK_AUTOCONF_DELAY, in ticks
  Updates,        \* updates that somebody sends chunks of
  Legacy,         \* those that are one unsigned chunk (older controllers)
  Signed,         \* those that are from the controller: its signature, or its address
  Mine,           \* those that are issued to this node, for this network
  Size,           \* number of chunks of an update
  Persistent,     \* does the firmware's storage keep network configurations?
  None,           \* no configuration, no update
  Mixed           \* a configuration with parts of several updates

ASSUME NetAssumption ==
  /\ MaxIncoming \in Nat \ {0} /\ MaxChunks \in Nat \ {0}
  /\ AutoconfDelay \in Nat \ {0}
  /\ Legacy \subseteq Updates /\ Signed \subseteq Updates /\ Mine \subseteq Updates
  /\ Size \in [Updates -> 1..MaxChunks]
  /\ \A u \in Legacy : Size[u] = 1
  /\ Persistent \in BOOLEAN
  /\ None \notin Updates /\ Mixed \notin Updates \cup {None}

VARIABLES
  incoming,  \* _incomingConfigChunks
  net,       \* the Network object: "none", "up", or "destroyed" but still listed
  config,    \* _config
  sso,       \* setAuthenticationRequired has changed _config
  since,     \* age of _lastConfigUpdate, saturated
  uptime,    \* the clock, saturated
  saved,     \* ZT_STATE_OBJECT_NETWORK_CONFIG in the store
  rx,        \* the rx task: control, configuration in hand, is its Network destroyed?
  app,       \* the application: the next step of Node::leave
  refresh,   \* since join: nothing asked yet, a check passed without, or asked
  used       \* (history) configurations that were applied

vars == <<incoming, net, config, sso, since, uptime, saved, rx, app, refresh, used>>

Slots == 1..MaxIncoming
Configs == Updates \cup {None, Mixed}

\* haveChunks and haveBytes are the same number here.  The counter ts is only ever
\* compared, and is kept as the distance from the lowest.
Slot ==
  [ts: Nat, updateId: Updates \cup {None}, have: SUBSET (1..MaxChunks),
   haveBytes: 0..MaxChunks, data: [1..MaxChunks -> Updates \cup {None}]]

NewSlots ==
  [s \in Slots |-> [ts |-> 0, updateId |-> None, have |-> {}, haveBytes |-> 0,
                    data |-> [i \in 1..MaxChunks |-> None]]]

Idle == [pc |-> "idle", nc |-> None, dead |-> FALSE]

TypeOK ==
  /\ incoming \in [Slots -> Slot]
  /\ net \in {"none", "up", "destroyed"}
  /\ config \in Configs
  /\ sso \in BOOLEAN
  /\ since \in 0..AutoconfDelay /\ uptime \in 0..AutoconfDelay
  /\ saved \in Configs
  /\ rx \in [pc: {"idle", "set", "save", "reply"}, nc: Configs, dead: BOOLEAN]
  /\ app \in {"idle", "erase", "delete"}
  /\ refresh \in {"new", "skipped", "asked"}
  /\ used \in SUBSET Configs

Init ==
  /\ incoming = NewSlots
  /\ net = "none"
  /\ config = None /\ sso = FALSE
  /\ since = 0 /\ uptime = 0
  /\ saved = None
  /\ rx = Idle
  /\ app = "idle"
  /\ refresh = "new"
  /\ used = {}
-----------------------------------------------------------------------------
(* Chunks.                                                                 *)

\* The first slot with the lowest counter.
Lowest ==
  CHOOSE s \in Slots : \A t \in Slots :
    \/ incoming[s].ts < incoming[t].ts
    \/ incoming[s].ts = incoming[t].ts /\ s <= t

Holding(u) == {s \in Slots : incoming[s].updateId = u}

\* Mutant: an update that has a slot is not looked for.
SlotForLowest(u) == Lowest

\* The slot for a chunk of update u: its own, or the lowest.  A legacy update is
\* not looked for.
SlotFor(u) ==
  IF u \notin Legacy /\ Holding(u) # {}
    THEN CHOOSE s \in Holding(u) : \A t \in Holding(u) : s <= t
    ELSE Lowest

\* The slot of a signed update remembers the chunks it has had.
Duplicate(u, i) == u \notin Legacy /\ Holding(u) # {} /\ i \in incoming[SlotFor(u)].have

\* The chunk has the controller's signature, or it is unsigned and comes from the
\* controller itself.
Verified(u) == u \in Signed

\* A slot that is taken for another update forgets its chunks, not their bytes.
BeginUpdate(e, u) ==
  IF e.updateId = u THEN e ELSE [e EXCEPT !.updateId = u, !.have = {}, !.haveBytes = 0]

\* fromDictionary, on a dictionary of update u's length.
Parse(data, u) == IF \A i \in 1..Size[u] : data[i] = u THEN u ELSE Mixed

\* Mutant: one byte too many is awaited.
CompleteLate(e, u) == e.haveBytes > Size[u]

Complete(e, u) == e.haveBytes = Size[u]

\* Only the order of the counters matters.
Rebased(slots) ==
  LET low == CHOOSE n \in {slots[s].ts : s \in Slots} : \A s \in Slots : n <= slots[s].ts
  IN [s \in Slots |-> [slots[s] EXCEPT !.ts = @ - low]]

\* handleConfigChunk, up to the unlock.
HandleConfigChunk(u, i) ==
  /\ rx.pc = "idle"
  /\ net = "up"
  /\ ~ Duplicate(u, i)
  /\ Verified(u)
  /\ LET s == SlotFor(u)
         e == BeginUpdate([incoming[s] EXCEPT !.ts = @ + 1], u)
         f == [e EXCEPT !.have = @ \cup {i}, !.haveBytes = @ + 1, !.data = [@ EXCEPT ![i] = u]]
     IN \/ /\ e.haveBytes >= MaxChunks
           /\ incoming' = Rebased([incoming EXCEPT ![s] = e])
           /\ UNCHANGED rx
        \/ /\ e.haveBytes < MaxChunks
           /\ incoming' = Rebased([incoming EXCEPT ![s] = f])
           /\ rx' = IF Complete(f, u) THEN [rx EXCEPT !.pc = "set", !.nc = Parse(f.data, u)]
                                      ELSE rx
  /\ UNCHANGED <<net, config, sso, since, uptime, saved, app, refresh, used>>
-----------------------------------------------------------------------------
(* setConfiguration, and the end of handleConfigChunk.                     *)

\* Mutant: a configuration for somebody else is taken.
AcceptableAny(c) == TRUE

\* The configuration is for this node and this network.
Acceptable(c) == c \in Mine \cup {Mixed}

\* The network was destroyed, the configuration is not for us, or it is the same.
IgnoreConfiguration ==
  /\ rx.pc = "set"
  /\ rx.dead \/ ~ Acceptable(rx.nc) \/ (rx.nc = config /\ ~ sso)
  /\ rx' = [rx EXCEPT !.pc = "reply"]
  /\ UNCHANGED <<incoming, net, config, sso, since, uptime, saved, app, refresh, used>>

SetConfiguration ==
  /\ rx.pc = "set"
  /\ ~ rx.dead
  /\ Acceptable(rx.nc)
  /\ rx.nc # config \/ sso
  /\ config' = rx.nc
  /\ sso' = FALSE
  /\ since' = 0
  /\ refresh' = "asked"
  /\ used' = used \cup {rx.nc}
  /\ rx' = [rx EXCEPT !.pc = "save"]
  /\ UNCHANGED <<incoming, net, uptime, saved, app>>

\* stateObjectPut: it may fail, and nobody is told.
SaveToDisk ==
  /\ rx.pc = "save"
  /\ saved' \in {saved} \cup (IF Persistent THEN {rx.nc} ELSE {})
  /\ rx' = [rx EXCEPT !.pc = "reply"]
  /\ UNCHANGED <<incoming, net, config, sso, since, uptime, app, refresh, used>>

\* handleConfigChunk returns the id of the update, which _doNETWORK_CONFIG sends
\* in an OK, whatever setConfiguration has returned.
Reply ==
  /\ rx.pc = "reply"
  /\ rx' = Idle
  /\ UNCHANGED <<incoming, net, config, sso, since, uptime, saved, app, refresh, used>>

\* An ERROR of the controller: setAuthenticationRequired changes the configuration.
SetAuthenticationRequired ==
  /\ rx.pc = "idle"
  /\ net # "none"
  /\ sso' = TRUE
  /\ UNCHANGED <<incoming, net, config, since, uptime, saved, rx, app, refresh, used>>
-----------------------------------------------------------------------------
(* The application: join and leave; and the loss of power.                 *)

\* Node::join and the constructor of Network.
Join ==
  /\ app = "idle"
  /\ net = "none"
  /\ net' = "up"
  /\ incoming' = NewSlots
  /\ config' = saved
  /\ sso' = FALSE
  /\ since' = uptime
  /\ refresh' = "new"
  /\ UNCHANGED <<uptime, saved, rx, app, used>>

\* The rx task keeps its reference to the network, and so do packets that are
\* handled before it is erased.
LeaveDestroy ==
  /\ app = "idle"
  /\ net = "up"
  /\ net' = "destroyed"
  /\ rx' = [rx EXCEPT !.dead = rx.pc # "idle"]
  /\ app' = "erase"
  /\ UNCHANGED <<incoming, config, sso, since, uptime, saved, refresh, used>>

\* The object is gone: its fields are back to what Join gives them.
Erased ==
  /\ net' = "none"
  /\ incoming' = NewSlots
  /\ config' = None
  /\ sso' = FALSE
  /\ since' = 0
  /\ refresh' = "new"

LeaveErase ==
  /\ app = "erase"
  /\ Erased
  /\ app' = "delete"
  /\ UNCHANGED <<uptime, saved, rx, used>>

\* stateObjectDelete.
LeaveDelete ==
  /\ app = "delete"
  /\ saved' = IF Persistent THEN None ELSE saved
  /\ app' = "idle"
  /\ UNCHANGED <<incoming, net, config, sso, since, uptime, rx, refresh, used>>

PowerFailure ==
  /\ Erased
  /\ uptime' = 0
  /\ rx' = Idle
  /\ app' = "idle"
  /\ UNCHANGED <<saved, used>>
-----------------------------------------------------------------------------
(* The background task.                                                    *)

\* Mutant: only a network without a configuration asks for one.
DueNever == config = None

Due == config = None \/ since >= AutoconfDelay

\* The ping check asks the controller for a configuration, if it is time.
PingCheck ==
  /\ net = "up"
  /\ refresh' = IF Due THEN "asked" ELSE IF refresh = "new" THEN "skipped" ELSE refresh
  /\ UNCHANGED <<incoming, net, config, sso, since, uptime, saved, rx, app, used>>

Tick ==
  /\ uptime' = IF uptime < AutoconfDelay THEN uptime + 1 ELSE uptime
  /\ since' = IF net # "none" /\ since < AutoconfDelay THEN since + 1 ELSE since
  /\ UNCHANGED <<incoming, net, config, sso, saved, rx, app, refresh, used>>
-----------------------------------------------------------------------------
Apply == IgnoreConfiguration \/ SetConfiguration \/ SaveToDisk \/ Reply

Leave == LeaveDestroy \/ LeaveErase \/ LeaveDelete

Next ==
  \/ \E u \in Updates : \E i \in 1..Size[u] : HandleConfigChunk(u, i)
  \/ SetAuthenticationRequired
  \/ Apply \/ Join \/ Leave \/ PowerFailure \/ PingCheck \/ Tick

Spec == Init /\ [][Next]_vars

\* The tasks go on and time passes.  Of the network it is only assumed that some
\* update of one chunk arrives again and again: the controller is asked for it
\* until it does.
FairSpec ==
  /\ Spec
  /\ WF_vars(Apply) /\ WF_vars(LeaveErase \/ LeaveDelete)
  /\ WF_vars(PingCheck) /\ WF_vars(Tick)
  /\ \E u \in Updates : u \in Signed \cap Mine /\ Size[u] = 1 /\ SF_vars(HandleConfigChunk(u, 1))
-----------------------------------------------------------------------------
(* Correctness.                                                            *)

Genuine == Signed \cap Mine

\* The refinement mapping: the slots, the counters and the two tasks are hidden, and
\* what the controller issued to this node is what it signed for this node.
Promise == INSTANCE NetworkPromise
           WITH Genuine <- Genuine, None <- None,
                config <- config, saved <- saved, used <- used

\* Whatever the order, the loss and the repetition of chunks, and wherever leave
\* or a power failure comes in between: what is applied and what is stored is a
\* whole configuration that the controller issued to this node.
KeepsPromise == Promise!Spec

\* A slot counts distinct chunks of its update, and holds each of them.
SlotOK(e) ==
  /\ e.updateId # None
  /\ e.updateId \in Signed
  /\ e.have \subseteq 1..Size[e.updateId]
  /\ \A i \in e.have : e.data[i] = e.updateId
  /\ e.updateId \in Legacy => e.haveBytes >= 1 /\ e.have = {1}
  /\ e.updateId \notin Legacy => e.haveBytes = Cardinality(e.have)

\* The slots never count a chunk twice, or one of another update, whoever had them
\* before: the count of bytes is a proof that the dictionary, which is never
\* cleared, is one update's.  No signed update has two slots.
SlotsOK ==
  /\ \A s \in Slots : SlotOK(incoming[s]) \/ (incoming[s].updateId = None /\ incoming[s].have = {})
  /\ \A s, t \in Slots :
       (incoming[s].updateId = incoming[t].updateId /\ incoming[s].updateId \notin Legacy \cup {None})
         => s = t

\* What the rx task has in hand is of the controller, and it applies it only to a
\* network that is still joined.
InHandOK ==
  /\ rx.nc \in Signed \cup {None}
  /\ rx.pc = "idle" => ~ rx.dead
  /\ rx.pc # "idle" => rx.nc # None
  /\ rx.pc = "set" /\ ~ rx.dead => net = "up"
  /\ rx.pc = "save" => rx.nc \in used

\* The inductive invariant behind KeepsPromise and NotReplayed.
IInv ==
  /\ TypeOK /\ SlotsOK /\ InHandOK
  /\ net = "none" => config = None
  /\ app = "erase" => net = "destroyed"
  /\ config \in used \cup {None} /\ saved \in used \cup {None}
  /\ used \subseteq Genuine

\* A signed update that a slot remembers as complete is not put together again,
\* so it cannot bring an older configuration back; a legacy one can.
NotReplayed ==
  [][\A u \in Updates \ Legacy :
       (\E s \in Holding(u) : Complete(incoming[s], u))
         => ~ (rx.pc = "idle" /\ rx'.pc = "set" /\ rx'.nc = u)]_vars

\* A network that stays joined gets a configuration, if an update for it that is a
\* single chunk arrives often enough.  (One of several chunks may lose its slot to
\* others again and again.)
Configured == (net = "up") ~> (config # None \/ net # "up")

\* A configuration that was restored from the store is asked for again.
Refreshed == (net = "up" /\ refresh = "skipped") ~> (refresh = "asked" \/ net # "up")
=============================================================================
