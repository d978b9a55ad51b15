----------------------------- MODULE PeerPaths -----------------------------
(***************************************************************************)
(* The path table of one ZeroTier::Peer: the physical addresses at which   *)
(* the peer can be reached directly.                                       *)
(*                                                                         *)
(* The rx task learns, redirects and resets paths while it handles a       *)
(* packet, and the background task pings the paths and compacts the table  *)
(* (doPingAndKeepalive).  Every use of the table holds _paths_m, but one   *)
(* packet takes that lock several times, and a pass may come in between.   *)
(*                                                                         *)
(* Times are ages in ticks, saturated where the code stops telling them    *)
(* apart.  The clock counts from boot and 0 also means "never": a          *)
(* timestamp of 0 is as old as the node.  A handler uses one value of the  *)
(* clock, so time passes between handlers.                                 *)
(***************************************************************************)
EXTENDS Integers, FiniteSets, FiniteSetsExt

CONSTANTS
  MaxPaths,     \* ZT_MAX_PEER_NETWORK_PATHS
  Heartbeat,    \* ZT_PATH_HEARTBEAT_PERIOD, in ticks
  Alive,        \* ZT_PATH_HEARTBEAT_PERIOD + 5000 ms, in ticks
  PingPeriod,   \* ZT_PEER_PING_PERIOD, in ticks
  Expiration,   \* ZT_PEER_PATH_EXPIRATION, in ticks
  MaxPriority,  \* bound on the priorities that redirections reach
  Paths,        \* physical addresses (one local socket)
  NoPath,       \* the null pointer
  Host,         \* IP address of a path (ipsEqual)
  Net,          \* what ipsEqual2 compares: IPv4 address, or IPv6 /64
  Scope,        \* IP scope and family of a path
  Usable        \* paths that shouldUsePathForZeroTierTraffic accepts

ASSUME PathsAssumption ==
  /\ MaxPaths \in Nat \ {0}
  /\ Heartbeat \in Nat \ {0} /\ Alive \in Nat \ {0}
  /\ PingPeriod \in Nat \ {0} /\ Expiration \in Nat \ {0}
  /\ Heartbeat <= Expiration /\ Alive <= Expiration
  /\ MaxPriority \in Nat \ {0}
  /\ NoPath \notin Paths /\ Usable \subseteq Paths
  /\ \A p, q \in Paths : Host[p] = Host[q] => Net[p] = Net[q]

VARIABLES
  paths,       \* _paths: [Slots -> PeerPath]
  lastIn,      \* age of Path::_lastIn, capped at Alive
  lastOut,     \* age of Path::_lastOut, capped at Heartbeat
  uptime,      \* the clock, capped at Expiration
  sinceHello,  \* age of _lastSentFullHello, capped at PingPeriod
  rx,          \* packet the rx task is handling
  pass         \* the background pass; at = 0 when _paths_m is free

vars == <<paths, lastIn, lastOut, uptime, sinceHello, rx, pass>>

Slots == 1..MaxPaths

\* _PeerPath: lr is the age of the last packet that the peer sent on the path.
PeerPath == [p: Paths \cup {NoPath}, lr: 0..Expiration, priority: 1..MaxPriority]

Empty == [p |-> NoPath, lr |-> Expiration, priority |-> 1]

NoPass == [at |-> 0, hello |-> FALSE, maxPriority |-> 0]

\* HELLO and OK(HELLO) may reset paths, PUSH_DIRECT_PATHS may redirect; a HELLO
\* that does not reset stands for the other verbs.
Verbs == {"OK", "HELLO", "PUSH_DIRECT_PATHS"}

TypeOK ==
  /\ paths \in [Slots -> PeerPath]
  /\ lastIn \in [Paths -> 0..Alive]
  /\ lastOut \in [Paths -> 0..Heartbeat]
  /\ uptime \in 0..Expiration
  /\ sinceHello \in 0..PingPeriod
  /\ rx \in [pc: {"idle", "handle", "learn"}, path: Paths \cup {NoPath}, verb: Verbs]
  /\ rx.pc # "idle" => rx.path \in Paths
  /\ pass \in [at: 0..MaxPaths, hello: BOOLEAN, maxPriority: 0..MaxPriority]

Idle == [pc |-> "idle", path |-> NoPath, verb |-> "HELLO"]

Init ==
  /\ paths = [s \in Slots |-> Empty]
  /\ lastIn = [p \in Paths |-> 0]
  /\ lastOut = [p \in Paths |-> 0]
  /\ uptime = 0
  /\ sinceHello = 0
  /\ rx = Idle
  /\ pass = NoPass

Least(a, b) == IF a < b THEN a ELSE b

\* A timestamp of 0, as an age.
Never(cap) == Least(uptime, cap)

Used(s) == paths[s].p # NoPath
InTable(p) == \E s \in Slots : paths[s].p = p
LockFree == pass.at = 0
-----------------------------------------------------------------------------
(* The rx task handles a packet.                                           *)

\* onRemotePacket: Path::received, before anything is known of the packet.
PacketIn(p, v) ==
  /\ rx.pc = "idle"
  /\ lastIn' = [lastIn EXCEPT ![p] = 0]
  /\ rx' = [pc |-> "handle", path |-> p, verb |-> v]
  /\ UNCHANGED <<paths, lastOut, uptime, sinceHello, pass>>

\* Relayed, not authentic, from another peer, or on an unknown path that may not
\* be used: Peer::received changes nothing here.
Ignored ==
  /\ rx.pc = "handle"
  /\ rx' = Idle
  /\ UNCHANGED <<paths, lastIn, lastOut, uptime, sinceHello, pass>>

\* Mutant: a live path of the same host does not count.
StopsAtPath(p) == {s \in Slots : ~ Used(s) \/ paths[s].p = p}

\* The slots at which the first loop of Peer::received can stop for path p.
Stops(p) ==
  {s \in Slots : \/ ~ Used(s)
                 \/ paths[s].p = p
                 \/ Host[paths[s].p] = Host[p] /\ lastIn[paths[s].p] < Alive}

\* It found the path, or a live one of the same host: havePath.
KnownAt(p, s) == s \in Stops(p) /\ s = Min(Stops(p)) /\ Used(s)

HavePath ==
  /\ rx.pc = "handle"
  /\ LockFree
  /\ \E s \in Slots :
       /\ KnownAt(rx.path, s)
       /\ IF paths[s].p = rx.path
            THEN paths' = [paths EXCEPT ![s].lr = 0]
            ELSE UNCHANGED paths
  /\ rx' = Idle
  /\ UNCHANGED <<lastIn, lastOut, uptime, sinceHello, pass>>

Unknown(p) == ~ \E s \in Slots : KnownAt(p, s)

\* An unknown path that carries no answer of the peer is tried: at most once a
\* second, and a path tried within the last second was used within a tick.
Contact ==
  /\ rx.pc = "handle"
  /\ LockFree
  /\ Unknown(rx.path)
  /\ rx.path \in Usable
  /\ rx.verb # "OK"
  /\ \/ lastOut' = [lastOut EXCEPT ![rx.path] = 0]
     \/ lastOut[rx.path] <= 1 /\ UNCHANGED lastOut
  /\ rx' = Idle
  /\ UNCHANGED <<paths, lastIn, uptime, sinceHello, pass>>

\* An answer of the peer on an unknown path: _paths_m is released ...
BeginLearn ==
  /\ rx.pc = "handle"
  /\ LockFree
  /\ Unknown(rx.path)
  /\ rx.path \in Usable
  /\ rx.verb = "OK"
  /\ rx' = [rx EXCEPT !.pc = "learn"]
  /\ UNCHANGED <<paths, lastIn, lastOut, uptime, sinceHello, pass>>

\* ... and taken again to look for a slot: empty, or a dead path of the host,
Replaceable(p) ==
  {s \in Slots : ~ Used(s) \/ (Host[paths[s].p] = Host[p] /\ lastIn[paths[s].p] >= Alive)}

\* or the path that was silent for longest (ages beyond the caps are not told
\* apart, so any of the oldest; none if all were heard in this instant).
Oldest == {s \in Slots : \A t \in Slots : lastIn[paths[t].p] <= lastIn[paths[s].p]}

LearnSlots(p) == IF Replaceable(p) # {} THEN {Min(Replaceable(p))} ELSE Oldest

Learn ==
  /\ rx.pc = "learn"
  /\ LockFree
  /\ \/ \E s \in LearnSlots(rx.path) :
          paths' = [paths EXCEPT ![s] = [p |-> rx.path, lr |-> 0, priority |-> 1]]
     \/ /\ Replaceable(rx.path) = {}
        /\ \A s \in Slots : lastIn[paths[s].p] = 0
        /\ UNCHANGED paths
  /\ rx' = Idle
  /\ UNCHANGED <<lastIn, lastOut, uptime, sinceHello, pass>>
-----------------------------------------------------------------------------
(* What a handler does before it calls Peer::received.                     *)

NewPriority ==
  LET at == {s \in Slots : paths[s].p = rx.path}
  IN (IF at = {} THEN 1 ELSE paths[Min(at)].priority) + 2

\* The slots whose paths a redirection to n leaves in the table.
Kept(n) == {s \in Slots : Used(s) /\ paths[s].priority >= NewPriority /\ Net[paths[s].p] # Net[n]}

\* f lists the slots S from front to back.
InOrder(f, k, S) ==
  /\ \A i, j \in 1..k : i < j => f[i] < f[j]
  /\ S = {f[i] : i \in 1..k}

\* clusterRedirect: the peer's other paths give way to the one it names, which
\* follows those that are kept, if there is room.
ClusterRedirect(n) ==
  /\ rx.pc = "handle"
  /\ rx.verb = "PUSH_DIRECT_PATHS"
  /\ LockFree
  /\ n \in Usable
  /\ NewPriority <= MaxPriority
  /\ \E k \in 0..MaxPaths : \E f \in [1..k -> Slots] :
       /\ InOrder(f, k, Kept(n))
       /\ paths' = [t \in Slots |->
            IF t <= k THEN paths[f[t]]
            ELSE IF t = k + 1 THEN [p |-> n, lr |-> 0, priority |-> NewPriority]
            ELSE Empty]
  /\ UNCHANGED <<lastIn, lastOut, uptime, sinceHello, rx, pass>>

InScope(s, sc) == Used(s) /\ Scope[paths[s].p] = sc

\* resetWithinScope: an upstream reported another external address of ours.
ResetWithinScope(sc) ==
  /\ rx.pc = "handle"
  /\ rx.verb \in {"OK", "HELLO"}
  /\ LockFree
  /\ paths' = [s \in Slots |->
       IF InScope(s, sc) THEN [paths[s] EXCEPT !.lr = Never(Expiration)] ELSE paths[s]]
  /\ lastOut' = [p \in Paths |->
       IF \E s \in Slots : InScope(s, sc) /\ paths[s].p = p THEN 0 ELSE lastOut[p]]
  /\ UNCHANGED <<lastIn, uptime, sinceHello, rx, pass>>
-----------------------------------------------------------------------------
(* The background task: doPingAndKeepalive, _paths_m held throughout.      *)

\* Mutant: the pass begins at the second slot.
BeginPassLate ==
  /\ LockFree
  /\ LET hello == sinceHello >= PingPeriod IN
     /\ sinceHello' = IF hello THEN 0 ELSE sinceHello
     /\ pass' = [at |-> 2, hello |-> hello,
                 maxPriority |-> Max({0} \cup {paths[s].priority : s \in {t \in Slots : Used(t)}})]
  /\ UNCHANGED <<paths, lastIn, lastOut, uptime, rx>>

BeginPass ==
  /\ LockFree
  /\ LET hello == sinceHello >= PingPeriod IN
     /\ sinceHello' = IF hello THEN 0 ELSE sinceHello
     /\ pass' = [at |-> 1, hello |-> hello,
                 maxPriority |-> Max({0} \cup {paths[s].priority : s \in {t \in Slots : Used(t)}})]
  /\ UNCHANGED <<paths, lastIn, lastOut, uptime, rx>>

\* Mutant: paths do not expire.
CurrentForEver(s) == Used(s) /\ paths[s].priority = pass.maxPriority

\* The path in slot s is kept and, when due, pinged.
Current(s) == Used(s) /\ paths[s].lr < Expiration /\ paths[s].priority = pass.maxPriority

Behind(s) == {t \in Slots : t > s /\ Used(t)}

\* Mutant: nothing moves up.
EmptiedOnly(s) == [paths EXCEPT ![s] = Empty]

\* Mutant: the path that should move up is cleared as well.
CompactedLossy(s) ==
  IF Behind(s) = {}
    THEN [paths EXCEPT ![s] = Empty]
    ELSE [paths EXCEPT ![s] = Empty, ![Min(Behind(s))] = Empty]

\* Slot s is emptied, and the next path behind it moves up.
Compacted(s) ==
  IF Behind(s) = {}
    THEN [paths EXCEPT ![s] = Empty]
    ELSE LET t == Min(Behind(s)) IN [paths EXCEPT ![s] = paths[t], ![t] = Empty]

PassStep ==
  /\ pass.at > 0
  /\ LET s == pass.at IN
     IF Current(s)
       THEN /\ lastOut' = IF pass.hello \/ lastOut[paths[s].p] >= Heartbeat
                            THEN [lastOut EXCEPT ![paths[s].p] = 0]
                            ELSE lastOut
            /\ UNCHANGED paths
       ELSE /\ paths' = Compacted(s)
            /\ UNCHANGED lastOut
  /\ pass' = IF pass.at = MaxPaths THEN NoPass ELSE [pass EXCEPT !.at = @ + 1]
  /\ UNCHANGED <<lastIn, uptime, sinceHello, rx>>

\* Path::send: a packet goes out on a path that getAppropriatePath chose, or an
\* answer on the path that the packet came on.
Send(p) ==
  /\ InTable(p) \/ rx.path = p
  /\ lastOut' = [lastOut EXCEPT ![p] = 0]
  /\ UNCHANGED <<paths, lastIn, uptime, sinceHello, rx, pass>>

\* Topology::doPeriodicTasks drops the object of a path that nobody refers to;
\* it comes back as one that was never used.
ForgetPath(p) ==
  /\ LockFree
  /\ ~ InTable(p)
  /\ rx.path # p
  /\ lastIn' = [lastIn EXCEPT ![p] = Never(Alive)]
  /\ lastOut' = [lastOut EXCEPT ![p] = Never(Heartbeat)]
  /\ UNCHANGED <<paths, uptime, sinceHello, rx, pass>>

Older(age, cap) == IF age < cap THEN age + 1 ELSE age

Tick ==
  /\ LockFree
  /\ rx.pc = "idle"
  /\ paths' = [s \in Slots |-> [paths[s] EXCEPT !.lr = Older(@, Expiration)]]
  /\ lastIn' = [p \in Paths |-> Older(lastIn[p], Alive)]
  /\ lastOut' = [p \in Paths |-> Older(lastOut[p], Heartbeat)]
  /\ uptime' = Older(uptime, Expiration)
  /\ sinceHello' = Older(sinceHello, PingPeriod)
  /\ UNCHANGED <<rx, pass>>
-----------------------------------------------------------------------------
RxStep == Ignored \/ HavePath \/ Contact \/ BeginLearn \/ Learn

RxTask ==
  \/ \E p \in Paths, v \in Verbs : PacketIn(p, v)
  \/ RxStep
  \/ \E n \in Paths : ClusterRedirect(n)
  \/ \E sc \in {Scope[p] : p \in Paths} : ResetWithinScope(sc)

BgTask ==
  \/ BeginPass \/ PassStep
  \/ \E p \in Paths : ForgetPath(p)

Next == RxTask \/ BgTask \/ Tick \/ \E p \in Paths : Send(p)

Spec == Init /\ [][Next]_vars

\* The peer stays active, so passes recur and end; a packet that is being
\* handled is finished; time passes; packets need not arrive.
FairSpec ==
  /\ Spec
  /\ WF_vars(RxStep)
  /\ WF_vars(BeginPass)
  /\ WF_vars(PassStep)
  /\ SF_vars(Tick)
-----------------------------------------------------------------------------
(* Correctness.                                                            *)

\* Whoever takes _paths_m finds the paths at the front of the table: every
\* loop over it stops at the first empty slot and would miss the others.
NoHoles ==
  LockFree => \A s, t \in Slots : s < t /\ Used(t) => Used(s)

\* The table never holds two paths to one host: the check and the learning of
\* a path are two critical sections, and a pass may come in between ("prevents
\* learning loop").
OnePerHost ==
  \A s, t \in Slots : Used(s) /\ Used(t) /\ Host[paths[s].p] = Host[paths[t].p] => s = t

\* A pass loses no path that is current, whatever it removes and moves up, and
\* changes nothing of it.
PassKeepsCurrent ==
  [][pass.at > 0 =>
       \A s \in Slots : Current(s) => \E t \in Slots : paths'[t] = paths[s]]_vars

Best == Max({paths[s].priority : s \in {t \in Slots : Used(t)}})

\* Path p should be pinged by the next pass.
Due(p) ==
  \E s \in Slots :
    /\ paths[s].p = p
    /\ paths[s].lr < Expiration
    /\ paths[s].priority = Best
    /\ lastOut[p] >= Heartbeat

\* A current path on which nothing else is sent is pinged when its heartbeat is
\* due, although a pass that removes a path skips everything behind it.
KeptAlive == \A p \in Paths : Due(p) ~> ~ Due(p)

Expired(p) == \E s \in Slots : paths[s].p = p /\ paths[s].lr >= Expiration

\* A path that is not heard from leaves the table, although a pass removes at
\* most one path.
ExpiredReaped == \A p \in Paths : Expired(p) ~> ~ Expired(p)
-----------------------------------------------------------------------------
(* The inductive invariant behind the safety properties.                   *)

\* While a pass runs, only the slot it has reached may be empty before a used one.
Front == \A s, t \in Slots : s < t /\ Used(t) /\ s # pass.at => Used(s)

\* A path that is about to be learned is still unknown.
StillUnknown ==
  rx.pc = "learn" =>
    \A s \in Slots : Used(s) =>
      /\ paths[s].p # rx.path
      /\ Host[paths[s].p] = Host[rx.path] => lastIn[paths[s].p] >= Alive

IInv == TypeOK /\ Front /\ StillUnknown /\ OnePerHost
=============================================================================
