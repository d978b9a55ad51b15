----------------------------- MODULE NodeOnline -----------------------------
(***************************************************************************)
(* How a node stays in contact with its roots and decides whether it is    *)
(* online: the ping check of Node::processBackgroundTasks, against the rx  *)
(* task that hears the roots' answers in the meantime.                     *)
(*                                                                         *)
(* A root is pinged as rarely as possible while it has a path, and at      *)
(* every check while it has none; a path that expired still counts until   *)
(* the next ping finds it (Peer::paths lists all of them).                 *)
(*                                                                         *)
(* Times are ages in ticks, saturated where the code stops telling them    *)
(* apart; the clock counts from boot, and a timestamp of 0 is as old as    *)
(* the node.  The background loop runs at least every 500 ms (doTimerTasks *)
(* returns no more), so a check that is due comes before the next tick,    *)
(* and so does the end of an exchange with a root: an answer, or its loss. *)
(***************************************************************************)
EXTENDS Integers, FiniteSets, FiniteSetsExt

CONSTANTS
  Roots,        \* roots of the planet (with IPv4 endpoints)
  Interval,     \* ZT_PING_CHECK_INTERVAL, in ticks
  HelloPeriod,  \* ZT_PATH_HEARTBEAT_PERIOD * 16: a root with a path, in ticks
  PingPeriod,   \* ZT_PEER_PING_PERIOD, in ticks
  Expiration,   \* ZT_PEER_PATH_EXPIRATION, in ticks
  Timeout,      \* ZT_PEER_ACTIVITY_TIMEOUT, in ticks
  MaxLost       \* cap on the count of exchanges with a root that failed in a row

ASSUME OnlineAssumption ==
  /\ Roots # {} /\ IsFiniteSet(Roots)
  /\ Interval \in Nat \ {0} /\ HelloPeriod \in Nat \ {0} /\ PingPeriod \in Nat \ {0}
  /\ Expiration \in Nat \ {0} /\ Timeout \in Nat \ {0} /\ MaxLost \in Nat
  /\ PingPeriod <= HelloPeriod /\ HelloPeriod < Expiration /\ Expiration < Timeout
  /\ 2 * (HelloPeriod + Interval) < Timeout /\ MaxLost > 1

VARIABLES
  uptime,       \* the clock, capped at Cap
  lastReceive,  \* age of Peer::_lastReceive of each root, capped at Cap
  lastHello,    \* age of Peer::_lastSentFullHello, capped at HelloPeriod + 1
  path,         \* does the root have a path in its table?
  lr,           \* age of that path's lr, capped at Expiration
  sinceCheck,   \* age of _lastPingCheck, capped at Interval
  check,        \* the ping check: control, roots to visit, newest receive seen
  online,       \* _online
  asked,        \* roots that a HELLO is under way to
  lost,         \* exchanges that failed since the root was heard from
  heard         \* (history) roots that were ever heard from

onlineVars == <<uptime, lastReceive, lastHello, path, lr, sinceCheck, check, online,
                asked, lost, heard>>

\* A check sees a receive time that passed the timeout at most an interval ago.
Cap == Timeout + Interval

NoCheck == [on |-> FALSE, todo |-> {}, seen |-> 0]

OnlineTypeOK ==
  /\ uptime \in 0..Cap
  /\ lastReceive \in [Roots -> 0..Cap]
  /\ lastHello \in [Roots -> 0..(HelloPeriod + 1)]
  /\ path \in [Roots -> BOOLEAN]
  /\ lr \in [Roots -> 0..Expiration]
  /\ sinceCheck \in 0..Interval
  /\ check \in [on: BOOLEAN, todo: SUBSET Roots, seen: 0..Cap]
  /\ online \in BOOLEAN
  /\ asked \in SUBSET Roots
  /\ lost \in [Roots -> 0..MaxLost]
  /\ heard \in SUBSET Roots

OnlineInit ==
  /\ uptime = 0
  /\ lastReceive = [r \in Roots |-> 0]
  /\ lastHello = [r \in Roots |-> 0]
  /\ path = [r \in Roots |-> FALSE]
  /\ lr = [r \in Roots |-> Expiration]
  /\ sinceCheck = 0
  /\ check = NoCheck
  /\ online = FALSE
  /\ asked = {}
  /\ lost = [r \in Roots |-> 0]
  /\ heard = {}

Older(age, cap) == IF age < cap THEN age + 1 ELSE age
-----------------------------------------------------------------------------
(* The ping check.                                                         *)

\* It is due: look when each root was last heard from (none: the time 0).
BeginCheck ==
  /\ ~ check.on
  /\ sinceCheck >= Interval
  /\ sinceCheck' = 0
  /\ check' = [on |-> TRUE, todo |-> Roots,
               seen |-> Min({uptime} \cup {lastReceive[r] : r \in Roots})]
  /\ UNCHANGED <<uptime, lastReceive, lastHello, path, lr, online, asked, lost, heard>>

\* Mutant: a root is contacted half as often while it has a path.
HelloTooRare(r) == lastHello[r] > (IF path[r] THEN 2 * HelloPeriod ELSE 0)

\* _PingPeersThatNeedPing: is it time to contact root r?
HelloDue(r) == lastHello[r] > (IF path[r] THEN HelloPeriod ELSE 0)

SkipRoot(r) ==
  /\ r \in check.todo
  /\ ~ HelloDue(r)
  /\ check' = [check EXCEPT !.todo = @ \ {r}]
  /\ UNCHANGED <<uptime, lastReceive, lastHello, path, lr, sinceCheck, online, asked, lost, heard>>

\* doPingAndKeepalive drops an expired path, and otherwise sends a HELLO on it;
\* without a path a HELLO goes to one of the root's stable endpoints.
PingRoot(r) ==
  /\ r \in check.todo
  /\ HelloDue(r)
  /\ lastHello' = IF lastHello[r] >= PingPeriod THEN [lastHello EXCEPT ![r] = 0] ELSE lastHello
  /\ path' = [path EXCEPT ![r] = @ /\ lr[r] < Expiration]
  /\ asked' = asked \cup {r}
  /\ check' = [check EXCEPT !.todo = @ \ {r}]
  /\ UNCHANGED <<uptime, lastReceive, lr, sinceCheck, online, lost, heard>>

\* Mutant: the node never goes offline again.
UpdateOnlineLatched ==
  /\ check.on
  /\ check.todo = {}
  /\ online' = (online \/ check.seen < Timeout)
  /\ check' = NoCheck
  /\ UNCHANGED <<uptime, lastReceive, lastHello, path, lr, sinceCheck, asked, lost, heard>>

\* Mutant: a node that went offline stays so.
UpdateOnlineOnce ==
  /\ check.on
  /\ check.todo = {}
  /\ online' = (check.seen < Timeout /\ (online \/ uptime < Timeout))
  /\ check' = NoCheck
  /\ UNCHANGED <<uptime, lastReceive, lastHello, path, lr, sinceCheck, asked, lost, heard>>

\* The status follows from what was seen at the beginning of the check.
UpdateOnline ==
  /\ check.on
  /\ check.todo = {}
  /\ online' = (check.seen < Timeout)
  /\ check' = NoCheck
  /\ UNCHANGED <<uptime, lastReceive, lastHello, path, lr, sinceCheck, asked, lost, heard>>
-----------------------------------------------------------------------------
(* The rx task, and the network.                                           *)

\* Peer::received, with the answer to a HELLO: the path is learned or renewed.
Answer(r) ==
  /\ r \in asked
  /\ asked' = asked \ {r}
  /\ lastReceive' = [lastReceive EXCEPT ![r] = 0]
  /\ path' = [path EXCEPT ![r] = TRUE]
  /\ lr' = [lr EXCEPT ![r] = 0]
  /\ lost' = [lost EXCEPT ![r] = 0]
  /\ heard' = heard \cup {r}
  /\ UNCHANGED <<uptime, lastHello, sinceCheck, check, online>>

\* Another packet of the root renews a path that is known.  An unknown path is
\* tried with a HELLO, at most once a second; it is learned if that is answered.
Traffic(r) ==
  /\ lastReceive' = [lastReceive EXCEPT ![r] = 0]
  /\ path' \in {path, [path EXCEPT ![r] = TRUE]}
  /\ lr' = IF path'[r] THEN [lr EXCEPT ![r] = 0] ELSE lr
  /\ lost' = [lost EXCEPT ![r] = 0]
  /\ heard' = heard \cup {r}
  /\ UNCHANGED <<uptime, lastHello, sinceCheck, check, online, asked>>

Lose(r) ==
  /\ r \in asked
  /\ asked' = asked \ {r}
  /\ lost' = [lost EXCEPT ![r] = Older(@, MaxLost)]
  /\ UNCHANGED <<uptime, lastReceive, lastHello, path, lr, sinceCheck, check, online, heard>>

Tick ==
  /\ ~ check.on
  /\ sinceCheck < Interval
  /\ asked = {}
  /\ uptime' = Older(uptime, Cap)
  /\ lastReceive' = [r \in Roots |-> Older(lastReceive[r], Cap)]
  /\ lastHello' = [r \in Roots |-> Older(lastHello[r], HelloPeriod + 1)]
  /\ lr' = [r \in Roots |-> Older(lr[r], Expiration)]
  /\ sinceCheck' = sinceCheck + 1
  /\ UNCHANGED <<path, check, online, asked, lost, heard>>
-----------------------------------------------------------------------------
OnlineNext ==
  \/ BeginCheck \/ UpdateOnline
  \/ \E r \in Roots : SkipRoot(r) \/ PingRoot(r) \/ Answer(r) \/ Traffic(r) \/ Lose(r)
  \/ Tick

OnlineSpec == OnlineInit /\ [][OnlineNext]_onlineVars

\* The background loop runs for ever, time passes, and an exchange comes to an end.
OnlineFairSpec ==
  /\ OnlineSpec
  /\ WF_onlineVars(BeginCheck) /\ WF_onlineVars(UpdateOnline) /\ WF_onlineVars(Tick)
  /\ \A r \in Roots : WF_onlineVars(SkipRoot(r) \/ PingRoot(r)) /\ WF_onlineVars(Answer(r) \/ Lose(r))
-----------------------------------------------------------------------------
(* Correctness.                                                            *)

\* One exchange that fails is made good in time: a root that failed at most once
\* since it was heard from does not count as silent, since the next HELLO to it
\* is sent before the timeout, although its path has expired unnoticed.
OneLossForgiven ==
  \A r \in heard : lost[r] <= 1 => lastReceive[r] < Timeout

Silent == \A r \in Roots : lastReceive[r] >= Timeout

\* A packet that comes in during a check is not seen by it, and the node may go
\* offline in that moment; a later check puts that right.
BackOnline == (~ online /\ ~ Silent) ~> (online \/ Silent)

\* The node does not stay online on a stale reading: while it is online, a root
\* was heard from (or the node booted) less than the timeout and one check ago.
OnlineFresh ==
  online => \/ uptime < Cap
            \/ \E r \in Roots : lastReceive[r] < Cap
-----------------------------------------------------------------------------
(* The inductive invariant behind the safety properties.                   *)

\* Time stands still in a check, and until the exchanges that it began have ended.
CheckOK ==
  /\ check.on => sinceCheck = 0
  /\ ~ check.on => check.todo = {}
  /\ sinceCheck > 0 => asked = {}
  /\ asked \cap check.todo = {}

\* A root was heard from, or the node booted, less than b ticks ago.
FreshWithin(b) == uptime < b \/ \E r \in Roots : lastReceive[r] < b

\* What a check saw is still so at its end, and what the status says is as old as
\* the last check.
FreshOK ==
  /\ check.on => FreshWithin(check.seen + 1)
  /\ online => FreshWithin(IF check.on THEN Cap ELSE Timeout + sinceCheck)

\* The longest time from one HELLO to a root until the next.
Round == HelloPeriod + Interval

\* How long ago a root was heard from, at most, when its last exchange failed.
Before(r) == IF lost[r] = 0 THEN 0 ELSE Round

\* A root that was heard from is silent no longer than the HELLO, or the check that
\* finds it due, is under way.
ContactOK ==
  \A r \in heard : lost[r] <= 1 =>
    IF r \in asked
      THEN lastReceive[r] <= Before(r) + Round
      ELSE /\ lastHello[r] <= HelloPeriod => lastReceive[r] <= Before(r) + lastHello[r]
           /\ lastReceive[r] <= Before(r) + HelloPeriod
                                + (IF r \in check.todo THEN Interval ELSE sinceCheck)

OnlineIInv == OnlineTypeOK /\ CheckOK /\ FreshOK /\ ContactOK
=============================================================================
