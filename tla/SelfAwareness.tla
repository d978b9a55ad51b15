--------------------------- MODULE SelfAwareness ---------------------------
(***************************************************************************)
(* What the node knows of its own external addresses (SelfAwareness), and  *)
(* when a report of a changed address makes it reset its paths.            *)
(*                                                                         *)
(* Peers report the address they see in HELLO and OK(HELLO).  A reporter   *)
(* here is a key of _phy: a peer at one remote address, on the only socket *)
(* of the firmware, in one scope.  The address of the node in a scope      *)
(* changes (another network, another NAT), and reports of the address      *)
(* before can still be on their way.  A surface is an IP address: ports    *)
(* are not compared.  What a reset does to the paths is in PeerPaths.      *)
(*                                                                         *)
(* The rx task handles reports, the background task cleans up with the     *)
(* time it read before.  Times are kept as ages, in ticks; the clock       *)
(* starts at boot.                                                         *)
(***************************************************************************)
EXTENDS Integers, FiniteSets, Functions

CONSTANTS
  Reporters,   \* peers that report what they see
  Upstreams,   \* those that are roots or moons: trusted
  Scope,       \* the scope in which each of them is
  Surfaces,    \* addresses the node can have
  None,        \* no report
  Timeout,     \* ZT_SELFAWARENESS_ENTRY_TIMEOUT, in ticks
  Word,        \* number of values of a uint64_t
  MaxLag,      \* bound: how old the time of a clean up can be
  MaxChanges,  \* bound: how often the address changes
  MaxReports,  \* bound: reports of an old address, since it changed
  MaxFirst     \* bound: resets by a first report, since the address changed

Scopes == Range(Scope)

ASSUME SelfAssumption ==
  /\ Upstreams \subseteq Reporters /\ DOMAIN Scope = Reporters
  /\ None \notin Surfaces
  /\ Timeout \in Nat \ {0} /\ MaxLag \in Nat /\ MaxChanges \in Nat
  /\ MaxReports \in Nat /\ MaxFirst \in Nat
  /\ Word \in Nat /\ Word > 2 * (Timeout + MaxLag)

VARIABLES
  phy,      \* _phy: surface and age of the last report of each reporter
  real,     \* the address of the node in each scope
  wire,     \* the report of each reporter that is on its way
  uptime,   \* the clock, saturated
  bg,       \* the background task: is it cleaning, age of its time
  changes,  \* (bound) changes of the address
  count     \* (history) in each scope, since the address changed: outdated reports,
            \* resets, and those among them by a reporter that had no entry

awareVars == <<phy, real, wire, uptime, bg, changes, count>>

MaxAge == Timeout + MaxLag

AwareTypeOK ==
  /\ DOMAIN phy \subseteq Reporters
  /\ phy \in [DOMAIN phy -> [surface: Surfaces, age: 0..MaxAge]]
  /\ real \in [Scopes -> Surfaces]
  /\ wire \in [Reporters -> Surfaces \cup {None}]
  /\ uptime \in 0..MaxAge
  /\ bg \in [cleaning: BOOLEAN, lag: 0..MaxLag]
  /\ changes \in 0..MaxChanges
  /\ count \in [Scopes -> [old: Nat, resets: Nat, first: Nat]]

NoCount == [old |-> 0, resets |-> 0, first |-> 0]

AwareInit ==
  /\ phy = << >>
  /\ real \in [Scopes -> Surfaces]
  /\ wire = [r \in Reporters |-> None]
  /\ uptime = 0
  /\ bg = [cleaning |-> FALSE, lag |-> 0]
  /\ changes = 0
  /\ count = [c \in Scopes |-> NoCount]
-----------------------------------------------------------------------------
(* The network around the node.                                            *)

\* The node gets another address.
Change(c, s) ==
  /\ changes < MaxChanges
  /\ s # real[c]
  /\ real' = [real EXCEPT ![c] = s]
  /\ changes' = changes + 1
  /\ count' = [count EXCEPT ![c] = NoCount]
  /\ UNCHANGED <<phy, wire, uptime, bg>>

\* A reporter sees a packet of the node, and answers.
Report(r) ==
  /\ wire[r] # real[Scope[r]]
  /\ wire' = [wire EXCEPT ![r] = real[Scope[r]]]
  /\ UNCHANGED <<phy, real, uptime, bg, changes, count>>
-----------------------------------------------------------------------------
(* SelfAwareness.                                                          *)

\* The entry of a reporter.  The table makes one with time 0 if there is none: it is
\* as old as the node is up, and counts as recent until Timeout after boot.
Entry(r) == IF r \in DOMAIN phy THEN phy[r] ELSE [surface |-> None, age |-> uptime]

\* A trusted reporter sees another address than it did, not too long ago.
ResetsPaths(r, s) == r \in Upstreams /\ Entry(r).age < Timeout /\ Entry(r).surface # s

\* Mutant: what others have reported in the scope is kept.
OthersAll(r) == DOMAIN phy \ {r}

\* The reporters in other scopes.
OthersOutside(r) == {q \in DOMAIN phy \ {r} : Scope[q] # Scope[r]}

\* iam.  If paths are reset, only this reporter is left in the scope.
Iam(r) ==
  LET s == wire[r]
      c == Scope[r]
      reset == ResetsPaths(r, s)
      first == reset /\ r \notin DOMAIN phy
      kept == IF reset THEN OthersOutside(r) ELSE DOMAIN phy \ {r}
  IN /\ s # None
     /\ s # real[c] => count[c].old < MaxReports
     /\ first => count[c].first < MaxFirst
     /\ wire' = [wire EXCEPT ![r] = None]
     /\ phy' = [q \in kept \cup {r} |-> IF q = r THEN [surface |-> s, age |-> 0] ELSE phy[q]]
     /\ count' = [count EXCEPT ![c] =
          [old |-> IF s # real[c] THEN @.old + 1 ELSE @.old,
           resets |-> IF reset THEN @.resets + 1 ELSE @.resets,
           first |-> IF first THEN @.first + 1 ELSE @.first]]
     /\ UNCHANGED <<real, uptime, bg, changes>>

\* The background task has read the time.
BeginClean ==
  /\ ~ bg.cleaning
  /\ bg' = [cleaning |-> TRUE, lag |-> 0]
  /\ UNCHANGED <<phy, real, wire, uptime, changes, count>>

\* Mutant: no entry is too old.
ExpiredNever(r) == FALSE

\* now - e->ts is unsigned.
Expired(r) == (phy[r].age - bg.lag) % Word >= Timeout

\* clean.
Clean ==
  /\ bg.cleaning
  /\ bg' = [bg EXCEPT !.cleaning = FALSE]
  /\ phy' = Restrict(phy, {r \in DOMAIN phy : ~ Expired(r)})
  /\ UNCHANGED <<real, wire, uptime, changes, count>>

\* whoami, in a scope.
WhoAmI(c) == {phy[r].surface : r \in {r \in DOMAIN phy : Scope[r] = c}}

Older(age) == IF age < MaxAge THEN age + 1 ELSE age

Tick ==
  /\ bg.cleaning => bg.lag < MaxLag
  /\ uptime' = Older(uptime)
  /\ phy' = [r \in DOMAIN phy |-> [phy[r] EXCEPT !.age = Older(@)]]
  /\ bg' = [bg EXCEPT !.lag = IF bg.cleaning THEN @ + 1 ELSE @]
  /\ UNCHANGED <<real, wire, changes, count>>
-----------------------------------------------------------------------------
AwareNext ==
  \/ \E c \in Scopes, s \in Surfaces : Change(c, s)
  \/ \E r \in Reporters : Report(r) \/ Iam(r)
  \/ BeginClean \/ Clean \/ Tick

AwareSpec == AwareInit /\ [][AwareNext]_awareVars

\* Time passes and the background task goes on.  Nobody has to report anything.
AwareFairSpec == AwareSpec /\ WF_awareVars(BeginClean) /\ WF_awareVars(Clean) /\ WF_awareVars(Tick)
-----------------------------------------------------------------------------
(* Correctness.                                                            *)

\* A change of address that several roots see resets the paths once, because the
\* first report erases what the others said before.  A report that is outdated
\* costs at most two resets more: its own, and that of the next one.  In the first
\* Timeout after boot a root without an entry resets the paths too, and with what
\* it erases the others' first reports can do so again and again: that costs one
\* reset for each such report, and none beyond it.
ResetOnce == \A c \in Scopes : count[c].resets <= 1 + 2 * count[c].old + count[c].first

\* Some root is still remembered to have seen another address than the node has.
Outdated(c) == \E r \in DOMAIN phy \cap Upstreams : Scope[r] = c /\ phy[r].surface # real[c]

\* The inductive invariant: a reset, and an address that may still cause one, count
\* alike.  A reset by a report that is up to date ends what is outdated in its scope.
AwareIInv ==
  /\ AwareTypeOK
  /\ \A c \in Scopes :
       count[c].resets + (IF Outdated(c) THEN 1 ELSE 0) <= 1 + 2 * count[c].old + count[c].first

\* An address the node no longer has is forgotten, whoever stops reporting.
OldForgotten == \A c \in Scopes : <>[](WhoAmI(c) \subseteq {real[c]})
=============================================================================
