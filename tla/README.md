# A TLA+ verification of zerotier-esp32

The repository ports the core of ZeroTier One (`src/ZeroTierOne/node`) to the
ESP32: the core is built as an ESP-IDF component with a small port layer
(`src/components/zerotier_node/port`) and two firmwares, `src/main/main.cpp`
(`qemu/main` is a copy of it) and `src/qemu-wrapper/main/main.cpp`.

Two FreeRTOS tasks of equal priority run the core, on two cores if the chip has
them:

- the **rx task** (`zt_recv_task`, `zt_rx_task`) receives one datagram after the
  other and hands it to `Node::processWirePacket`, i.e. `Switch::onRemotePacket`;
- the **background task** (`zt_main_task`, `zt_task`) calls
  `Node::processBackgroundTasks` several times a second.

They share the tables of the core under many small locks. Packets may be lost,
repeated and reordered; power may fail at any time; and the clock counts
milliseconds **from boot**, while the core, written for a wall clock, uses 0 for
"never". These are the behaviours the project is about.

## Inventory

| Component | State | Operations | Hard because | Correct if |
|---|---|---|---|---|
| `Switch`, receive side | ring `_rxQueue` and its counter, `_lastSentWhoisRequest`, `_lastCheckedQueues` | `onRemotePacket`, `_findRXQueueEntry`, `requestWhois`, `doAnythingWaitingForPeer`, `doTimerTasks` | lookup without a lock, entries freed by the other task, fragments in any order, ring smaller than the traffic | parts of one packet only, in one entry; waiting packets leave the queue |
| `IncomingPacket` | - | `tryDecode` and one handler per verb | a handler may have to wait for an identity or a membership | nothing is handled twice or forgotten |
| `Peer`, `Path` | path table `_paths`, last-in and last-out times | `received`, `doPingAndKeepalive`, `clusterRedirect`, `resetWithinScope` | one packet takes the lock several times; the table is compacted in place | no holes, no two paths to a host, live paths kept alive, dead ones reaped |
| `Topology` | `_peers`, `_planet`, `_moons`, `_moonSeeds`, upstreams, path objects | `addPeer`, `getPeer`, `addWorld`, `addMoon`, `removeMoon`, `doPeriodicTasks` | cache in flash behind the table; worlds arrive while the application orbits and deorbits | newest planet, only worlds that somebody vouched for, every upstream has a peer |
| `Node` | identity, networks, `_online` | start-up, `processBackgroundTasks`, `join`, `leave` | status computed from stale readings, sentinel 0 | status follows the roots, same identity after a restart |
| port storage | NVS partition | `zt_state_put(_impl)`, `zt_state_get(_impl)` | power failures, full flash, keys | what was stored is found again |
| `SelfAwareness` | `_phy`: external addresses as reported | `iam`, `clean`, `whoami` | may reset every path; reports are late and repeated | one reset for a change, old addresses forgotten |
| `Network` | `_config`, slots of chunks, port state | `handleConfigChunk`, `setConfiguration`, `join`, `leave`, `requestConfiguration` | chunks of several updates out of order; leave in another task; power failures | only whole configurations that the controller signed for this node |
| `Membership`, credentials | certificates, `_revocations`, times of pushes | `addCredential`, `pushCredentials`, `gate`, `clean` | credentials, revocations and rate limits in any order | nothing revoked in use, whatever the order; members are admitted |
| `Switch`, send side | `_txQueue`, AQM queues | `send`, `_trySend`, `_sendViaSpecificPath`, `aqm_enqueue`, `aqm_dequeue` | a packet is in the queue, in a flush or in a pass; queue at its limit; unsigned ages | nothing sent twice or forgotten, all bytes sent |
| `Multicaster`, `OutboundMulticast` | group members, frames that wait for members | `send`, `add`, `remove`, `clean` | members come and go while a frame waits | nobody gets a frame twice or is left out, limits hold |
| cryptography, `Packet`, bonding, metrics, trace, TAP | - | - | computation on bytes, or stubs | not modelled |

`PROJECT.json` lists the hazards one by one, at their lines.

## Modules

Names follow the source. Time is a number of ticks, and a timestamp is kept as
its **age** (now - timestamp), saturated where the code stops telling ages
apart; behaviours are therefore infinite and no clock bound cuts them short. A
timestamp of 0 is as old as the node (`Never`).

**RxQueue** - the receive queue. A step is what one task does between two lock
operations: `RecvPart` looks an entry up (no lock held), `StoreNew`,
`StoreDuplicate` and `StorePart` are the three branches of `onRemotePacket` once
the entry is locked (for a head and for a later fragment, which the code treats
in two copies); `RecvWhole` is the branch for unfragmented packets; `RecvHello`
makes a sender known without waking anybody, `RecvWhoisOK` and `FlushEntry` are
`doAnythingWaitingForPeer`; `BeginPass` and `PassEntry` are the receive half of
`doTimerTasks`; `ForgetPeer` is `Topology::doPeriodicTasks`. `Decodes` says what
`tryDecode` decides: the sender must be known and, if the MAC is right (all
parts are of the packet), so must what the handler needs (`Needs`: the identity
of a credential's signer, or a membership that `Network::gate` asks for).
`Defer` is what a failing `tryDecode` leaves behind: a rate-limited WHOIS, and a
cached peer that `getPeer` loads but does not return. Memberships come and go
(`Grant`, `Revoke`), since their handlers are not part of this module. A part of
a packet is represented by its owner: an entry's contents are a sequence of
packet ids, and "nothing of another packet" is visible. The ring counter wraps
at `PtrSpan`, for 2^32.

**PeerPaths** - the path table of one peer. `PacketIn` starts a packet;
`HavePath`, `Ignored`, `Contact`, `BeginLearn` and `Learn` are the branches of
`Peer::received`, whose check and whose learning are separate critical sections;
`ClusterRedirect` and `ResetWithinScope` may precede it in a handler. A pass
(`BeginPass`, then one `PassStep` per slot) is `doPingAndKeepalive` with the lock
held; the single steps are kept to see what each does to the table. `Send` is
`Path::send`. Bonding is a stub in this port and is left out.

**NodeStore** - flash and start-up. `Key`, `Put` and `Get` are the storage
functions of the firmware that `Port` selects; `LoadSecret` to `CheckPublic` are
the constructor of `Node`, `CachedPlanet` and `DefaultPlanet` that of `Topology`,
one flash operation per step; `PowerFailure` may come anywhere. Any put and any get
may fail (`Fail`), whether the object is there and whether there is room or not: a
put is then only logged, and a get finds nothing, or the embedded identity
(`Fallback`). `PowerOn` may erase the partition. `kept` and `newest` record what was
stored, `failed` which operations failed since boot, and for which type. `AddPeer`,
`GetPeer` and `SavePeer` use the cache. `Low` is what a key keeps of an id: its
low 32 bits, which need not be distinct. Node refuses to start with a stored
secret that does not parse; a blob in NVS is written whole or not at all, so
this does not arise.

**NodeOnline** - the ping check. `BeginCheck` reads when the roots were last
heard from, `SkipRoot` and `PingRoot` are `_PingPeersThatNeedPing` for one root,
`UpdateOnline` ends the check; `Answer`, `Traffic` and `Lose` are the rx task and
the network. A root's path table is abstracted to one path, which may have
expired without having been removed: that is what `Peer::paths` counts. Time is
abstracted to checks that are never late.

**NetworkPromise** - the abstract specification of a network's configuration:
`Adopt`, `Drop`, `Resume` and `Store` of configurations the controller issued.

**NetConfig** - how a `Network` keeps that promise. `HandleConfigChunk` is
`Network::handleConfigChunk` up to the unlock, `IgnoreConfiguration`,
`SetConfiguration` and `SaveToDisk` are `setConfiguration`, `Reply` the OK; `Join` is `Node::join` with the constructor of `Network` (the
placeholder it stores, a dictionary with nothing in it, counts as no
configuration), `LeaveDestroy` to `LeaveDelete` are `Node::leave`, one step per
lock and callback; `SetAuthenticationRequired` is an ERROR of the controller,
`PingCheck` the background task's request. The calls to the port and
`_netconfFailure`, which only the application sees, are left out. The counters of
the slots are only compared, and are kept relative to the lowest (`Rebased`).
Every chunk is one unit long, and a slot's dictionary is the owner of each chunk: it is never
cleared when a slot is taken for another update, and a configuration that mixes
updates (`Mixed`) is a value of its own. A legacy update is one chunk that is not
signed. `Promise == INSTANCE NetworkPromise WITH ...` is the refinement mapping.

**Membership** - what one node keeps of one member. Certificates are
represented by their timestamps, 0 for none; the three tables of tags,
capabilities and ownerships, kept by one template, are one table. `seen` and
`seenRev` record what has been received, independently of the order; `InForce` says
from them alone, and not from the code's tables, what should be in use.
`CleanErase` is the branch of `Network::clean` for members that left the
topology: it forgets revocations too.

**Admission** - two members that push their certificates to each other:
`PushCredentialsIfNeeded`, the ERROR that asks for credentials, both rate limits,
the deferred push and the deferred frame, and updates at either end. A packet
with credentials counts as a push for the limits before its contents are looked
at. A tick is a second: a push and an update in the same one are in the order in
which the code compares them.

**Fragments** - the arithmetic of fragments as operators: `FragmentCount`,
`ChunkSize` and `Pieces` are how `_sendViaSpecificPath` cuts a packet, `Sane` is
what `onRemotePacket` takes. Sizes are real ones; a piece is where it starts and
how long it is. `Nibble` is the width of the number and the count of fragments.
`Largest` is the size of the packet buffer, `Capacity` the longest packet that
`MaxFragments` pieces carry, which is less. `TxQueue` extends the module: what the
queue sends goes out in pieces.

**Worlds** - planet, moons, seeds, upstreams. `AddWorld` is `Topology::addWorld`,
used by `RecvWorld` (the worlds of an OK(HELLO), one after the other) and by
`OrbitStored`; `Orbit` and `OrbitSeed` are the rest of `addMoon`, `Deorbit` is
`removeMoon`, `Restart` the constructor. A world carries the key that must sign
its successor and the key that signed it.

**Mailbox** - the abstract specification of sending: packets are handed over
(`pending`), sent (`delivered`) or `dropped`, several of them in one step.

**TxQueue** - the transmit queue, and how it keeps that promise
(`Box == INSTANCE Mailbox WITH ...`: what waits, or is in the hand of a sender on its
way into the queue, is pending). `Send`, `SendPush` and `SendAsk` are the three
parts of `Switch::send`, `Flush` is the transmit half of
`doAnythingWaitingForPeer`. The timer pass goes through the queue with its mutex:
`TimerBegin`, then for each entry `TimerTry` and, if that was in vain, `TimerAge`,
then `TimerPassed`; peers and paths may change between any two of these, since the
mutex is not theirs, and `Locked` keeps everybody else from the queue. `TimerWhois`
is the rest of it. `seen` records which packets were in the queue when the background
task read its time.
Two tasks send. Each reads the clock, then enters the node and sets `Node::_now`
(`BgRead`, `BgEnter`, `Enter`), so that the node's time may go back by the lag
between the two; ages are compared modulo `Word`, as unsigned numbers are.

**Multicast** - one group. `SendDirect` and `SendQueued` are the two branches of
`Multicaster::send`, `Add` and `Serve` are `_add`, `Clean` is `clean`, with the
time that the background task read in `BeginClean`; `waited` records which frames
waited then. Which members are tried first
is random in the code and any order here.

**SelfAwareness** - reports of the node's external address. A reporter is a key of
`_phy`; the firmware has one socket. `count` records, since the address changed, all
resets, the reports that were outdated, and those resets that a first report of a
root caused in the time after boot, when its missing entry counts as recent.

**Lists** - `EraseAt`, what is left of a `std::list` when entries are erased while it
is gone through; `TxQueue` and `Multicast` use it.

**MC...** - one instance of each module.

**Proofs** - **SetFacts** has the facts that several proofs share: minima, maxima,
and what `EraseAt` keeps, drops and leaves in order. **RxQueueProofs**,
**PeerPathsProofs**, **TxQueueProofs** and **MulticastProofs** extend the module they
are about. Three extend two modules each: **NodeProofs** (`NodeStore` and
`NodeOnline`), **NetworkProofs** (`NetConfig` and `Membership`), **TopologyProofs**
(`Worlds` and `SelfAwareness`). So that two modules can be used side by side, the
second of each pair names what is in every module after its subject: `OnlineInit`,
`MemberNext`, `AwareSpec` and so on.

*How they meet.* `RxQueue` and `NodeStore` meet in `Topology::getPeer`: the first
keeps only whether a peer is cached, the second what comes back. `RxQueue` has the
waiting packet that `Admission` has as a deferred push or frame, with what makes
it wait left open; `TxQueue` has the WHOIS of `RxQueue` from the sender's side.
`Membership` and `Admission` share `gate`: the first has every credential of one
member, the second the exchange of one certificate between two. `NetConfig`
supplies the timestamp that both compare with. `SelfAwareness` decides when the
`ResetWithinScope` of `PeerPaths` happens.

## Runs

| Run | Checks | Instance | States |
|---|---|---|---|
| `rxqueue` | `Reassembled`, `OneEntryPerPacket`, `FlushReleases`, `PartialKept`, `ExpiredFreed`, `ReadyDecoded` | ring of 2; a packet of two parts and a whole one, one peer, one membership | 152 483 |
| `peerpaths` | `NoHoles`, `OnePerHost`, `PassKeepsCurrent`, `KeptAlive`, `ExpiredReaped` | 2 slots, 3 paths, two of one host | 187 873 |
| `nodestore` | `SameIdentity`, `NewestPlanet`, `PublicMatches`, `PeersAlike` | keys of `qemu-wrapper`, 2 identities, 3 peers, three planets | 108 216 |
| `nodeonline` | `OneLossForgiven`, `OnlineFresh`, `BackOnline` | 2 roots | 114 996 |
| `netconfig` | `KeepsPromise` (refinement), `NotReplayed`, `Configured`, `Refreshed` | 2 slots; updates: two chunks, one chunk, legacy, foreign, forged | 224 064 |
| `membership` | `OrderFree` | 2 credentials, controller's clock to 3 | 0.36 million |
| `membership_com` | `ComOrderFree`: violated | the same | - |
| `admission` | `Admitted` | two members, updates at both ends | 0.14 million |
| `worlds` | `WorldsTrusted`, `OnlyOrbited`, `UpstreamsKnown`, `NoRollback`, `MoonFound` | three planets, a forged one, two revisions of a moon | 80 523 |
| `txqueue` | `CarriesMail` (refinement), `SentIntact`, `GivenUpOld`, `Delivered` | 2 senders, queue of 2, sizes 1 to 10 024 bytes, 2 MTUs | 415 170 |
| `multicast` | `SentOnce`, `LimitKept`, `NobodyMissed`, `StopsInTime`, `Drained` | 4 members, one a bridge, 2 frames, limit 2, queue of 1 | 247 274 |
| `selfawareness` | `ResetOnce`, `OldForgotten` | 2 roots, a local peer, 2 addresses | 1 384 768 |

Each property is shown to be about the code by a mutant: a plausible mistake in
one mapped definition (`PROJECT.json`, `mutants`) that breaks it.

*Bounds.* In `rxqueue` the ring has two entries, so entries are taken from
unfinished packets, freed and found again; `PtrSpan` equals the ring size, which
makes the counter wrap at every turn. Two parts are the least that can arrive out
of order; that marks of a former packet never complete a longer one is the proof's
matter, for any number of parts. In `peerpaths` there are more paths than slots,
so that learning must replace, and two slots suffice for a deletion to move a path
into a slot the pass has left behind; `MaxPriority` 3 is one redirection.
In `nodestore` two of the three peers have the low 32 bits of their addresses in
common, and two planets later than the one compiled in let a newer one be stored, or
not, over a stored one. `nodeonline` keeps
the order of the real constants and the distances that matter: the hello period
(224 s) is below the path expiration (243 s), and twice the period and a check are
below the timeout (500 s), scaled to Hello 3, Expiration 4, Timeout 9; `MaxLost` 2
tells one loss from more. `netconfig` has more updates than slots, so that a slot
with half an update is taken for another. `membership` has three points in time
(before, at and after a revocation) and a delta that lets a credential be too far
off in both directions. In `admission` the versions (3) let both ends update
twice, and a push is repeated after a time longer than the rate limit of one
tick; a push is one packet (`Parts`), since of two the network may deliver the second
one first each time, and the first then meets the rate limit for ever. In `worlds` the second planet changes the key and the roots, so that the
third is signed by a key the first does not know. `txqueue` checks every packet
size, since the mistakes of a division are at its boundaries: 1432 is
`ZT_DEFAULT_PHYSMTU`, 2800 a larger MTU that an application may configure for a
path. The queue holds two entries, so that a pass that erases one goes on with
another, and the WHOIS requests of two senders evict a packet. `multicast` has a limit below the number of members and a queue below the
number of frames, and a `Timeout` above `MaxLag`, so that an early erasure and one in
time differ. `selfawareness` has two roots, the least for which one change
may be reported twice; `MaxFirst` 2 lets two first reports reset in turn. Ages are saturated where no comparison tells them apart,
which is why no clock bound cuts behaviours short; `Word` is a width at which the
wrap of an unsigned difference shows.

*Fairness.* `FairSpec` assumes that the background loop goes on (an endless loop
with a bounded sleep), that time passes, and that the rx task finishes what it has
begun (it waits for nothing but locks). Of the network as little as possible:

- `RxQueue`, `PeerPaths`, `Multicast`, `SelfAwareness`: nothing; packets need not
  arrive. In `PeerPaths` passes recur, as they do while the peer `isActive` or is
  a root, and time is strongly fair, since it stands still while a handler uses
  its reading of the clock.
- `NodeOnline`: an exchange ends, in an answer or a loss.
- `NetConfig`: some genuine update of one chunk arrives again and again, since the
  background task asks until it does. An update of several chunks may lose its
  slot to others for ever, and nothing is promised of it.
- `Admission`: what is sent again and again is received at some time (strong
  fairness of the receiving steps), and the sender goes on sending frames.
- `Worlds`: seeds and roots go on answering, and an address that keeps answering
  is not evicted for ever.
- `TxQueue`: nothing of senders, the network or who answers; they need not get the
  mutex. Tasks enter the node, and the clock is strongly fair, since it stands still
  when a task has worked with its reading for `MaxLag`.

*Deadlock* is checked in every run: no module can stop.

## What the runs show

**Receive queue.** It is right although its lookup takes no lock. A freed entry
keeps its packet id and its marks, and a part that arrives for a packet which the
background task has just freed is recognised as a duplicate. Incomplete packets
are never timed out (`PartialKept`); only the ring replaces them. A HELLO wakes no
waiting packet; the timer pass does (`ReadyDecoded`).

**Path table.** It stays compact and free of duplicates although a pass can come
between the check and the learning. A pass that deletes a path does not look at
those behind it, but later passes do (`KeptAlive`, `ExpiredReaped`).

**Network configuration.** The dictionary of a slot is never cleared, yet no
configuration mixes two updates: bytes are counted only for chunks that the slot
did not have. A network that is left while an update is being applied is neither
revived nor left with a configuration in flash that was never in use.

**Credentials.** Tags, capabilities and ownerships end up the same in whatever
order they and their revocations arrive, and a member is admitted in the end
although the rate limits and deferrals drop pushes on the way.

**Worlds.** Checks and additions are under different locks, yet a moon that was
deorbited does not come back with an OK that is still being handled, because its
seeds go with it.

**Storage.** What was stored survives power failures and failing puts, also of an
object that is replaced. A get that fails is another matter: the core cannot tell it
from an object that is not there, makes a new identity and stores it over the old
one. `SameIdentity` and `NewestPlanet` say that nothing else does this, apart from
the erasing of the partition at boot.

**Transmit queue.** No packet is sent twice, or vanishes between the attempt to send
it and the queue, in a flush or in a pass (`CarriesMail`), and `Delivered` holds even
if the destination is learned after the attempt to send and before the packet is
queued, when neither the flush nor another WHOIS would see it: the timer retries.
Two packets may be given up although they need not be: one whose destination is
learned between the attempt and the look at its age, and one that was queued after
the pass read its time, whose unsigned age is then enormous. `Delivered` and
`GivenUpOld` say that no other is.

**Multicast and SelfAwareness.** Nobody gets a frame twice or is left out, over
all the occasions at which it is sent, and a frame stops waiting only in its time, or
when it came after a clean up had read its own. One change of the address resets the
paths once, however many roots report it; in the first 600 s after boot each first
report of a root costs a reset more, and erases the entries of the others, so that
these repeat (16 below).

**Locks.** The nestings of the code were surveyed: `_peers_m` then `_upstreams_m`;
`_groups_m` then `_networks_m`, `Network::_lock` or `_txQueue_m`; `_phy_m` then
`_peers_m`, `_paths_m`, `_upstreams_m`; the lock of a receive queue entry then
`_txQueue_m`. No nesting in the reverse order was found, so the two tasks do
not wait for each other. One nesting is of a lock in itself: an OK(WHOIS) that is
decoded under the lock of an entry makes `doAnythingWaitingForPeer` lock every
entry (`Switch.cpp:952`), and the mutex of the port is not recursive
(`Mutex.hpp:23`). The answer has one identity, fits a packet without fragments and
comes from an upstream, which is always known, so it is decoded on arrival with no
entry locked; an upstream that sends it in fragments is not modelled. The models
therefore treat a critical section as one step.

### Where documentation and code disagree

`membership_com` is a run of its own (`PROJECT.json`, `findings`): the revocation
of a tag, a capability or an ownership also sets the threshold for certificates of
membership (`Membership.cpp:200`), to a higher or a lower value, so that the
outcome depends on the order. The others, met while modelling, follow from the
lines named here; the models behave as the code does:

1. `Peer.cpp:678`, a reset path "will not be used unless it speaks again": on a
   clock that counts from boot 0 is not old for the first 243 s.
2. `README.md:22`, "Persistent ZeroTier identity stored in NVS": true with
   `qemu-wrapper`; with `zt_storage_esp.cpp` the embedded test identity is always
   found first, and nothing is stored. Its keys have the object's id in them, and the
   identity and the planet are asked for under id 0, so that neither would be found;
   `SameIdentity` and `NewestPlanet` are about the other firmware. There the
   identity is persistent unless a get of it fails or the partition is erased.
3. `ZeroTierOne.h:1499`, "Object ID: peer address": keys keep 32 of 40 bits, so the
   cache may return a peer for the address of another. `PeersAlike` shows that it
   does so only for addresses with these bits in common.
4. `ZeroTierOne.h:462`, ONLINE is "at least one upstream node appears reachable":
   posted by the first check after boot, before anything was received.
5. `Network.cpp:1178`, "newer is higher, that's all we need": each slot counts its
   own chunks, and a slot that was taken later may have the lower counter.
6. `Network.hpp:212`, "Update ID if update was fully assembled and accepted": the
   result of `setConfiguration` is ignored, and what was refused is acknowledged.
7. `ZeroTierOne.h:1018`, "Network is going down permanently": the port may get a
   CONFIG_UPDATE after DESTROY, since it is called with no lock held.
8. `Network.cpp:691`, "still want to re-request an update": not for the first 60 s
   after boot.
9. `Membership.hpp:45`, "Send COM and other credentials": the second packet of a
   push meets the receiver's rate limit each time; if it always arrives first, the
   one with the certificate does.
10. `IncomingPacket.hpp:91`, "false if caller should try again": the retry of a
    deferred push may meet the rate limit and be dropped as handled.
11. `Constants.hpp:293`, seven fragments: packets of 9929 to 10 024 bytes fit the
    buffer and need eight. They are sent, and no fragment of them is accepted:
    `SentIntact` has the exact limit.
12. `ZeroTierOne.h:1263`, any MTU from `ZT_MIN_PHYSMTU`: with a small one a large
    packet needs more than 16 pieces, and the count wraps. The firmware does not
    configure MTUs.
13. `Constants.hpp:329`, the transmit queue's timeout: the age is unsigned, and an
    entry younger than the pass's time is given up at once. `GivenUpOld` shows that
    this befalls only packets that were queued after that time was read.
14. `Multicaster.hpp:115`, "to not return to sender": the branch that queues a
    frame sends it to the origin too.
15. `Constants.hpp:363`, how long a multicast waits: until the next clean it is
    sent to new members however old it is; and with an unsigned age
    (`OutboundMulticast.hpp:86`) it may be erased at once, if it came after the clean
    up read its time. `StopsInTime` shows that no other frame is erased early.
16. `SelfAwareness.cpp:72`, "to prevent 'thrashing'": in the first 600 s after
    boot every first report resets the paths and erases the other roots' entries,
    whose next report is a first one again. `ResetOnce` counts them as `first`: one
    reset for each, with no bound on their number but the time.

## What is proved

For every value of the constants that satisfies the modules' assumptions, which
TLC evaluates in the runs as well:

- **RxQueueProofs**: `TypeOK`, `Reassembled`, `OneEntryPerPacket`, `FlushReleases`
  and `PartialKept`, from the inductive invariant `IInv`. None of them is inductive
  alone. `EntryOK` says of each entry that its marks are of parts it holds, that
  its number of parts is unknown or right, and that it is freed or complete only
  when it holds all parts (this is why a freed entry answers a late part as a
  duplicate). `Found` says what the rx task may rely on between lookup and lock:
  the entry is the packet's own, or was just allocated and no entry in use is
  the packet's. `OneEntryPerPacket` needs `Found`, `Found` needs `EntryOK`, and
  `PartialKept` needs both: a part that is stored into an entry of another packet
  comes from an allocation by the ring. The assumption that a fresh entry's
  uninitialised id is no packet's is `PacketAssumption`; that the ring size divides
  the counter's range is `QueueAssumption` (32 divides 2^32; without it the wrap
  would skip entries). `PartialKept` also needs `PtrSpan > 1`: with a range of one
  the counter could not be seen to move.
- **PeerPathsProofs**: `TypeOK`, `NoHoles`, `OnePerHost` and `PassKeepsCurrent`,
  from `IInv`. `Front` is `NoHoles` without the lock: while a pass runs only the
  slot it has reached may be empty before a used one. `StillUnknown` carries the
  outcome of the check in `Peer::received` to the learning: no path of the host
  has come to life in between, because time and other packets wait for the
  handler.
- **NodeProofs**, `NodeStore`: `SameIdentity`, `NewestPlanet` and `PublicMatches` for
  the keys of `qemu-wrapper`, `PeersAlike` for either firmware and every `Low`.
  `StoreInv` says what is in flash, and what a boot that has come this far makes of
  it: `SecretOK` that the flash holds what was kept, `PlanetOK` that it holds the
  newest planet, `PublicOK` what becomes of a public identity, each depending on which
  operations have failed. It is needed since what one boot stores is judged in a later
  one. `CacheInv` says that a cached peer is under the key of its own address.
- **NodeProofs**, `NodeOnline`: `OneLossForgiven` and `OnlineFresh`. `CheckOK`: no
  time passes in a check, nor until the exchanges it began have ended. `FreshOK`:
  what a check has read is still so at its end, and what the status says is no
  older than the last check. `ContactOK` bounds the silence of a root by the age of
  its last HELLO, by `HelloPeriod` and the time since the last check, and, if an
  exchange failed, by one `Round` (a hello period and an interval) more; a HELLO
  that is under way stands for a whole round. Two rounds must fit into the timeout,
  which is part of `OnlineAssumption`: 2 * (224 s + 5 s) = 458 s < 500 s in
  `Constants.hpp`. `OneLossForgiven` is false without it.
- **NetworkProofs**, `NetConfig`: `KeepsPromise`, that `NetConfig` implements
  `NetworkPromise`, and `NotReplayed`. `SlotOK` says that a slot's count of bytes
  is the number of distinct chunks of its update that it holds; a complete count
  then means all of them (by cardinality), whatever an earlier update left in the
  dictionary. That no signed update has two slots makes the duplicate check
  complete. `InHandOK` says that the rx task applies what it has in hand only
  while the network is still joined: without it `Join` would not find an empty
  configuration. `InitPromise` and `StepPromise` are the two halves of the
  refinement.
- **NetworkProofs**, `Membership`: `OrderFree`. `MemberIInv`: the
  table has the newest credential received, or that one, and with it the older one
  in the table, is revoked. `CleanInvisible`, that cleaning changes nothing that is
  in use, is proved from it; no run checks it, as `OrderFree` already fails if
  cleaning removes too much or too little.
- **TopologyProofs**, `Worlds`: `WorldsTrusted`, `OnlyOrbited`, `UpstreamsKnown` and
  `NoRollback`. `Trusted` is said of what is known, what is stored and what the
  second half of `addMoon` has in hand; it is kept because a family is closed
  under signed updates.
- **TopologyProofs**, `SelfAwareness`: `ResetOnce`, of all resets. `AwareIInv` counts an entry that is
  outdated as a reset to come: a reset by a report that is up to date erases the
  outdated entries of its scope and so pays for itself.
- **TxQueueProofs**: `CarriesMail`, that `TxQueue` implements `Mailbox`, and
  `GivenUpOld`. Both rest on `OnePlace`, which says that a
  packet is in a sender's hand, once in the queue, sent once or lost for one reason,
  and in no two of these. It needs `HandOK` (no two senders hold one packet) and
  `QueueOK` (a packet waits with its own destination); the work is in `EraseAt`,
  which a flush and a pass use to take several entries out at once: each entry is
  either kept, in its order, or handled. `Moved` is what a step does to one packet;
  every action is shown to move each packet as it may, and `BoxStep` puts these
  moves together to one step of `Mailbox`. `GivenUpOld` needs `SeenOK` besides: a
  packet that was seen in the queue is not younger than the pass's time, so that its
  unsigned age is its age, and, being in one place only, never comes into the queue
  a second time; and `PassOK`: the entry that was tried is there when its age is
  looked at.
- **TxQueueProofs**, `Fragments`: `PiecesIntact` is `SentIntact` for every set of
  MTUs and every size up to `Largest`, also beyond `Capacity(m)`. The module assumes
  `MaxFragments < Nibble` (7 < 16) and that the count of fragments fits its four bits,
  which holds for 10 024 bytes and the firmware's MTU (see 12 above). The start of each
  piece is a recursive function in the code's way (each piece starts where the last
  one ended); the proof shows that it equals the closed form, by a smallest
  counterexample. `LargestPacket` is the limit that `SentIntact` names: a packet needs
  `MaxFragments` pieces at most if and only if it is no longer than `Capacity(m)`,
  which is 9928 bytes for the default MTU, less than the 10 024 of the buffer (see 11
  above).
- **MulticastProofs**: `SentOnce`, `LimitKept`, `NobodyMissed` and `StopsInTime`. `LogOK` ties
  what each waiting frame has written down to who really got it: its log has the
  recipients and at most the origin besides, and its count is not below their
  number. `UnsentOK` says that nobody has a frame that is still to be sent, and
  `WaitsOnce` that no frame has two entries. `SentOnce` follows since a recipient is
  chosen only outside of that log, `LimitKept` since the count is compared with the
  limit before each. `StopsInTime` needs `WaitedOK`, which is for frames what `SeenOK`
  is for packets.

The steps of the proofs are the steps of the modules: one lemma per action or
group of actions, combined in `StepIInv`. The invariants were checked by TLC before
they were proved, those of `TxQueue` and `Multicast` on larger instances than the
runs' too (two packets and a queue of two; limit 3, two bridges).

*Only model-checked*: the liveness properties (`ExpiredFreed`, `ReadyDecoded`,
`KeptAlive`, `ExpiredReaped`, `BackOnline`, `Configured`, `Refreshed`, `Admitted`,
`MoonFound`, `Delivered`, `Drained`, `OldForgotten`), since fairness and ENABLED are
beyond the prover, and the counterexample to `ComOrderFree`. Every invariant and
every action property of a passing run is a theorem.

## Not modelled

- Most of the repository's lines are not the program: `ZeroTierOne` is vendored
  whole, with its desktop service, controller, Rust and OS layers and third-party
  libraries, none of which the firmware builds. The part that carries the
  firmware's logic is `node/`, `main/`, `qemu-wrapper/` and the port.
- Cryptography, packet formats, dictionaries and compression: computation on
  bytes; the models use what they guarantee.
- The AQM (`aqm_enqueue`, `aqm_dequeue`): dead code, `Network::qosEnabled` returns
  false. `PacketMultiplexer` and the detached threads: never started here.
- The rule filter, bridging and the answers of relays and replicators: functions
  of a frame without state of their own, or (relaying, `unite`, RENDEZVOUS) traffic
  of other nodes.
- Bonding, metrics, trace and the TAP of the port: stubs.
- The id of a fresh `RXQueueEntry` is uninitialised memory; that it is no packet's
  id is an assumption of `RxQueue`.

## Plan

1. *Done*: the twelve runs, and the proofs of all their invariants and action
   properties.
2. Abstract specifications: a reassembly box that `RxQueue` implements, a set of
   live paths that `PeerPaths` implements.
3. Compositions: `SelfAwareness` with `PeerPaths`, `NetConfig` with `Membership`.
