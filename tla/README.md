# NodeWeave in TLA+

NodeWeave connects machines to an overlay network. Nodes register with a
**control plane**, fetch a bootstrap configuration, and exchange encrypted
packets over UDP, directly where NAT allows and through a **relay** where it
does not. The control plane coordinates the recovery of direct paths: it hands
two nodes a *direct attempt*, a moment at which both should try to reach each
other, and decides from their reports when the next one may follow.

This directory holds TLA+ specifications of that program, TLC configurations
that check them on small instances, and TLAPS proofs of what holds for every
instance. `PROJECT.json` maps each definition to the lines it translates, and
lists the runs, mutants, findings, hazards and theorems.

    tlc -workers 2 -config AgentAttempts.cfg MCAgentAttempts
    tlc -workers 2 -config CoordinatorBudget.cfg MCCoordinator
    tlc -workers 2 -config SecureTransport.cfg MCSecureTransport
    tlc -workers 2 -config SqliteStore.cfg MCSqliteStore
    tlc -workers 2 -config AgentSync.cfg MCAgentSync
    tlc -workers 2 -config Forwarding.cfg Forwarding
    tlapm SecureTransportProofs.tla

## 1. Inventory

Paths are relative to the repository. The column "hard" names what a unit test
hardly reaches; PROJECT.json lists each such place at its line.

| component | state | operations | hard |
|---|---|---|---|
| agent's attempt scheduler, `clients/linux-agent/internal/agent/agent.go` | `pendingAttempts`, `scheduledAttempts`, `attemptReports`, `recoveryStates`, three files | heartbeat, reconcile, queue, start a goroutine per attempt, reload of the dataplane, restart | goroutines against reloads, crash between file writes, repeated offers |
| direct-attempt policy, `services/controlplane/internal/store/direct_attempts.go` | none: functions of two reports, candidates and now | cooldown, suppression, probe budget and refill, merge of two blocks, reason, profile, decision | boundaries of time, ties, missing values, order of the two sides |
| stores, `store/memory.go`, `store/sqlite.go` | nodes, slots, endpoints, transport reports, attempts, routes, bootstrap version; in memory under one lock, or in tables | register, heartbeat, bootstrap, create route; each a transaction of SQLite | transactions that overlap, fail as busy and are undone, restarts, two heartbeats scheduling the same pair, equal instants |
| transport, `packages/runtime/go/secureudp/secureudp.go` | sessions, handshakes, waiters, replay windows, active path per peer, in-flight attempts | send, receive, hello and hello_ack, direct attempt in two phases, fallback to the relay | concurrent handshakes, late answers, a path that dies |
| agent's run loop, `agent.go`, `identity.go` | node and configuration, version last heard of, signature of the forwarding runtimes, running dataplane | load the key, register, fetch the bootstrap, write files, apply, reload, heartbeat, two tickers | any step failing with the earlier ones done, restart, changes without a new version |
| agent's files, `clients/linux-agent/internal/state` | key, state, runtime, session and dataplane file, reports | load, save | torn write, files of two configurations |
| managers of forwarding, `agent/forwarding_runtime.go` | one generation of managers and their contexts | reload, stop | the next generation starts while the old one ends |
| USB and serial sessions, `packages/runtime/go/forwarding` | bus id or port remembered, TCP listener and connection, serial port | bind, attach, look up, unbind, detach; listen, accept, dial, open, bridge | commands killed half-way, devices and connections that come and go, one owner per port |
| relay, `services/relay/internal/relay/service.go` | bindings node -> address with a time to live | announce, forward | rebinding, expiry |
| session and dataplane, `packages/runtime/go/session`, `dataplane` | none | compile candidates and routes | order of candidates |
| stun, overlay, plan, driver, tunnel | none, or the operating system's | one exchange, rendering, I/O | |
| contracts, http server, configuration, commands, windows-agent, command lines, desktop, scripts | none over time, or none of their own | encoding, wording, I/O | |

Interaction: an agent calls the control plane by HTTP (register, bootstrap,
heartbeat; one store transaction each). The answer to a heartbeat carries
offers and recovery states, which the Run goroutine gives to the attempt
scheduler; its goroutines call `ExecuteDirectAttempt` of the current transport;
the transport's metrics and the scheduler's report go into the next heartbeat.
Transports talk to each other by UDP, directly or through the relay. Within an
agent the Run goroutine, one goroutine per attempt, the warmup goroutine and the
transport's receive loop share state under mutexes.

What makes each part correct:

- scheduler: one attempt per peer in the queue, no open attempt lost by a reload
  or a crash, nothing contradicted by the control plane goes on executing, no
  attempt stays for ever, no bookkeeping outlives its goroutine;
- policy and stores: one open attempt per pair, both sides are told the same, no
  attempt against a cooldown, a suppression or an exhausted budget, and recovery
  goes on; what the answer says is what the store did;
- transport: both ends of a session derive it from the same handshake, no packet
  is accepted twice, a waiter is answered or timed out, an attempt that reports
  success has made a handshake, a dead direct path is left;
- run loop: a dataplane starts only with what was applied, beside forwarding
  runtimes of the same configuration or none; one node per state file that can be
  read; and the configuration applied is eventually the newest one;
- forwarding: an exporter gives its device back, a serial session leaves nothing
  open and shares no port, and a session comes back after whatever interrupted it;
- relay: packets go to the address the node last used;
- registry: no two nodes share an overlay address, no address belongs to two
  routes, a version stands for one content, and overlapping transactions answer
  as if they had come one after the other.

## 2. Modules

| module | models |
|---|---|
| `AttemptQueue` | abstract: what the agent's queue of attempts promises |
| `AgentAttempts` | the agent's attempt scheduler in full, with goroutines, reloads, files and crashes; refines `AttemptQueue` |
| `AgentAttemptsProofs` | proofs about it |
| `AttemptPolicy`, `AttemptPolicyProofs` | `direct_attempts.go` as operators, and lemmas about blocks, budgets and reasons |
| `Rendezvous` | abstract: what the coordination of attempts promises two nodes |
| `Coordinator` | the heartbeat transaction of both stores for one pair, closed with the two agents and time; refines `Rendezvous` |
| `CoordinatorProofs` | proofs about it, the refinement included |
| `SecureTransport` | two transports and the relay: calls, handshakes, paths, Serve, bindings |
| `SecureTransportProofs` | proofs about it |
| `ReplayProtection`, `ReplayProtectionProofs` | `isReplay` under a network that repeats packets, and its proof |
| `TenantData` | what both stores keep of a tenant: requests, addresses, routes, the configuration of a node, as operators |
| `Registry` | abstract: the memory store, one call at a time |
| `SqliteStore` | the SQLite store as overlapping transactions with snapshots, one write lock, failures and restarts; refines `Registry` |
| `SqliteStoreProofs` | proofs about it, the refinement included |
| `AgentSync`, `AgentSyncProofs` | the agent's run loop, its files, driver and runtimes; and its proofs |
| `Forwarding`, `ForwardingProofs` | a USB or serial session between two nodes and the generations of managers that run it; and its proofs |
| `MCAgentAttempts`, `MCCoordinator`, `MCSecureTransport`, `MCSqliteStore`, `MCAgentSync` | instances for TLC |

How they meet: `AgentSync` is the Run goroutine whose heartbeat `AgentAttempts`
refines into the steps of the attempt scheduler; what it fetches is the answer of
`Registry`, and what the scheduler is offered comes from `Coordinator`. An
attempt executed by a goroutine of `AgentAttempts` is a call of
`SecureTransport`, which a reload in `AgentSync` replaces. `AgentSync` hands its
runtime file to the managers of `Forwarding`. Within the stores the heartbeat is
modelled twice: `SqliteStore` and `Registry` have its transaction, node, version
and reported peers, `Coordinator` its attempts.

### AgentAttempts

Every critical section of `attemptMu` is one action, so the goroutines
interleave just as the mutex lets them. `pc` says where the Run goroutine is:
`Heartbeat` (`sendHeartbeat` up to `SaveRecoveryStates`), `Reconcile`
(`setRecoveryStates`), `Queue` (the first critical section of
`scheduleDirectAttempts`), `Spawn` (a round of its loop over the snapshot
`todo`), `StopDataplane` and `StartDataplane` (`reloadDataplane`). A goroutine is
a pair of an attempt and a number, so the old and the new goroutine of one
attempt may overlap after a reload; `scheduled[a]` is the goroutine whose cancel
function `scheduledAttempts` holds. `worker[w].on` is the transport it was given,
`slot` the transport's `directAttemptInFlight`. `Crash` is the death of the
process and `New` on what the files hold. Of time only one fact matters here,
whether the window of an attempt has passed (`late`, `directAttemptExpired`);
windows close in any order.

The verdict of a recovery state on a queued attempt (`shouldRetainDirectAttempt`)
is kept as the id it names, `Rejected`, or `NoVerdict`. Offers come from
`CPIssue`, and an offer is repeated by every heartbeat until `CPForget`: the
control plane hands an attempt out until it expires, which is `window` plus a
retention of 2 s after its execution.

### AttemptPolicy and Coordinator

An instant is its distance from now, so `Tick` ages every stored instant, and
the state space is finite without a bound on the clock. A report or a last-seen
time that is older than its window is forgotten, since no condition tells it
from none; `Horizon` caps the others and the assumptions demand that every window
lies below it.

`AttemptPolicy` keeps the code's functions one by one: `Setting` is the chain
from a setting for the failure or profile to the general one, `Cooldown` and
`Suppression` are the two blocks of one report, `LaterBlock` is
`laterBlockState` with the merge of probe budgets, `Reason` is
`directAttemptReasonWithPolicyCandidates`. `Coordinator.Heartbeat` is one
transaction of `UpdateHeartbeat`: store the node's endpoints and report, prune,
schedule (`Schedulable`, `NewAttempt`), answer with `Offers` and `Status`; the
agent then takes the offers into its queue. `Store` selects the memory store (one
attempt per pair, replaced) or SQLite (rows, the first one is found). `Execute`
and `Miss` are the ends of an attempt on an agent, `ChangePath` a path that
changes without one, `Sleep`, `Wake`, `Restart` what happens to the machine.

`Rendezvous` forgets stores, rows, reports, policies and queues. It has the instant
the pair has agreed on, the nodes that wait for it, and those that have heard from
the control plane since the clock moved. The mapping takes the instant from the
attempts whose window has not passed (`Meeting`), a node waits if it holds one
(`Present`), and has heard if its last-seen time is now (`Heard`); without the last
one an answer that leaves the node out would count as a stutter. An answer may agree
on an instant only if there is none, or on the same one again, and takes the node
that hears it in; a punch falls within the window; all else is the clock.

### SecureTransport and ReplayProtection

A *path* is the pair of addresses two sockets use for each other: one per direct
candidate, and the relay. A packet sent over a path is answered over it, as
`handleHello` answers to the address it heard. `established` and `active` are the
maps of `Transport`, and `retryDue` is what `directRecoveryState` and
`NextDirectRetryAt` make of `lastDirectTry`. A *thread* is a goroutine inside
`Send`, `WarmupPeer` or `ExecuteDirectAttempt`; its call has the *stages* left to
try, each a list of addresses handed to one `ensureAnySession`: `Stages` is the
burst over the leading direct addresses and then one address at a time, an
attempt has its primary and secondary phases. `Begin` is `ensureAnySession` up to
its first burst, or its shortcut through `established`; `Resend`, `Answered` and
`GiveUp` are the branches of its select. A waiter is the challenge that a
handshake packet bears; when a call ends its waiter is deleted, and the packets
that bear its challenge become stale (`Forsaken`). `ReceiveHello`, `ReceiveAck`
and `ReceiveData` are the cases of `Serve`, which ends for good when a handler
fails. The relay is `bound`, the nodes it has an address of; it learns one from
every packet. `Reload` is a dataplane reload, which replaces the transport.

`ReplayProtection` keeps the clock that `SecureTransport` leaves out: nonces
remembered for `TTL`, packets refused when sent longer ago, copies that arrive
at any time. It is why `SecureTransport` needs no duplicates.

### TenantData, Registry and SqliteStore

`TenantData` computes on plain values, so that both stores use one definition:
`Bootstrap` is `GetBootstrap` of an instant, `OverlayIP` is `overlayIPFromSlot`,
`Overlap` compares base addresses as `prefixesOverlap` does. A prefix is the set
of its addresses, and `PrefixesAssumption` says that of two either is within the
other or they are disjoint.

`Registry` is `MemoryStore`: every call is one step. `SqliteStore` splits a call
the way its transaction does. `Begin` is `db.Begin` with the first read, which
fixes the `snapshot`; `Lock` is the first write, which takes the only write lock
and works only while nobody has committed since (`fresh`), else the call fails
as busy (`Busy`); `Register`, `Heartbeat` and `Publish` are the commits;
`WriteFails` is a roll back; `CreateDeviceAndNode` writes first and so begins
with the lock (`BeginRegistration`). `Restart` reopens the file through
`ensureMetadata` (`Seeded`). Under the refinement mapping a call that only reads
is answered when it takes its snapshot, a write when it commits, and a failed
call has not happened (`Seen`).

### AgentSync

`step` is where Run is: `identity` (`resolveIdentity`), `enroll`, `save`
(`EnsureEnrolled`), `sync`, `persist` (`SyncBootstrap`), `runtime`, `session`,
`dataplane`, `apply`, `applying` (`ApplyRuntime` and the driver), `forward`,
`reload`, `start` (the two reloads), `heartbeat`, `heard`, `compare`
(`sendHeartbeat`, `refreshBootstrapIfNeeded`), `idle` (the select of the loop).
Every step is one request, file or start and may fail; a write that fails may
leave the old file, the new one or a torn one. An error before the loop ends the
process (`starting`), in the loop it is logged. Three reads do something of their
own when they fail: `New` ignores the error and goes on without the node
(`Unread`, which the code does not tell from `Blank`); `reloadForwardingRuntimes`
stops the forwarding runtimes, clears their signature and lets Run go on to
`reloadDataplane` (`ForwardFails`); `reloadDataplane` returns before it stops
anything, and the old dataplane runs on (`ReloadFails`). The other reads happen
before the loop, where a failure is an end of the process like `Crash`.

`Change` raises the version of the control plane, `Drift` changes what it would
generate without raising it. A registration reuses the names of `NodeIds`, so the
number of registrations is not bounded.

### Forwarding

One session is configured. `manager` and `generation` follow
`reloadForwardingRuntimes`: a reload closes the manager, waits for it at most
five seconds and starts the next generation, so goroutines of two generations
overlap; `at` is where each goroutine is. `Exporter` and `Attacher` are
`runSession` of the USB runtime with `usbip` as what it does to `exported` and
`imported`; a command may fail, or be killed and have done its work. `Listener`
and `Dialer` are the serial runtime, with TCP connections and serial ports that
have one owner; `Open` to `Unbridge` is the bridge. `Gone` is the end of the
process: the kernel keeps what is bound and attached. `losses` counts killed
processes, and unbinds or detaches that fail: they are tried once and their
errors are ignored.

## 3. Runs

| run | shows | bounds and why they suffice |
|---|---|---|
| `attempts` | `TypeOK`, `DurableQueue`, `ScheduledIsAlive`, `SlotIsHeld`, refinement of `AttemptQueue`, `RetriedWhileQueued`, `QueueDrains` | one attempt, two goroutines, two transports: the overlap of an old and a new goroutine across a reload, offers repeated, crashes; with fairness. That a second attempt for the peer displaces the first is covered by the theorems of `AgentAttemptsProofs`, which hold for every set of attempts |
| `pair_budget` | `TypeOK`, `SidesToldAlike`, `ExhaustedBudgetHolds` | windows of 1 to 3 units, one probe, refill after 2, two failures: all of a block, its probe, its exhaustion and its refill happen. The proofs have every policy |
| `pair_sleep` | `OneOpenAttempt`, `EligibleIsServed`, `OffersExplained` | memory store; one node that sleeps, wakes and restarts at any instant; a primary candidate is secondary one unit after it was observed |
| `pair_recovery` | `OpenTogether`, `HeldIsKnown`, refinement of `Rendezvous`, `RecoveryGoesOn` | SQLite store, in which two attempts are open at once after an older one ends (`OneOpenAttempt` fails there); no refill, so that a spent budget lasts as long as it can. No node sleeps: the proofs have any that do |
| `transport` | `TypeOK`, `DirectIsPreferred`, `FrameNeedsSession`, `EveryPathOnce`, `DirectRecovers`, `RelayCarries` | one direct candidate and the relay, one thread with every kind of call, two packets under way; writes of the thread's node fail, the peer's transport fails and is replaced and the relay forgets nodes, at first as often as they like. The proofs of `SecureTransportProofs` have any list of candidates and any threads |
| `replay` | `AcceptedOnce` | two packets, a time to live of 2 and clocks that agree, the closest case (the proof has every lead): a nonce is forgotten while copies of its packet still arrive |
| `registry_sqlite` | `TypeOK`, `UniqueAddresses`, `RoutesDisjoint`, refinement of `Registry`, `VersionStandsForContent` | two callers, the number at which one transaction overtakes another; two nodes; three prefixes: one that holds another by its base, one that holds another by an address in its middle, two that are disjoint; every kind of request, refused ones included; version up to 4 when a call begins |
| `agent_sync` | `TypeOK`, `StartsApplied`, `OneNodePerStateFile`, `Converges` | two names of nodes, used again and again; two changes of the configuration, one before and one after a file was written; crashes, torn writes, reads that fail and other failures as often as they like until the world calms down |
| `forwarding` | `TypeOK`, `ReleasedWhenEnded`, `HeldByTheLiving`, `NeverCrossed`, `GivesUpToTheOld`, `DeviceComesBack`, `BridgeComesBack` | USB and serial; two generations on each node, which is an old one that ends late and its successor; one loss. The proofs have any number of both |

Three runs end in a violation; each states what a document or a test of the
repository says and the code does not do. PROJECT.json quotes the sentence.

| run | what happens |
|---|---|
| `attempts_stale_cancelled` | after a reload the exit of the old goroutine drops the new goroutine's cancel function; a later rejection cannot stop it |
| `pair_own_addresses` | each node is sent its own addresses as its peer's |
| `transport_dead_direct` | a direct path was established and dies; every frame is still written to it, and none goes to the relay |

Known divergences. These were met with the same models; no run is kept for them.

- A running goroutine overwrites "cancelled" and its reason in the report.
- An attempt that completed is offered, queued and executed again until it
  expires, although the documents call it one-shot.
- The cooldown of a failed `primary_upgrade` never holds, because each heartbeat
  renews the observation that bypasses it.
- `decision_next_at` lies in the past while a cooldown outlasts the probe interval.
- In the instant an attempt ends SQLite holds it beside the next one and names
  the old one in the recovery state.
- With a heartbeat interval longer than the lead of an attempt (the defaults:
  10 s and 150 ms) the peer learns of the attempt after its execution.
- `ExecuteDirectAttempt` skips a primary phase whose deadline passes between two
  readings of the clock; with secondary candidates `err` stays nil, so the
  attempt reports a success without a handshake. The model's attempt has no
  clock and keeps no result.
- `Serve` returns when one hello_ack or one frame for the TUN device cannot be
  written; nobody starts it again before the configuration changes.

- A cancelled attempt ends the suppression of a pair: "cancelled" has no threshold
  and no window of its own (`direct_attempts.go:956`), though the failures still
  count and `services/controlplane/README.md:91` pauses recovery for the window.
- After a heartbeat that brought a new version the agent reloads without the
  heartbeat that `README.md:120` describes; the next ticker sends it
  (`agent.go:450-467`).
- A torn key file is never mended (`identity.go:39`): the agent ends at every start.
- `New` ignores every error of `state.Load` (`agent.go:100`): a state file that is
  whole, but could not be read at one start, costs the agent a second node, as a
  torn one does. `OneNodePerStateFile` says that nothing else does.
- When the runtime file cannot be read back the forwarding runtimes stop without a
  word in the log, and the dataplane is started all the same
  (`forwarding_runtime.go:23-27`).
- Run may return before its deferred stops are set up (`agent.go:484-489`), and
  linux-agent handles SIGINT only, so systemd's SIGTERM kills it without them: in
  both cases devices stay bound and attached.
- Unbind and detach are tried once and their errors are ignored. A device that was
  attached, whose port was not found and whose session was then cancelled, is
  never detached.
- A serial listener that cannot listen gives up for good; the names of sessions
  hash to one of 1000 ports, so two sessions may claim one.
- Slots start at 10, so the 44th node gets 100.64.0.53, the address given out as
  the name server's (`sqlite.go:723`), and octets are not bounded: slot 64000
  becomes 100.64.256.0 (`memory.go:585`). `UniqueAddresses` holds all the same.
- The pragmas of SQLite, foreign keys among them, are set on one connection of
  the pool, so a heartbeat about an unknown peer fails on one connection and
  passes on another.
- The instants of observations are part of the signatures that decide about a
  reload, so nearly every fetch restarts the dataplane and the forwarding
  runtimes, though nothing but an instant has changed.

Deadlock is checked in every run except `forwarding`, where a bridged session in
a calm world has nothing left to do.

Bounds. `MaxWorkers`: goroutines alive for one attempt; `Transports`: transports
that exist at a time (both are reused once free). `Horizon`, `MaxFailures`:
distances and failures are not told apart beyond. `Movers`, `Sleepers`: the nodes
that may change path, sleep or restart; one suffices to make the two sides
differ. Heartbeats of a node are at least a unit apart. `Capacity`: packets in the
network when more are sent; with two, a late answer meets the packets of the next
handshake. `Failing`: the nodes whose writes, Serve loop, transport or binding
fail. `Kinds`: the calls that are made. One thread suffices for the properties of
a call, since threads share only `established`, `active` and `retryDue`, which
packets of the peer change just as well; the proofs have any number. The peer
makes no calls of its own in the runs: it learns of paths by the hellos it
answers. `Unwritable`: the nodes whose writes fail. `MaxTime`: instants of the
sender's clock, more than twice the time to live. `MaxVersion`: calls begin only
below it; those under way still raise it. `MaxContent`: changes of the
configuration. `MaxGenerations`: managers a node starts; the last one is neither
reloaded, stopped nor killed. `MaxLosses`: processes killed and releases that
fail.

Fairness. `FairSpec` of `AgentAttempts`: the heartbeat ticker fires and the
control plane answers again and again (strong fairness, as a reload may come
between); the Go scheduler runs the Run goroutine and each attempt goroutine; a
handshake ends by its own timer. That windows pass is a premise of `QueueDrains`.
`FairSpec` of `Coordinator`: the clock moves, heartbeats of a running agent are
sent, attempts end. Nothing is assumed of offers, outcomes, crashes or sleep.
`FairSpec` of `SecureTransport`: there is traffic to send for each candidate the
dataplane may ask for; a call goes on by its timers; `directRetryAfter` elapses
and the announcements of `announceRelays` are made by tickers; no packet stays
under way for ever, and of infinitely many packets of a kind on a path that lets
them through one arrives (strong fairness per kind, sender and path: a network
that drops every answer but no question is not considered). Nothing makes an
answer come in time: `GiveUp` may always win. The premises of the properties
(`Undisturbed`, `RelayStays`, a path that stays open) exclude the endless
disturbances after which the code can promise nothing.
`FairSpec` of `AgentSync`: the service manager starts the process again
(`Restart=always` of the unit file), Run goes on, and the select of its loop
serves each ticker again and again (strong fairness, as Go picks at random among
those that are ready). `FairSpec` of `Forwarding`: the scheduler runs every
goroutine, Close comes back, and an agent that has ended is started again. Both
promise something only once the world is calm, which nothing forces: a request,
write or command that fails for ever is not excluded, and then nothing is
promised.

## 4. Proofs

`AgentAttemptsProofs` holds for every set of peers, attempts and transports and
every number of goroutines. Its assumptions are those of `AgentAttempts`: each
attempt has a peer, the markers are not attempts, `MaxWorkers` is positive.

- `TypeCorrect`: `Spec => []TypeOK`. `TypeOK` is not inductive: that an offer
  has been issued and is for its peer (`OfferIsIssued`), that the loop of
  `scheduleDirectAttempts` runs with a transport, and that each live goroutine
  has one, must go with it (`Typing`).
- `QueueCorrect`: `Spec => [](OnePerPeer /\ DurableQueue)`. Offers of a heartbeat
  are one per peer, which `QueueWith` needs.
- `Refinement`: `Spec => ImplementsQueue`. Every action is a step of
  `AttemptQueue` under the mapping, or leaves queue, verdict and windows alone;
  the case of `Crash` needs `DurableQueue`.
- `NothingLeftBehind` and `SlotsHeld`: `ScheduledIsAlive` and `SlotIsHeld`.

`SecureTransportProofs` holds for every list of candidates, every set of threads
on either node, and any room in the network. Its assumptions: there are two
nodes, candidates are distinct and not the relay, each thread runs on a node.

- `DirectPreferred`: `Spec => []DirectIsPreferred`; with the types of `active`
  and `established` it is inductive, as `MarkEstablished` keeps it (`Marking`).
- `SessionFirst`: `Spec => FrameNeedsSession`. A frame is written by `Begin`,
  through `established`, or by `Answered`, to the address in the waiter; that
  this one is established for the right node needs `AnswersOK`, and for it that
  the answers on their way belong to a call that still waits, on the node they
  are addressed to (`WaitedFor`, `PacketsOK`).
- `AllTriedOnce`: `Spec => EveryPathOnce`. The candidates followed by the relay hold
  every path once (`InOrderEachOnce`); moving an address to the front is a
  permutation (`FirstEachOnce`), and the stages are the order cut in pieces, whether
  the leading direct addresses are one burst or not (`StagesTryOnce`). The run has one
  direct candidate, so the burst happens only in the proof, and in a run of TLC with
  two candidates and only Send calls, made while the proof was written.
- `TransportTyped`: `Spec => []TypeOK`. That the order of candidates always
  yields a stage (`SendAddressesTyped`, `StagesTyped`) and that no answer reaches
  a call that has ended (`WaitedFor`) must go with it.

`ReplayProtectionProofs` proves `NoReplay`, `Spec => []AcceptedOnce`, for every
time to live and every lead of the receiver: a packet once let through is either
remembered, or too old to be let through again.

`SqliteStoreProofs` holds for any callers, nodes, prefixes and requests and
without the bound on versions. Its assumptions are those of `TenantData`: two
prefixes are nested or disjoint and each has a least address, requests are of
the four kinds, the markers are none of the values, and no refusal is `None`
(which TLC evaluates; records and model values are of different kinds).

- The invariant `Inv` says that the tables are `Good` (of their types; every
  address made of a slot below the next one, so it is unique; prefixes of routes
  disjoint), that a caller in a transaction has no answer yet and its request has
  passed the checks (`Calling`), and that the holder of the write lock has read
  the tables as they are and goes on to write (`Writing`). Each write leaves good
  tables (`GoodNode`, `GoodHeartbeat`, `GoodRoute`) that follow those it read
  (`Follows`), and no other step writes.
- `TypeCorrect`, `AddressesUnique` (by `SlotsTold`: division and remainder tell
  slots apart), `RoutesApart` (by `OverlapFinds`: of two prefixes that share an
  address one holds the other's base) and `VersionTold` follow.
- `Refinement`: `Spec => ImplementsRegistry`. A commit is one call of the
  registry, for a `fresh` snapshot is the tables themselves; a call that only
  reads is one when it begins (`Answered`); every other step leaves what callers
  see alone (`OthersSee`).

`AttemptPolicyProofs` holds for every configuration of the policy: `ConfigAssumption`
and `HorizonAssumption` say that settings are numbers and windows lie within the
horizon. Its reports are any that lie in the past (`PastReport`), its candidates
any at all.

- `LaterBlockCommutes`: merged in either order, two blocks have the same end, and
  the same next probe unless a side's kind is `unnamed`. That is true only of
  blocks the policy can make, which are `Sound`: a suppression that has spent its
  budget is next probed when it is refilled, and what is no suppression has no
  probes. Cooldowns and suppressions are sound (`CooldownSound`,
  `SuppressionSound`) and so is the later of two sound blocks (`LaterSound`); ties
  of end and probe are where the order might show (`TiesAgree`).
- `ProbesAreBudgeted`: what gets past a side's suppression is a manual recovery for
  which that side has a probe left. The merged budget is the smaller of the two,
  the refill of a spent one lies ahead (`RefillAhead`, from a fact about division,
  `NextMultiple`), so a spent suppression is not due however it is merged
  (`SpentIsNotDue`).

`CoordinatorProofs` holds for every time profile, policy and set of nodes that move
or sleep, and for both stores unless said. It assumes that there are two nodes, that
the times of the profile are positive and that the whole profile is shorter than the
horizon.

- `Inv` is the inductive invariant. `OneOpenAttempt` and `OpenTogether` speak of
  attempts whose window is open, but what prevents a second one is that the first
  row of the store has not *expired*. So `Inv` adds to `TypeOK` how the two instants
  of an attempt go together as it ages (`Aging`), that rows which have not expired
  were issued in one instant, or one just ends as the other is issued (`Meet`: in
  that instant SQLite may issue two), and that agents hold no open attempt the store
  has dropped (`HeldIsKnown`). TLC has checked `Inv` as an invariant of `pair_sleep`
  with the SQLite store.
- Pruning walks over the rows. `Unexpired` is a recursive function; that it keeps the
  rows which have not expired and no other (`UnexpiredKeeps`) is an induction on
  positions. The library's induction theorems are out of reach of the provers, so
  `SegmentInduction` takes a set of positions and its least missing member, which
  exists as the order is well-founded, and `SegmentRecursion` shows in the same way
  that the function exists.
- `TypeCorrect`, `HeldAreKnown`, `AttemptsMeet` follow from `Inv`; `OneOpenInMemory`
  from it and from the memory store's single attempt. `ToldAlike` is
  `LaterBlockCommutes` for the blocks of the stored reports.
- `BudgetHolds`, `EligibleServed`, `OffersNamedInMemory` are action properties: what
  is issued is issued by `Scheduled` for the reason `ProbesAreBudgeted` is about
  (`AnswerIssues`), and the first row after a heartbeat is one that has not expired
  (`AnswerNames`), so whoever is called eligible would have been scheduled.
- `Refinement`: `Spec => ImplementsRendezvous`. Open attempts are rows, all for one
  instant (`Mapped`); a heartbeat leaves the open rows as they were, or adds one when
  none was open for another instant (`AnswerAgrees`), and the node that sent it holds
  one afterwards (`AnswerJoins`).

`OneOpenAttempt` and `OffersExplained` have the hypothesis `Store = "memory"`: with
SQLite both fail in the instant an attempt ends (see the divergences above);
`OpenTogether` is what remains true of it.

`AgentSyncProofs` holds for any nodes and any number of changes; it assumes that
the markers are no nodes and no plans.

- `TypeCorrect`. Where Run is, what it holds and what its files hold must go
  together (`Enrolment`, `Applied`).
- `AppliedFirst`: `Spec => StartsApplied`. From `apply` on the files hold what the
  configuration compiles to, from `forward` on the driver has applied it, from
  `reload` on the forwarding runtimes run it or, when the runtime file could not be
  read back, none; an error or a restart leaves those steps altogether. That a
  dataplane may start without its forwarding runtimes is what the code does
  (`forwarding_runtime.go:23-27`); that the next fetch starts them is part of
  `Converges`, which is only model-checked.
- `NodeKept`: `Spec => OneNodePerStateFile`. Only `Start` and `Register` give the
  agent a node (`OnlyEnrolmentNames`), and up to `Register` it holds what the state
  file holds, unless the file could not be read (`Enrolment`).

`ForwardingProofs` holds for any number of generations and losses.

- `TypeCorrect`: what is attached is exported, what is exported is plugged in.
- `GivenBack`: `Spec => []ReleasedWhenEnded`. `ReleasedWhenEnded` speaks of the
  end only; what lasts is that while nothing is lost an exported device is claimed
  by a goroutine that has not ended (`ExportClaimed`), for which binding needs a
  claim made before (`BindClaims`).
- The serial side has a second invariant, `Held`, on top of the first. A port is held
  by a generation exactly while its goroutine is where the code has it open
  (`Owned`); a connection has a dialer that waits for it or carries it, leads to the
  listener there is, and is one of its dialer and, once accepted, of its listener
  (`Connected`); a generation that has not begun is nowhere (`Unborn`), so that the
  next one begins with nothing (`BeginHeld`). TLC has checked it with three
  generations. `LetGo` is the step all depends on: a bridge that ends, or never
  begins, takes its connection with it.
- From it follow `NothingLeftOpen` (`HeldByTheLiving`), `OneStream`
  (`NeverCrossed`: the port has one owner, and each dialer one connection) and
  `OnlyTheOld` (`GivesUpToTheOld`: whoever holds the TCP port has not ended, and is
  not of a later generation than the newest).

Every invariant and every action property of the passing runs is a theorem, and so
are the three refinements. Liveness stays with TLC (`RetriedWhileQueued`,
`QueueDrains`, `RecoveryGoesOn`, `DirectRecovers`, `RelayCarries`, `Converges`,
`DeviceComesBack`, `BridgeComesBack`): fairness and ENABLED are out of the prover's
reach.

## 5. What is abstracted, and what is not modelled

- In `AgentAttempts` a file is written at once, and a crash inside one critical
  section, between two of its files, is not modelled; nor is a failing save of the
  recovery states. (`AgentSync` has torn writes for the files of the run loop.)
- `AgentSync`: a dataplane whose `Serve` has ended counts as running, since nobody
  restarts it before the configuration changes; `startResponder`'s probe, STUN
  refreshes and the warmup goroutine are left out; the control plane keeps the
  node (after a restart of a memory store it would answer "not found" for ever);
  the driver deletes nothing, so what an earlier configuration left in the kernel
  is not told apart.
- `Forwarding`: the reports that are only shown are left out, the port a session's
  name hashes to is one, and `usbip list` and `usbip port` show what is there. There
  is one session, so two sessions whose names hash to one TCP port are not covered.
- `Forwarding.Open` assumes that a serial port has one owner. The serial library
  asks for that (`TIOCEXCL`), and Linux does not hold a process with CAP_SYS_ADMIN
  to it: the unit file `deploy/systemd/nodeweave-linux-agent.service` runs the agent
  as root, where the goroutine of an old generation that has not ended and its
  successor could both have the port open. Within one generation the code itself
  opens a port once. `NeverCrossed` and its theorem `OneStream` rest on this
  assumption.
- `TenantData`, `Registry`, `SqliteStore`: names, instants, regions, NAT summaries
  and DNS zones are left out (zones are written by the seed only). An answer that
  is lost is an answer nobody acts on; retries of a caller are new requests.
- Three hazards were looked at and left out: the trimming of the report's history
  (`agent.go:1303`), an attempt's profile matched by its time (`agent.go:976`) and
  a receiver whose clock is behind (`secureudp.go:1782`): each needs data that the
  models leave out, and each is a comparison of one function.
- `Coordinator` has one time profile for all reasons, and the short prewarm
  before the execution is part of it; pairs are independent, since they share
  only what their nodes report; all clocks agree; an answer is not lost; the
  goroutine of a passed window ends before the node's next heartbeat.
- What the runs do not reach of two boundaries: `pair_sleep` has the memory store, so
  the instant in which SQLite neither deletes nor reuses a row is `pair_recovery`'s
  alone; and an address far from the first slots, where the division in
  `memory.go:585` carries, is covered by the theorem on `UniqueAddresses` only.
- `LastDirectSuccessAt` is not kept: a success sets the result that the policy
  reads first.
- `SidesToldAlike` says nothing of the next probe when a side's suppression names no
  failure (after a cancelled attempt, with a threshold for `primary_upgrade`): tied
  with one that does, it is merged to different probe instants.
- `SecureTransport`: two nodes and one relay; the peer's address does not change
  under a path; `warmupBlockedUntil`, which only puts warmups off, STUN, metrics
  and encryption are left out; a burst is sent at once (its loss covers a burst
  that was broken off); relay bindings are forgotten at any time instead of after
  their time to live.
- `ReplayProtection`: one transport. A reload starts with an empty memory, so a
  packet of the last `replayTTL` could be let through by the new one; and a
  receiver whose clock is behind, or steps back, forgets a nonce too early.
- The components of PROJECT.json with status `not_modelled`, for the reasons
  given there.

## 6. Plan

Done: 1. `AttemptQueue`, `AgentAttempts` and its proofs. 2. `AttemptPolicy`,
`Coordinator`. 3. `SecureTransport`, `ReplayProtection` and their proofs.
4. `TenantData`, `Registry`, `SqliteStore` and its proofs. 5. `AgentSync` and its
proofs. 6. `Forwarding` and its proofs.

Next, in this order:

7. `DirectAttempt`: the deadlines of an attempt's phases and its result.
8. The order of instants as text in SQLite.
9. The warmup goroutine with its wake channel and `warmupBlockedUntil`.
10. Operators of `session.go` and `dataplane.go` against reference definitions.

Theorems worth proving next: refinements of abstract specifications that have yet to
be stated, the lease of a device for `Forwarding` and the choice of a path for
`SecureTransport`.
