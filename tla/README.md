# natp2p: TLA+ models, model checking and proofs

natp2p connects nodes behind NATs through relays. A NAT node keeps one logical
connection per peer over several physical carriers, encrypts end to end, and
pays the relay for forwarded bytes with vouchers that both sides sign. This
directory holds TLA+ models of that program, the TLC runs that check them on
small instances, and TLAPS proofs about the parts where a small instance is not
enough. Every definition is read from the Go source; `PROJECT.json` maps each
one to its lines.

## 1. The system

| part | source | state | what is hard |
|---|---|---|---|
| waitSubmit queue | `billingqueue` | a write-ahead log, the in-memory entries, byte and payer counters | torn writes, failed syncs, crashes and power losses between any two steps, a compaction that fails after the removal succeeded |
| billing evidence and sessions | `natnode/billing_meter.go`, `billing_control.go`, `connection.go`; `relaynode/billing_pipeline.go` | record chains, windows, vouchers, sessions, the control connection | a claim waits for its answer without the session lock; connections overlap; answers are lost; either side restarts |
| holdback and metering | `billing_holdback.go`, `retransmit_cache.go`, `forward_hook.go`, `billing_hook.go` | frames held until their record is accepted, repeated frames, accounts, cut-offs | several pumps share a scope whose lock comes and goes; timers that fired but wait for the lock; a write that fails after it was counted |
| DualStream and relay failover, dialing side | `DualStream.go`, `Dialers.go`, `natnode/relay_failover.go` | leg table, preferred leg, reconnect state, candidates | six kinds of goroutines under two locks; results of dials that were started before the relay changed |
| TcpStream, frame relay endpoint, route registry, endpoint multiplexing | `TcpStream.go`, `AckTracker.go`, `e2e_replay.go`, `frame_adapter.go`, `FrameRouteRegistry.go`, `EndpointFrameMux.go`, `StreamGroup.go` | pending sends, assemblers, delivered ids, routes, pairs of ids | lost, repeated and late frames and acknowledgements; one record over two legs; ids translated at every hop while routes move |
| registration and stream groups | `TransportCoverStream.go`, `StreamGroup.go`, `relayStarter.go` | who owns a node id, its group, the connections of clients | an old group's clean-up racing a new registration and arriving clients |
| control links, routes and bridges between relays | `relay_node.go`, `peer_link.go`, `host_routes.go`, `bridge_pool.go`, `bridge_mux.go`, `logical_conn.go`, `reassembler.go`, `StreamBridge.go` | link tables, routes with leases, pools of physical connections, striped connections | announcements that overtake each other, legs that share a bridge that is being built, chunks before their leg is known, expansion against reaping and Close |
| revocation | `revocation_control.go`, `deny_runtime.go` | the state file, denied scopes, registrations | a crash between writing a deny and carrying it out; two writers of one file; a registration verified before the deny |
| DHT routing table | `DHTable` | buckets, replacement caches, node health | a probe's answer applied to a bucket that changed meanwhile, repeated splitting |
| service listener | `natnode/service_listener.go` | carriers, sessions, slots | a slot is given back by whichever of four ends comes first; Close while a carrier is being opened or cleared |
| tunnel | `cmd/tunnel` | streams over one connection | messages out of order, repeated, and after the end of their stream, when they make a new one |
| logs | `logx` | active, pending and archived files | a crash between any two file operations |
| router, CLI, admission requests, encodings | `p2pnode/router`, `admissioncli`, `admission` | - | no shared state; see section 5 |

The parts interact along two paths. A message goes from `NATConnection.Send`
(sequence number of the billing session, end-to-end record) through a
DualStream to one of its legs, over the relay's frame path to the peer's legs,
and its acknowledgement comes back. On the relay the record passes the billing
pipeline, which asks the NAT over the control connection for a voucher when a
window is full, puts it into the waitSubmit queue, and submits it to the CA; the
holdback keeps the record's frames until then. Below these paths, relays tell
each other over control links which nodes they host, and a client's connection
to a node of another relay is bridged over pooled physical connections.

`PROJECT.json` lists every part with its status, and the hazards of the code at
the line where they bite.

## 2. Modules

| module | models | checked by |
|---|---|---|
| `BillingQueue` | `billingqueue.Queue`: file, memory, faults, crashes | `MCRelayStorage`, `MCRelay` |
| `DurableQueue` | what the queue promises: entries, FIFO per channel, nothing acknowledged is lost | `MCRelay`, as a refinement of `BillingQueue` |
| `DurableProofs` | inductive invariant of the queue; `BillingQueue` implements `DurableQueue`; denies survive restarts (`Revocation`) | tlapm |
| `BillingEvidence` | the records, windows and vouchers of one session on each side, as operators | through `BillingSession` |
| `BillingSession` | NAT senders, control connections, relay pipeline, settlement | `MCBillingSession`, `MCEventually` |
| `Holdback` | `messageHoldback` and the pumps that use it | `MCRelayStorage` |
| `Metering` | forward hook, retransmit cache, account, settlement loop | `MCEventually` |
| `RelayFailover` | `relayFailoverState` | through `DualStream` |
| `LegTable` | `legs`, `legOrder`, `preferred` and their operators | through `DualStream` |
| `DualStream` | the goroutines of a dialing DualStream | `MCDualStream` |
| `DualStreamProofs` | the leg table is consistent, no carrier is forgotten, waiting sends are woken | tlapm |
| `ReplayWindow` | `e2eReplayWindow`, as operators | through `RelayedTransfer` |
| `RelayedTransfer` | messages and acknowledgements of one relayed connection: callee, relay, client | `MCEndpoints`, `MCRelayedTransfer` |
| `ForwardingProofs` | the ring answers as the set of observed numbers would; no record is given twice; one bridge for a connection (`CrossRelayBridge`) | tlapm |
| `Registration` | `TransportCover` and `StreamGroup` of one hosted NAT | `MCRelay` |
| `PeerLinks` | inbound control links and their tables | `MCRelay` |
| `HostRoutes` | how a relay tells a neighbour which node it hosts | `MCEventually` |
| `BridgePool` | the pool of physical connections to one relay | `MCEventually` |
| `CrossRelayBridge` | the bridge shared by the legs of one connection | `MCRelay` |
| `Striping` | one logical connection over several physical ones | `MCRelay` |
| `Revocation` | the revocation log, its file and registrations | `MCRelayStorage` |
| `RoutingTable` | buckets and maintenance of the DHT | `MCEndpoints` |
| `ServiceListener` | the persistent service of a NAT node | `MCEndpoints` |
| `TunnelMux` | the tunnel's streams over one connection | `MCEndpoints`, `MCTunnel` |
| `LogArchive` | the file sink of the logger | `MCRelayStorage` |
| `RelayProofs` | `PeerLinks` and `Holdback`: tables that agree; frames are written only when counted; early records are not forgotten | tlapm |
| `HoldbackCountProofs` | the counters of `Holdback` are exact | tlapm |
| `ResourceProofs` | `BridgePool`, `ServiceListener` and `Metering`: the counts are right | tlapm |
| `RegistrationProofs` | the node is published with its group; connections are known | tlapm |
| `StorageProofs` | `LogArchive` and `RoutingTable`: lines survive, the buckets are sound | tlapm |

Components that share no state are checked side by side: `MCRelayStorage`,
`MCRelay`, `MCEventually` and `MCEndpoints` extend several modules,
and a variable `part`, chosen in the initial state, says which component takes
the steps. Nothing is lost by this, since the others would only stutter.

### BillingQueue

`file` is what a reader of the path sees, a set of frames ordered by position;
`format` distinguishes an absent file, the older V2 list and the V3 log;
`synced` and `shadow` say what a power loss may bring back (frames from
`synced` on may be missing, and the directory may still name a file of
`shadow`). `items`, `bytes`, `payerUsage`, `logBytes` and `garbageBytes` are the
fields of `Queue`; `handle` is the life of the object (a persistence failure
poisons it until it is reopened). Actions: `Enqueue`, `Remove`,
`RemoveChannelHead` (with the compaction they may start), `Close`, `OpenAbsent`,
`OpenWal`, `OpenLegacy`, `Crash`, `PowerLoss`; each file operation takes its
outcome as a parameter (`Faults`). The SHA-256 chain is abstracted to the rule
it enforces: nothing after a torn frame parses.

### BillingEvidence and BillingSession

A watermark is a digest of the records it covers, so it is represented by their
sequence. A NAT session (`natBillingSession`) and a relay session
(`relayBillingSession`) are records; the operators of `BillingEvidence` are the
functions of the source on them (advance, fill a window, co-sign, reconcile,
accept, settle). `BillingSession` adds the `Send` call of each message, the
control connections with one message in each direction, the relay's handlers,
the record observer that holds the session lock while it waits for a voucher,
the queue, the CA, and restarts of both sides. A poisoned pipeline refuses new
control connections (`Advertise`) as it refuses records. `Fail`'s invalidation
with `completeSend`, and `OnSettlement`'s enqueue with the lock it retakes, are
one step each. A NAT that crashes forgets its sessions and the numbers it gave
out; `budget.forgot` remembers that this happened, and `NumberedAlike` speaks of
the time before it, restarts of the relay included.

### DualStream

One step is one critical section. The pump of a carrier, a sender and the relay
watcher may all enter `handleLegFailure` (`fail`, in two steps: the first reads
whether a dialer exists and closes the carrier, the second detaches it, closes
an empty stream and schedules the reconnect). Reconnect goroutines (`worker`)
dial, attach, prefer and signal; `setup` is the initial dial with its optional
second TCP leg; `sender` follows `sendMessage` through primary, hedge, backup and
retry. `Close` is one step. Carriers are recycled once they are closed and
nobody refers to them, which keeps the model finite without bounding the number
of reconnects.

### ReplayWindow and RelayedTransfer

The callee of a relayed connection shares the carriers of its registration
through `EndpointFrameMux`; the client has a DualStream, here with one leg at a
time. Every hop numbers messages itself: the sending `TcpStream`, the relay's
endpoint on the carriers (`relay.routes`, the map `ackIDs` and one generator for
each carrier), the registry of pairs (`pairs`), and the relay's endpoint of the
client's leg. Frames carry only the id of their hop, so the properties depend on
all translations being right while routes move.

`send` is the state of each `SendMessage` (id, acknowledged frames, remaining
attempts); `callee.stream` and `client.stream` hold the assembler, the delivered
ids and the partial acknowledgements that are due; `callee.inbound` is the
carrier on which an acknowledgement has to go back. Actions on the endpoints:
send, timeout with retransmission, receive (reassembly, replay window,
acknowledgement), partial acknowledgement, choice of a carrier for each frame,
overflow of the queue. On the relay: the two pumps, eviction of a pair, the loss
of a carrier with the rebinding of its routes, the replay for quality, and the
writing of replayed frames (`relay.jobs`), which happens after the lock is
released. The client loses its leg, resumes on a new one and sends the same
record again. `given`, `reached` and `paths` are history variables.

A carrier is a FIFO. What is on it is lost with it, and both sides learn of the
loss in the same step; the last carrier is never lost. A write that fails is part
of the loss of its carrier. The client's leg is lost with its pump at rest, as
`startFramePump` purges it; where a failed write purges first
(`onClientFailure`), a frame that the pump has already read may still be bound
afterwards, which the model leaves out. A full acknowledgement forgets the
inbound route when it is written.

### Holdback and Metering

`hb` is what `holdback.mu` protects: entries with their frames and status, the
counters of the scope and of each connection, the approved entries in order, the
validation lock and who refers to it. A pump goes through `framesForForward`:
add the frame, take the lock of the scope, read the phase, ask the hook, approve,
defer or reject, wake the next deferred record, leave, write. The code compares
pointers after each unlock; a pump's `live` flag is the result of that
comparison. Timers are two steps, firing and taking the mutex. `Verdicts` is what
the hook may answer: a record is accepted in the order of its numbers.
`Metering` follows a frame from the hook (threshold, free repeats) through the
batch and its rollback to the account, and the account through `settleOnce`. The
relay does not start these by itself: `installMeteringHook` and
`startSettlementLoop` (`billing_hook.go:29` and `:75`) have no caller, and
`settleOnce` has only tests. No property says that a cut-off server is let in
again. A settlement call that fails is not repeated with the same bytes, although
the comment at `billing_hook.go:119` speaks of a retry: `ca.missed` counts what
the CA never heard of.

### Registration, PeerLinks, CrossRelayBridge, Striping, BridgePool, HostRoutes

`Registration`: `cover` is what `TransportCover` knows of the NAT (its group, the
retired session with its connections), `groups` and `resources` are the
`StreamGroup`s and their `connectionResource`s, `reg` and `leg` the goroutines of
a registration and of a client's leg. `registrationLifecycle` is a variable;
critical sections are steps, and the retirement of a group, which spans two of
them, keeps the cover's lock in between.

`PeerLinks`: a link arrives, says HELLO, is activated (displacing links of older
sessions) or refused, breaks, and is taken out of three tables one after the
other. `CrossRelayBridge`: an entry of `localLegs` is claimed by the first leg,
which searches the host over the control links, dials and starts the bridge; the
others wait for `kcpReady`. `Striping`: frames on each physical connection are a
FIFO in each direction; the stream is named by the connection, so attempts share
it; `stripe` is the set of legs being gathered. A CLOSE is written under a
deadline and dropped when it misses it (`unclosed`, at most `MaxLostCloses`). The
acceptor then keeps the old stream, ignores the next attempt's OPEN of the same
name and lets its DATA into the old connection: an *untold* attempt. What
`OneAttemptInOrder` and `NothingStranded` still say of one is that its reader gets
numbers in order and nothing of an earlier attempt, and that its legs belong to a
connection. `BridgePool`: one step per
critical section of the manage loops, `maybeExpand`, `reapOnce` and `Close`.
`HostRoutes`: the announcements take a sequence number and enter the queue in
separate steps; sequence numbers are compared only, so every step renumbers them
by rank, which keeps a renewal that goes on for ever finite.

### Revocation, LogArchive, RoutingTable, ServiceListener, TunnelMux

`Revocation`: `state` and `revFile` are the control's state in memory and on
disk, `denied` the scopes in force; the sync goroutine and the decision goroutine
write, record and close in separate steps. A crash keeps only the file.
`LogArchive`: a file is the set of its lines; rotation takes its outcome from the
file operations that may fail.

`RoutingTable`: a node is its distance; one step per critical section of the
maintenance. `members` remembers the nodes that `AddNode` found room for and that
were not removed, cleared or dropped since. A full bucket is split at once, into
buckets with new caches, and the node that met it is left out although the split
makes room for it: in a table no candidate ever takes a free place, contrary to
`interfaces/Buket.go:24-35` (`health_test.go:80-106` has a `StoreNode` of its own,
outside a table). `SetNodeHealth` and `Clear` are called by tests only; they are
actions like the others.

`ServiceListener`: each virtual connection is handled by a worker (`admit`,
handshake, activate, queue); a mux is its generation, 0 for none. Close looks at
a carrier's mux, and later at its entry, without the lock, and uses it in a step of
its own: when `clearCarrier` comes in between, the process panics, which is an
outcome of the model (`listener.pc = "panic"`).

`TunnelMux`: the network is a set of messages, of which any one may arrive next
and some arrive again. A frame that finds no stream of its number makes one, so a
side's streams have a number and a generation. At the server a late frame is
dialed and served like a stream the client opened, although
`cmd/tunnel/server/main.go:186` speaks of each sub-stream opened by the client. Its
bytes and its CLOSE have the numbers of the stream before, so what the client
reads of that number is exempt from `TunnelFaithful` (`ServedAgain`); what the
server reads is not.

## 3. Runs

| run | question | bounds |
|---|---|---|
| `relay_storage` | Is every log that operations, failures, crashes and power losses leave behind accepted by `Open`, mirrored in memory and counted exactly? Does a deny in force survive a restart, and does a hosted node not survive its deny? Is no logged line lost? Is a frame forwarded only after its record was accepted, are the holdback's counters exact, and is no early record left waiting? | queue: 3 vouchers of 2 payers and 2 channels, 5 frames appended, all faults; revocation: 2 nodes, 2 events, 2 faults; logs: 2 writers and the ticker, 4 lines, 2 per file, 2 faults; holdback: 2 pumps, 2 connections, a handshake message and 2 records, limits of 1 to 3, 1 fault |
| `relay_connections` | Does the queue implement `DurableQueue` when the directory can be synced? Does a connection run on one session of the NAT, known by name, and is the node published exactly while it has a group? Do the link tables agree with the links? Do the legs of a connection share one bridge? Does a striped connection deliver one attempt in order, without losing a chunk or a leg, as long as no CLOSE is lost, and what is left of that when one is? | registration: 2 sessions, 3 groups, 1 connection, 2 legs, 2 faults; links: 3 links, 3 sessions of 2 peers at one address; bridge: 3 legs, 2 entries, 2 control links; striping: 2 physical connections, 2 attempts, 2 chunks, 1 fault, 1 lost CLOSE |
| `billing_session` | One voucher chain, credit bounded by the window, sessions numbered alike on both sides until the NAT forgets them, no confirmed usage dropped, a queue that restores | 2 messages, 2 attempts each, 2 overlapping control connections, 2 faults, of the network or of the processes (`NetworkOrProcesses`) |
| `eventually` | Do NAT and relay agree on a session again, and does every send return? Is a hosted node known to the neighbour, and a node that left forgotten? Does a closed pool give up its connections? With `ThresholdsAgree`, `PoolBounds` and `PaidOnce` along the way | 2 messages, 1 fault; a broadcast queue of 1, 2 announcements under way; 2 physical connections; 2 frames, a threshold of 2, 5 sends, 2 faults |
| `dual_stream` | Leg table, carriers, dials, the close of an unestablished stream, and whether a waiting sender ever misses a new leg | 2 carriers, 2 reconnect goroutines, 2 relay generations; 1 sender, with one reconnect goroutine until the relay changes and none after it (`SendScope`) |
| `dual_stream_shutdown` | Does everything end after Close? (liveness) | single-TCP mode, 1 billable sender, 2 relay generations, 2 failures for each |
| `endpoints` | Are acknowledged frames received, records given once, ids unambiguous, and is an acknowledged message given to the application when it took one path? Do the buckets partition the nodes and hold exactly those that were let in? Are sessions served once and slots given back once, and registrations taken back by Close? Does the tunnel deliver what was written, in order and to the end? | 8 workloads of one or two messages of one or two frames, 2 carriers, a window of 4; 3 nodes, buckets of 2; 2 carriers, 2 connection ids, 2 workers, 2 slots, a queue of 1, 3 muxes; tunnel: 1 stream number, 2 generations, 3 writes or faults in all |

Five runs show a disagreement between the code and what the repository says of
it; each is a finding in `PROJECT.json`:

- `billing_session_poison`: the late answer to a settlement claim is a duplicate
  of the queue and poisons the pipeline for every payer.
- `billing_session_draining`: a session that was reconciled with sends in flight
  and then has to be rotated can never be replaced.
- `dual_stream_survival`: a KCP leg that runs out of its single attempt closes
  the stream although TCP is still being dialed.
- `relayed_transfer_ack`: the frames of one message take two carriers, the relay
  gives them two ids, and the client acknowledges both halves without ever
  having the message. `EndToEndAckOnOnePath` is the part that holds.
- `tunnel_client_reading`: a CLOSE or data that the server sends after the client
  removed the stream makes the client create streams that nobody accepts, until
  its read loop stands still.

Three further definitions describe what the code does not guarantee and are not
part of a run: `NeverStranded` and `LegsFollowRelay` of `DualStream`,
`EarlyChunksReplayed` of `Striping`. The hazards in `PROJECT.json` that name them
say when they fail.

The bounds are chosen so that each interesting case occurs: limits of the queue,
the holdback, the pool and the listener are reached, a compaction happens,
windows are filled exactly and overflowed, a control connection is replaced while
the old one's handler still runs, both legs are lost while both are dialed, a
group ends between the steps of its successor's registration, a bucket is split
twice, a record overflows one window and fills the next. Each property is paired
with a mutation of the code's translation that breaks it under the same bounds.
Symmetry is used for the pumps of the holdback
and for the legs of `Registration` with the control links of `CrossRelayBridge`;
none of them occurs in a property by name, and the runs with liveness use none.

A few branches are translated and never taken, because what they guard against
does not happen: `MaintReplaces` finds no candidate, since `AddNode` splits a full
bucket into buckets with new caches; the client's stream
never gets frames of two messages under one id (`RoutesUnambiguous`); a session that
the NAT has and did not invalidate is not presented again (`Activate`). No run has
an empty list of relays.

`CHECK_DEADLOCK FALSE` is set where the system may stop: all messages are sent
and the bounds used up, the stream, listener or pool is closed, or the last group
has ended. In `relay_storage` the queue must never stop; the other components of
that run may.

### Fairness

`eventually`: a step of a goroutine that can run is taken. For the billing: the
control connection is dialed again after each loss (the NAT's loop never gives
up) and the relay answers what it read; one connection at a time, because the
NAT waits 250 ms to 5 s between two of them. For the routes: publishers and
senders run, the renewal ticker ticks, what is on a link arrives or the link
breaks, leases end. For the pool: manage loops run and their dials return (each
has a timeout), what was taken out of the pool is closed. Faults, lost links and credits are never fair; faults
are bounded, links and registrations may change for ever.

`DualStream.FairSpec`: goroutines run, dials return (each has a timeout), reads
and sends return when the context is cancelled or the carrier is closed. Losses
and Close are not fair.

## 4. Proofs

`DurableProofs` is about the files of a relay. Of `BillingQueue` it proves for every
set of vouchers, payers and channels, every limit and every set of faults:

- `TypeCorrect`: the type invariant;
- `MemoryCorrect`: `MemoryMirrorsFile`, an open queue's entries are the live
  entries of its file;
- `SurvivorsReplay`: every file that a crash or a power loss may leave replays
  without a structural error.

The invariant of the first two is not inductive: `OpenWal` must know that the
file it finds is well formed, and after a power loss that file may be an older
one. `IInv` therefore says of the file *and* of every file in `shadow` that it
is well formed (each frame accepted after its predecessors, at most one torn
frame, at the end), that its frames lie before the next position, and that a
file in another format is fully synced. The lemmas state what appending an
enqueue, a remove or a torn frame, truncating, and keeping only the live frames
do to `WellFormed` and to `Live`; one lemma per action follows.

`QueueRefinesDurableQueue` follows in a second part: without
`dirSyncFailed` every step of the queue is a step of `DurableQueue` or a
stutter. The extra invariant is that `shadow` is empty between operations, so
the only uncertainty after a failed append is whether its own frame survives.
With `dirSyncFailed` the directory may name the file of before the compaction
after a power loss, and the queue does not promise what `DurableQueue` says.

Of `Revocation` it proves `DenyInForceIsOnFile` (`DenySurvivesRestart`) and
`DeniedNodesAreClosed` (`DeniedHostedOnlyLate`). Both follow from what the two
writers of the state file know: memory never runs ahead of the file, an answer of
the CA continues the epoch in memory, and what a goroutine is about to record or
close is part of the state it wrote (`StateInFile`, `AnswerFollows`).

`DualStreamProofs` is about the goroutines of a dialing stream, for every set of
legs and carriers, any number of reconnect goroutines and senders, and every
candidate list: `LegsStayConsistent` (`LegsConsistent`), `CarriersAreNotForgotten`
(`NoCarrierLeak`) and `WaitingSendsAreWoken` (`NoLostWakeup`). The three need each
other and what the goroutines know of one another (`DualInv`). `TableInv`: the
table of a closed stream is empty, that of an open one is consistent.
`WorkerInv`: a reconnect goroutine is the only one for its leg and dials only
while the leg is missing. `CarrierInv`: a carrier that was dialed and waits to be
attached is known to its goroutine alone (`HeldCarrier`), the carrier of a leg is
closed or has the pump of that leg, and a leg is dialed again only after the
handshake. `SetupInv`: a stream that lost its legs before the handshake is closed,
so nobody waits for a reconnect that will not come. What `legOrder` looks like
after a leg is cut out, and which leg `nextPreferredLocked` takes from it, are
lemmas of their own (`RemoveLegOrderIs`, `FirstLegIs`). A step either
loses legs, moves one thread, or puts a carrier the goroutine holds into the
table; there is one lemma for each part of the invariant and each kind of step.

`ForwardingProofs` first proves for every size of the window that the ring
stands for a set of record numbers (`Represents`): the zero value stands for the
empty set (`EmptyRepresents`), `duplicate` holds exactly of the numbers in the set
and of those a window or more behind the highest one (`DuplicateCorrect`), and
`observe` adds its number to the set (`ObserveCorrect`). The argument is that two
numbers less than a window apart never share a slot, so clearing the slots of the
numbers between the old and the new highest one clears all that is too old and
nothing else. From these follow, for every workload and any number of carriers,
`WindowsMatchApplications` (each receiver's window has observed exactly the
records its application was given) and `RecordsGivenAtMostOnce` (`AtMostOnce`).
The type invariant carries more than types here: data in a queue, on a carrier, in
a route's cache or in a replay job is of the messages that travel that way, since
otherwise one window could be asked about the other direction's numbers.
The same module proves `LegsOfConnectionShareBridge` (`LegsShareBridge`). It rests
on the builder of a bridge being the only one and holding the present entry, and
on every entry whose waiting legs are not woken having a builder
(`BuilderHoldsEntry`, `EntriesClaimed`).

`RelayProofs` proves `LinkTablesAgreeWithLinks` (`LinkTablesAgree`), which rests on
sessions being numbered in the order they are first seen, and on no activated link
being newer than the session its peer is served on (`CurrentIsNewest`); and, of the
holdback, `ForwardedRecordsWereCounted` (`ForwardedWasAccepted`) and
`EarlyRecordsAreNotForgotten` (`NoStrandedRecord`) for any number of pumps,
connections and messages and any limits. `HoldInv` has three parts besides the
types. `LockInv`: the pumps that refer to a validation lock refer to the present
one, its users are counted exactly, and one pump is inside - without the count,
`leave` could drop a lock that another pump is about to take. `RecordInv`: what is
approved, in a pump's hands between the hook's answer and the last write, or
written, was counted. `StrandInv`: an early record that waits has a predecessor
that was not released yet, or the pump inside released it and has still to look
for deferred records. Most of the lemmas say that a step only loses entries
(`Lost`: expiry, eviction, removal of a connection) or moves one pump (`Moves`),
which keeps each part.

In `HoldbackCountProofs`, `CountersAreExact` (`CountersExact`) adds `CountInv`: every counter of the table
and of a connection is the number of its pending messages, pending frames or
approved messages, `approved` lists exactly the approved ones, an entry that is
complete has all its frames, and a pump whose entry is live validates it and is
the only one to (`LiveInv`) - otherwise `approve` could take a message off the
counters a second time. What `removeEntryLocked` takes off, for one message or
for all of a connection, is proved once (`RemovedCounted`); expiry, eviction,
reset and rejection are uses of it.

`ResourceProofs` is about counted resources. `PoolStaysWithinBounds`: `PoolBounds`
is inductive with the types. `SessionsAreServedOnce`: the slots in use are the
goroutines that hold one, the active sessions and those on their way out
(`SlotsCounted`); this is kept because an id is never active and pending at once,
because a drained table belongs to the one that drained it, and because Close
leaves nothing that a late goroutine could still activate.
`RegistrationsAreTakenBack` (`RegistrationsTakenBack`) follows Close over the
carriers: a registration that no goroutine is about to take back belongs to a
carrier with a mux, and Close has that carrier still before it (`KeptIsSeen`).
`FramesArePaidOnce`: `PaidOnce` needs a second count beside its own, since a rollback takes back what
was collected for a batch that was not written: what is written is covered even
without the part of the batch (`FramesPaid`, `RollbackCovered`).

`RegistrationProofs`: `NodeHostedWithGroup` needs that one registration is at work
and what each of its steps finds (`OneRegistration`, `OpenGroupHosted`).
`ConnectionsAreKnown` needs to follow what is handed on: a connection that was
admitted for a session is retired with it, or known to the present group, to the
registration that makes the next group, or among those of the dormant session
(`AdmittedKnown`), and a leg that looked its group up may bring its connection
only while that group is in the table (`LookedUp`).

`StorageProofs`: `LinesAreKept` needs that `archiveTasks` counts the files in the goroutines'
hands, in the channel and in the archive loop's (`TasksCounted`), and that a
rotated file is removed only when its archive is published.
`RoutingTableStaysSound` (`RoutingTableSound`) is proved for every set of
distances, bucket size and number of failures. `TableGood`: the ranges of the
buckets follow each other and cover the distances, and a bucket holds no more
than `maxSize` nodes, nobody twice and nobody out of its range; splitting keeps
it however often it is repeated, which is an induction over the width of the
last bucket, and it loses nobody, so that the nodes in the buckets stay those in
`members` (`HoldsItsMembers`). `FailuresTrue`, `ProbeTrue` and `DropTrue` follow a failed probe
through maintenance: a node that was heard of between the probe and its verdict is
not counted against, and one that is dropped missed `RemoveAfterFailures` probes
in a row.

Each inductive invariant was checked by TLC on the bounds of the runs before it
was proved. In three places the attempt showed that the model was not yet what
the code does or that a property did not say what was meant: the end of a pump,
a refused frame and a failing flush forget the connection's cache (`Metering`);
a `.pending` file that cannot be read is skipped (`LogRecovers`); and
`NoStrandedRecord` now speaks of the last validation of a message, since a
repetition of a released record is validated again.

Assumptions: the named assumptions of the modules on their constants. They are
types, positive limits and windows, finite sets of pumps, carriers, links and
frames where something is counted, reserved values (`"none"`, `"free"`) that name
no member of a set, a V2 file without duplicates (`LegacyAssumption`), records
numbered from 1 without gaps (`RecordsNumbered`), and a rotation ticker among the
writers of a log. TLC evaluates them in the runs.

The provers have no induction over data. Where a proof needs one (cutting a node
out of a slice, taking messages out of a list, distributing the nodes of a bucket,
repeated splitting) it goes through the least number principle (`Smallest`, from the well-foundedness of `<`):
the least length at which the claim fails has a predecessor at which it holds.

Only model-checked:

- liveness, which the prover does not reach;
- what is computed by folds over sets or sequences: `AccountingExact` (sums of
  sizes over the entries), the chunks of `Striping`, the chains and sums of
  `BillingEvidence`;
- `ReopenAccepts`, which is not true of every choice of the constants: compactions
  that keep failing let the log outgrow `MaximumFileSize`; the run shows it for
  the number of failures its bounds allow;
- `BillingSession`, `TunnelMux`, `HostRoutes`, and `AcksTruthful`,
  `RoutesUnambiguous` and `EndToEndAckOnOnePath` of `RelayedTransfer`: their
  invariants follow a message or a voucher through many hands, and no inductive
  form short enough to prove was found.

## 5. Not modelled

Cryptography (signatures, Noise, TLS, certificates) is ideal; requests to the CA
are answered, refused or fail. Encodings, command lines, the router and
diagnostics have no state that changes concurrently.

In the billing session: trimming of snapshots beyond 65536 entries, the map of
recent records that are acknowledged again, `waitRelaySession` timeouts, deny
decisions (`blockPayers`), certificate renewal. In the holdback: the parsing of
records. In the metering: the byte budgets of the retransmit cache that all
connections share, expiry of acknowledged progress. In DualStream: the accepting
side, the inbox. In the transfer: expiry of routes and pairs by time (a live send
leaves no gap of more than 8 s, they expire after 90 s and 2 min), limits of the
replay cache, a second leg of the client's endpoint, carriers attached again, the
queue between the multiplexer and `handleData` except for its overflow; opening
and retiring logical connections of `EndpointFrameMux`. In the registration: the
challenge, the reconnect gate, expiry of retired sessions. Between relays:
outbound control links, passing routes on, the bytes that cross a bridge, the
width recommendation. In the revocation: scopes wider than a node and their
effect on control links. In the listener: the handshake and the billing set-up of
a carrier. Relay selection, frame size negotiation and adaptive timeouts choose
values that the models take as inputs.

Every part is listed with its status and reason in `PROJECT.json`.

## 6. Plan

What is left is proof: the byte counters of `BillingQueue`,
`AcksTruthful` of `RelayedTransfer`, and one voucher chain for the evidence
operators.
