# BeaverMQ: TLA+ models, model checking and proofs

BeaverMQ (`src/`) is an AMQP 0-9-1 broker in C on libuv. This directory models
its concurrent and stateful parts in TLA+, checks small instances with TLC and
proves the most important results for every instance with TLAPS.
`PROJECT.json` maps every definition to the source lines it stands for and
lists the runs, the mutants that show each property can fail, the hazards and
the theorems.

## The system

| Part | Source | Module | State |
|---|---|---|---|
| Raft consensus: PreVote, election, replication, commit, persistence, fsync | `cluster.c` | `Raft` | modelled, proved in part |
| Proposal forwarding, cluster confirms | `cluster.c` 1012-1148, 2315-2389, 2969-3132, 3468-3524 | `Forwarding` | modelled |
| Snapshots, log compaction, state transfer | `cluster.c` 529-953, 1455-1716, 2392-2526 | `Snapshot` | modelled under one leader |
| Peer links, HELLO, STATUS | `cluster.c` 2618-2876 | `Raft` (`LinkReset`) | in part |
| Queue: ring, limits, counters, congestion | `queue.c` | `Queue`, `Fifo` | modelled, safety proved |
| Consume tracking, draining of replicas | `queue.c`, `dispatch.c`, `cluster.c` | `Consume` | modelled, proved in part |
| Dispatcher: consumers, wakeups, prefetch, backpressure | `dispatch.c` | `Dispatch` | modelled without teardown, proved in part |
| Broker registry, routing, dead-lettering | `broker.c` | `Broker`, `Dispatch` (consumers) | modelled without the management listings |
| Exchanges, topic matching | `exchange.c` | `Broker` | modelled |
| AMQP connections, channels, content, confirms | `protocol.c` | `Session`; `Dispatch`, `Consume` (Basic.Get) | modelled without exclusive queues |
| Connections, throttling, memory alarm, heartbeats, shutdown | `net.c`, `queue.c` 25-80 | `Server`; `Dispatch` (write buffer) | modelled |
| Supervisor process | `supervisor.c` | `Supervisor` | modelled, proved in part |
| Heartbeat writer, worker threads, startup | `main.c` | `Supervisor` (`Beat`), `Server` (shutdown), `Admin` (store, token, order of startup) | in part |
| Login limiter | `authlimit.c` | `Admin` | modelled, proved in part |
| Users, virtual hosts, permissions and their file | `authstore.c` | `Admin` | modelled, proved in part |
| Management interface: connections, authentication, changes of the configuration | `http.c` | `Admin` | modelled without the contents of responses, proved in part |
| Frame codec, hash map, messages, config, logger, crypto, web | the rest | - | not modelled |

How they interact. A client's frame is read by one of several worker loops
(`net.c`, `protocol.c`). A publish is routed by the broker to queues; in a
cluster it is first proposed to Raft and enqueued on every node when the entry
is applied (`apply_op()`). A queue wakes the dispatchers registered on it; each
dispatcher serves its worker's consumers. The node whose clients consume
replicates a watermark of what is consumed, and the other nodes drop their
copies below it. What every node has on disk is dropped from the log, and a node
that needs it again gets the leader's state instead. Users and permissions are
changed over HTTP, in a cluster through the same log; passwords are checked on
libuv's thread pool, for HTTP and AMQP under one limiter. A separate supervisor process keeps the broker process alive.

## The modules

One action models one handler or, where the handler gives up a lock in the
middle, one stretch between two locks. Message contents, names and payloads are
model values or counters.

**`Raft`.** One action per callback of the cluster loop: `ElectionTimeout`,
`Heartbeat` and `FsyncTimer` are the timers, `Handle*`, `RejectStaleAppend`,
`FollowLeader`, `RejectAppend` and `AcceptAppend` are the cases of
`cl_dispatch()`, `Propose` is `leader_append()` with `leader_flush()`,
`LinkReset` a connection that breaks and is dialled again, `Crash` a power loss
followed by `persist_load()`. `log` is the log in memory, `disk` the file as of
the last fsync and `stable` how much of it a power loss cannot take;
`durableIndex` is what the code *believes* to be stable. A failing write is a
free choice wherever the code writes. A connection is a FIFO channel per
direction that loses its contents when it breaks.

**`Queue`** is the ring buffer with its growth, `Fifo` what a queue promises:
`FifoOrder` is `Fifo!FifoSpec` under the mapping `contents <- Contents` (the
live region of the ring). Every operation holds the queue's lock and is one
step. `fate` is a history variable that says where each message went.

**`Consume`** follows one queue of a replicated broker. A message is the log
index of its publish. `Take` is `queue_dequeue()`; recording the delivery is a
step of its own (`DeliverAck`, `DeliverNoAck`, `DeliverPull`, `DeliverGet`,
`DeliverFails`) because the code drops the lock in between. Reading the
watermark, marking it replicated and proposing it are one step. `acks` is the
sequence of committed `CL_OP_ACK` entries; `here` and `there` say how many of
them the consuming node and a replica have applied.

**`Forwarding`** takes from Raft only that a leader exists, that it changes, and
that committed entries reach everybody, and follows an operation from the worker
that submits it: `Draw` and `Submit` are the two halves of `propose_internal()`,
`DrainInbox` hands the inbox to the local log or to the leader, whose
`ReceiveForward` appends it; `AdvanceCommit` with `Released` acknowledges it and
`ReceiveAck` marks it for the polling client. `LinkDown`, `LinkUp`, `Sweep`,
`Elect` and `Restart` are what makes it be sent again. `DrainFails` and
`ReceiveForwardFails` are the same two callbacks when `log_append()` fails, for want
of memory or because the entry cannot be persisted; the latter ends the leadership
in the middle of the batch.

**`Broker`** has the registry, the exchanges with their bindings, and threads
that publish. What happens under the registry's lock is one step; a route then
enqueues into one queue per step (`Continue`), with the queues it has collected
held by a reference. An evicted or rejected message is routed again inside the
same call, so each thread has a stack of routes. `MatchTokens` is the recursive
matcher of topic patterns, `Covers` the definition it is checked against.

**`Server`** has worker loops with their connections. `ClaimSlot` and `Admit`
are `on_new_connection()` around its atomic increment; a read puts frames into
`inbuf`, which the same callback dispatches to the last one (`DispatchFrame`),
even after one of them has paused the connection. Memory is what the queue and
the consumers hold; time passes in half heartbeat intervals, no faster than the
loops follow. `handles` are the libuv handles that keep a loop running.

**`Session`** is one connection and a client that keeps to the protocol. Frames
travel in two FIFO channels; `OnRead` takes some, and `DispatchFrame` runs the
handler of each of them before the loop does anything else. A publish into a
congested cluster or a full memory pauses reading until `OnThrottleTimer` finds the
pressure gone; frames that were read with it are still handled. The
password is verified by a thread whose result (`AuthWorkDone`) may find the
connection gone. `ops` are the answers that wait for the cluster, polled by
`OpTimer`, which may find the outcome decided or the deadline over. The client
keeps its own books (`waiting`, `unconfirmed`), and the properties compare what
arrives with them.

**`Dispatch`** has worker loops, publishing threads and the queue objects of one
name. `loop[w]` says in the middle of which handler worker `w` is. Messages are
counted. A socket's write buffer has three levels, the highest of them above
the mark at which deliveries pause. The teardown of a dispatcher at shutdown is
left out, and so is the out-of-memory path of `drop-head` dead-lettering in
`Queue`.

**`Supervisor`** runs the callbacks of the supervisor's loop in any order the
pending events allow. The two close callbacks of a worker's handles are one
step. Time is kept as ages and countdowns that saturate, so that it can pass
for ever in a finite model. Children crash, freeze, ignore SIGTERM, or fail to
be forked.

**`Snapshot`** has a leader and one of its peers, with a FIFO link that loses its
contents when it breaks. The leader's other peers hold and have fsynced what is
committed (`Advance`). What `apply_op()` builds is an *image*: queues with their
messages, access-control objects, and the accumulated topology `n->topo`. The
operators `SendAppend`, `SnapStart`, `SnapPump` and `PumpPeer` take the leader's
record of the peer and return it with the frames they send; `Handle*` are the
cases of `cl_dispatch()`. `log_compact_to()` is two steps, `CompactionSweep` (to
the rename of the snapshot) and `Reclaim`, because a crash between them is what
its comment is about. `Recovered` is `persist_load()` on a log file and a
snapshot. `disk.stable` is the file as of the last fsync and `disk.safe` how much of
it has not been truncated since: a record that a resend writes again is not safe
until the next fsync. `Deliver`, `Settle` and `Requeue` are the leader's consumers,
`Wipe` an operator replacing a lost disk. `flaws` is a history variable that records
what made a transfer incomplete: the link broke inside it, a consumer held a
message, or its snapshot could not be saved at the end (`unsaved`).

**`Admin`** has the store and its file, the limiter, and the connections of the
management interface. `CheckPassword` (HTTP) and `AmqpLogin` start a password
check, `WorkDone` is its completion on the loop, which may find the connection
gone (`Detached`), the user changed (`LevelAfter` reads the tags then) or the
limiter's entry evicted. The level is found under one lock of the store and the change
made under another, so they are two steps of one callback: the first sets
`task`, the second is `HandleMgmt`, and in between only other threads run
(`LoopFree`). `CfgApply` changes the store here or proposes the change. Each loop caches the time (`now`), and times are subtracted modulo
`Wrap`. `Crash` ends the process and runs the startup of `main()` up to the
management thread; `Attach` is `start_cluster()`, which comes later.

## Runs

A run explores several scenarios at once. A variable that never changes
(`setup`, in `Consume` `clients`) says who is connected where and how often what
may happen, and is chosen in `Init` from a constant set; in `Raft` each
scenario starts with a part of the bounds used up. Where a property holds only
in some circumstances, its definition says so with a named predicate
(`Recorded`, `Acknowledged`, `Notifying`, `Steady`, `Sheltered`, `AcksAreRead`), and the scenarios
include the other circumstances, too.

| Run | Shows | Bounds |
|---|---|---|
| `raft` | Under both sync policies, through power loss and failing storage: one leader per term (`ElectionSafety`), one vote per node and term (`VoteOncePerTerm`); what is applied never diverges (`StateMachineSafety`) and is in the log of every newest leader (`LeaderCompleteness`); logs agree up to any common entry (`LogMatching`). | 3 nodes, 2 client entries on top of an elected leader's. Fast: two changes of leader, or one with a broken connection. Durable: two elections from a cold start with a power loss; a power loss or a failing write around a change of leader; up to four fsyncs. Every resend fits one frame, so that the commit of an entry of an older term (figure 8 of the Raft paper) does not come up |
| `queue` | The ring implements `Fifo` (`FifoOrder`); `total_bytes` is exact (`BytesExact`), whatever the order of operations. | 5 messages of two sizes, capacity 2 growing, one requeue, one failing allocation, four limit policies |
| `consume` | While deliveries are recorded a watermark covers no unsettled message (`ReplicaKeepsUnsettled`) and nothing is lost (`NothingLost`); with manual acks only, replicas drain (`ReplicasDrain`). | 2 workers, 3 messages, 2 requeues, 1 failed delivery, every way to take a message |
| `dispatch` | No ready message is left without a wakeup on its way (`NoLostWakeup`); backlog is delivered in the end (`BacklogServed`). | 2 workers, 2 consumers, 1 publisher, 3 messages, 2 queue objects of the name |
| `forwarding` | Under one leader that can append (`Steady`): an operation reported as committed is applied where it was submitted (`ConfirmedIsApplied`); operations enter the log in the order of submission (`SubmissionOrder`); what is committed is not appended again (`CommittedNotReappended`); every operation is committed (`ProposalsCommit`). | 3 nodes, up to 3 operations; an inbox is congested with one operation in it; one broken connection or sweep with one failing write, one change of leader, one append that finds no memory and one that cannot be persisted, or one restart. `Steady` never holds in the scenario with the restart, which has two threads; it is there for the other actions |
| `broker` | Reference counts are exact (`RefsCountHolders`), routing follows the meaning of bindings and patterns (`RoutedByMeaning`), a message routed to a queue that evicts only into one without limits is never lost (`KeptUntilConsumed`), routes end although dead-letter exchanges lead in circles (`RoutesReturn`). | 2 threads, 2 queue names, 2 exchanges, 2 publishes; 9 patterns with up to two hashes against 6 keys |
| `server` | A pause ends by itself where the acknowledgements that clear the alarm are read (`PausesEnd`, without heartbeats, which would end it by closing the connection); all dead connections are reaped (`DeadAreReaped`); shutdown ends without a watermark (`PlainShutdownEnds`). | 2 workers, 3 connections, limit 2; a watermark of two messages, prefetch 2, 4 publishes; connections that publish, consume or do both, persistent or not, with and without a watermark |
| `session` | Every answer is one the client waits for, also on a channel opened again under its number (`AnswersExpected`); an acknowledged publish is done (`AckedIsDone`); no protocol error without a refused publish (`NoProtocolError`); all requests and publishes are answered if the pressure on publishers ends (`ClientIsAnswered`). | 2 channels, up to 3 openings, 3 publishes of up to 2 body frames, 2 requests, 1 refusal, publishers slowed down twice |
| `supervisor` | One broker process at a time (`OneProcess`); frozen workers are reaped (`FrozenIsReaped`), shutdowns that reached the worker end (`ShutdownStops`). | 2 pids, 3 crashes, 1 freeze, 1 failing fork; windows of 2 ticks |
| `snapshot` | What the leader counts as replicated and nobody has settled is on the peer (`MatchedHoldsLive`); a peer that has caught up holds exactly what the log says (`CaughtUpIsSame`); a crash or power loss at any moment loses nothing that was fsynced (`RecoversSame`); the peer always catches up (`CatchesUp`). | 2 queues, logs of 3 or 4 entries, one record per chunk, a window of one chunk; two faults out of crash, broken link, lost disk, failing snapshot, or up to two deliveries and a requeue |
| `admin` | A running password check refers to a living connection that waits for it (`WorkRefersToLive`); a change is made for whoever is an administrator at that moment, whatever other requests did since the password check began (`OnlyAdministratorsChange`); the file is what a restart needs (`RestartKeepsConfig`); the token admits nobody after the first user (`BootstrapOnce`); a key backs off (`BackoffHolds`); connections and slots are given back (`ConnectionsEnd`). | 2 connections, 2 keys, 2 users, up to 4 requests, a limiter with one entry and 2 slots, delays 1 and 2, idle reset 3; nine scenarios with crashes, failing saves, a damaged file, hang-ups, shutdown, an isolated node |

The bounds are the least that contain the situations the properties are about:
a change of leader with an uncommitted tail needs three nodes and two entries;
a wrapped ring that grows needs a capacity of 2 and three messages; a watermark
passing an unsettled message needs two messages and a requeue; a lost wakeup
needs a publisher, two workers and a consumer that leaves; a stale confirm needs
a channel that is closed and opened again; a compaction that reaches into a
transfer needs a message on both sides of the boundary; a stale level needs two
requests under way. In `snapshot` a window of one chunk makes every
acknowledgement count, and a batch of one entry makes every compaction happen. In
`admin` the table has one entry, so that the second key evicts the first. Each
property has a mutant, a plausible mistake in the code, that TLC refutes within the same bounds.
`TypeOK`, where a module has one, documents the ranges of the variables; it
holds within the same bounds, and is not among the properties of the runs.

One further run shows the code doing what its comments rule out:
`raft_resend_unsynced`. A resend after a reconnection truncates and rewrites a
synced tail, `durable_index` is kept, and the leader commits what the follower
has not fsynced (`CommittedIsDurable`).

The modules state further properties that comments or documents promise and that
TLC refutes in the same way; they belong to no run. The scoped property beside
each one is what does hold.

| Property | How TLC refutes it | What says otherwise |
|---|---|---|
| `Raft!CommittedOnMajority` | `Raft.cfg` with `MaxBatch = 1`: a resend in several frames removes entries that were acknowledged and committed (`cluster.c:2248`). | `cluster.c:1480` |
| `Raft!ElectionSafety` | `Spec`, two timeouts, one crash, one fault: a vote whose `persist_meta()` failed is answered all the same. | `cluster.c:2183` |
| `Consume!ReplicaAlwaysKeepsUnsettled` | `ClientSets <- TwoConsumers`: between the dequeue and the record of a delivery another worker's delivery moves the watermark past the message (`dispatch.c:514`). | `queue.c:133-134` |
| `Forwarding!ConfirmedIsAlwaysCommitted` | `Scenarios <- ThreadScenarios`: a thread draws its sequence number and is overtaken on the way to the inbox; the cumulative acknowledgement of the later number confirms both (`cluster.c:3484`). | `cluster.c:1081` |
| `Forwarding!ConfirmedIsAlwaysCommitted` | The passing scenarios: the leader finds no memory for a forwarded operation and frees it; the cumulative acknowledgement of the next one confirms both (`cluster.c:2344`). | `cluster.c:3107-3110` |
| `Forwarding!NeverDropped` | The passing scenarios: `drain_inbox()` frees a proposal whose `leader_append()` has failed (`cluster.c:3099-3115`). | `cluster.c:3473` |
| `Forwarding!DepthAlwaysCountsInbox` | The passing scenarios: a retransmission is subtracted from `inbox_depth` again (`cluster.c:3065`). | the name |
| `Dispatch!BacklogAlwaysServed` | `Setups <- CancelSetups`: when a worker's last consumer leaves, its unacked messages are requeued without waking another worker (`dispatch.c:234`). | `dispatch.c:676-677` |
| `Server!ConsumersNeverBlocked` | The passing scenarios (`Late`): frames behind the publish that pauses a connection are still dispatched, a Basic.Consume among them; the acks of its deliveries are not read (`protocol.c:2424`). | `src/README.md:574-575` |
| `Server!PausesAlwaysEnd` | The passing scenarios (`Wedged`): congestion pauses a connection that also consumes (`protocol.c:2368`); its acks are not read, the memory alarm rises, and the throttle timer waits for both (`net.c:587`). | `net.c:581-586`, `src/README.md:588-589` |
| `Server!OnlyDeadReaped` | The passing scenarios: a paused connection is not read, so a client that sends heartbeats is taken for dead (`net.c:224`). | `net.h:74-77` |
| `Session!ExceptionsSpareConnection` | The passing scenarios (`Refused`): a publish is refused, the channel is gone at once, and the publish pipelined behind it is a protocol error that ends the connection (`protocol.c:2334`). | `protocol.c:878-880` |
| `Server!ShutdownEnds` | `Scenarios <- StopScenarios`: `mem_timer` is never closed (`net.c:729`). With a memory watermark, which the default configuration sets (`config.c:101`), worker 0's loop does not end after SIGTERM and the supervisor has to kill the process. | `net.h:167-169` |
| `Snapshot!BrokenTransferRestarts` | `Scenarios <- BrokenTransfer`: after SNAP_BEGIN the peer's base is the leader's, so on the next link it passes for up to date and the transfer is not repeated; its messages are missing. | `cluster.c:1704` |
| `Snapshot!DumpIsTheFullState` | `Scenarios <- InHandDump`: the dump holds ready messages; one that a consumer holds is not in it, nor in the tail. | `cluster.c:1539` |
| `Snapshot!ConfigSurvives` | `Scenarios <- Redeclared`: `topo_add()` keeps the first of two equal operations, so the replay of declare, delete, declare ends with the deletion (`cluster.c:530`). | `cluster.c:1412` |
| `Snapshot!ReportedSurvives` | The passing scenarios: a resend truncates and rewrites fsynced entries, `durable_index` is kept, and a power loss takes them (`cluster.c:2248`). | `cluster.c:1490-1494` |
| `Snapshot!FailedSaveRecovers` | The passing scenarios: `SNAP_END` is acknowledged although `snapshot_write()` failed (`cluster.c:2491`); a power loss then takes the installed state. | `cluster.c:2486-2489` |
| `Snapshot!TailRoutesTheSame` | `Scenarios <- DeclaredLate`: a publish that no queue took is in the tail, the declaration behind it in the snapshot; the restarted node delivers it. | `cluster.c:891` |
| `Snapshot!PolicySurvives` | `Scenarios <- BrokenTransfer`: records of the snapshot are applied before its topology and declare the queue without its arguments (`cluster.c:780`). | `cluster.c:1286` |
| `Snapshot!RewindStaysAbove` | `Scenarios <- Diverged`: a rejection rewinds `next_index` to or below the compaction point. | `cluster.c:2243` |
| `Admin!AlwaysAuthorised` | The passing scenarios (`Clustered`): the level is found, the cluster's thread applies an operation that takes it away, and the change is made all the same (`http.c:1131`). | `http.c:621-624` reads the tags after the check for this reason |
| `Admin!BackoffAlwaysHolds` | The passing scenarios: a check reported late, or by the loop whose clock is behind, makes `now - last` wrap around, and the entry is dropped as idle (`authlimit.c:93`). | `authlimit.h:8-9` |
| `Admin!SingleResponse` | The passing scenarios (`Chatty`): a 401 does not set `responded`; further bytes are handled as a request again. | `http.c:6` |
| `Admin!OkIsKept` | The passing scenarios (`Clustered`): a change is answered as soon as it is in the inbox, and the process dies. | `http.c:876` |
| `Admin!CorruptFileIgnored` | The passing scenarios (`Permissions`): the records before the damage stay loaded, and later saves are disabled. | `authstore.c:455` |
| `Admin!StoreFollowsLog` | The passing scenarios (`Clustered`): the management thread serves before `start_cluster()` has set the cluster (`main.c:957`), and a change made then stays on this node. | `http.c:861` |
| `Supervisor!NoRespawnInShutdown` | One crash: a worker is respawned after the shutdown began if its predecessor was reaped before (`supervisor.c:315`). | `supervisor.h:93` |

Disagreements of the same kind that the scoped properties step around, found
while modelling: a message out by Basic.Get with manual ack is not tracked
(`protocol.c:2101`), a failed delivery is not either (`dispatch.c:518`), and a
requeued message redelivered with no_ack stays tracked (`queue.c:508`); a
message returned from Basic.Get wakes nobody (`protocol.c:359`); groups are
found by name, so a consumer of a re-declared queue joins the group of the
deleted one (`dispatch.c:593`); an auto-delete check races with a new consumer
on another worker (`dispatch.c:251`); a candidate whose storage failed can
still win (`cluster.c:1801`); the `durable_index` of a rejecting follower counts
(`cluster.c:2288`); with a limit below four the two congestion marks coincide
(`queue.c:366`); a route that reaches only some of its queues is not reported as
`broker.c:275-277` says (`broker.c:304`); a restarted node draws its sequence
numbers from 1 again while the leader remembers higher ones (`cluster.c:3134`);
an operation that is sent again before it is committed is appended twice
(`cluster.c:2926`);
Basic.Return follows the confirm of the message it returns (`protocol.c:2396`);
the supervisor gives up one restart earlier than
`src/README.md:299-300` says (`supervisor.c:145`). The comments at
`cluster.c:511-523` and `cluster.c:1865` that there is no state transfer are older
than the code around them.

## Fairness

Safety properties are checked without fairness. For liveness:

- `Consume`: weak fairness of the 50 ms consume timer, of applying committed
  entries and of finishing a delivery once begun (straight-line code); none for
  clients, `ReplicasDrain` is about the time after they have settled.
- `Forwarding`: weak fairness of submitting, draining, receiving, replicating,
  committing and dialling; events (losses, elections, restarts) are finite.
- `Broker`: weak fairness of a thread inside a route.
- `Server`: weak fairness of the loops' callbacks, of time, of replication and of
  a living consumer's acks; strong fairness of deliveries and of the memory
  sampler, both repeated in every period but interrupted by other callbacks.
- `Session`: weak fairness of the loop, its timers (the throttle timer among them)
  and the client's reading; none for the cluster, whose silence the 5 s deadline
  has to end. That the pressure ends is not assumed: `ClientIsAnswered` is about
  the behaviours in which it does.
- `Dispatch`: weak fairness of every step a handler or publisher still has to
  take. Strong fairness of `OnAsync`: a signalled `uv_async_t` is handled in every
  loop iteration, but other handlers of the loop keep interrupting its being
  enabled. None for sockets draining or clients acking: `BacklogServed` is about
  consumers that could take a message; that a socket which drains wakes its consumer
  is part of `NoLostWakeup`.
- `Supervisor`: weak fairness of time and of callbacks whose event is pending;
  none for the worker obeying SIGTERM, so the deadline has to do its work.
- `Snapshot`: `LoopsRun` says that as long as a frame is on its way, the link is
  down or a heartbeat is due, one of the loops' callbacks happens; `PeersAnswer`
  that the other peers acknowledge what is proposed. None for consumers, whose
  steps are bounded.
- `Admin`: weak fairness of the connection deadline, of finished writes and
  closed handles, of password checks, all of which libuv completes, and of the rest
  of a callback (`HandleMgmt`). None for
  clients; requests are finite, so the system may stop.

## Proofs

All theorems hold for every value of the constants that satisfies the named
assumptions of the modules; TLC evaluates those assumptions on every run. The
larger inductive invariants were checked with TLC on the instances of the runs
before they were proved.

`RaftProofs` and `RaftSafetyProofs` (any finite `Node` with more than one member,
any bounds, either sync policy):

- `TypeCorrect`: `Spec => []TypeOK`. The invariant is inductive as it stands,
  given that a frame in a channel has a consistent shape.
- `VoteOnce`: `MaxFaults = 0`, no failing writes, implies
  `Spec => VoteOncePerTerm`. The property is about steps: a term
  never goes back and a vote cast in a term never changes, across restarts. The
  strengthening `MetaCurrent` says that what is on disk (`meta`) equals the term
  and vote in memory whenever a handler has returned, so that a crash restores
  exactly them.
- `OneLeaderPerTerm`: `MaxFaults = 0` implies `Spec => []ElectionSafety`, and
  `LogsMatch`: `MaxFaults = 0` implies `Spec => []LogMatching`. Both properties
  are about the past: the cluster's state forgets who voted for whom once the
  voters move on, and what a leader's log was once the leader is gone. Instead of
  history variables in the model, the invariant `SafetyInv` says that there *exist* a
  ballot box `b` (who voted for whom in which term) and a log `l[t]` for every
  term that explain the state (`Explained(b, l)`): the votes in memory and on
  their way are in `b`; a candidate's count is at most the number of its votes;
  whoever is leader, or is believed to be by a follower, has won its term in `b`;
  each log in memory and on disk, and each APPEND on its way, agrees with `l` up
  to every entry it has. Every step gives a new `b` and `l` that extend the old
  ones. Two winners of a term would share a voter (`OneWinner`). The hypothesis
  is needed: with a failing `persist_meta()` and a crash TLC refutes
  `ElectionSafety` (see the table above). `LogMatching` is proved for the fast
  policy as well, with power losses that take unsynced entries.

`ForwardingProofs` (any nodes, inbox limits, scenarios and number of operations),
in the circumstances `Steady`, which the properties themselves state: one leader that
has not failed to append, no restart, one submitting thread per node. Connections
may break at any time.

- `ConfirmedIsAppliedHolds`: `Spec => []ConfirmedIsApplied`,
  `SubmissionOrderHolds`: `Spec => []SubmissionOrder` and
  `CommittedNotReappendedHolds`: `Spec => CommittedNotReappended`, all three from
  `SteadyInvHolds`: `Spec => []SteadyInv`. None of them is inductive. `SteadyInv`
  follows an operation on its way: what a node submitted is in the leader's log, in
  the proposer's hands or in its queues (`Backlog`), which are in the order of
  submission; the frames on the way to the leader leave no gap below them
  (`Wire`), so that whatever is appended next comes after all that was submitted
  before it (`LogOrder`); while a connection is up everything pending is logged
  or in a frame (`OnWire`); an acknowledgement, at either end or on its way,
  covers only logged operations (`Acks`); every entry not yet committed is to be
  acknowledged (`Tracked`), and what is committed was submitted and is known as
  committed (`Settled`), which is what keeps a resent operation out of the log.
  A node reports an operation once it has applied up to the acknowledged *index*,
  and its log is a prefix of the leader's (`Copies`): hence `Reported`.
- Two conjuncts are there in place of an induction over data. `HasCuts` says that
  a queue can be cut at every sequence number, which is what the walk over
  `fwd_pending` needs to keep exactly the rest; `HasTops` says that any stretch of
  `fwd_ack_pending` has a highest entry for each node in it, which
  `resolve_fwd_acks()` picks. Each step that lengthens or shortens the list gives
  the new cut or top from the old one.

`QueueProofs` (any ring size, any messages, limits and body lengths):

- `RingIsFifo`: `Spec => FifoOrder`, which is the refinement of `Fifo`. Each
  operation maps to a step of the abstract queue or to a stutter; the invariant
  says where in the ring the live region is and that it has room for what is
  counted.
- `ByteCounterExact`: `Spec => []BytesExact`. Sums are recursive functions; what they
  do under appending, taking and requeueing is proved by induction, see below.

`ConsumeProofs` (any set of workers, any number of messages and requeues):

- `WatermarkSafe`: `Spec => []ReplicaKeepsUnsettled` and
  `ConsumerLosesNothing`: `Spec => []NothingLost`. Neither is inductive. The
  strengthening `IInv(w)`, for the one worker `w` that delivers, says that each
  message still in the queue is *guarded*: above everything delivered so far, or
  in the unacked set; that the queue is ordered with respect to the not yet
  delivered ids; that the message in hand comes before the rest; that every
  outstanding delivery is tracked; and that every watermark in the log lies
  below every unsettled id. `RecordedInv` states it for as long as the
  circumstances `Recorded` last; no step brings them back once they are gone.

`DispatchProofs` (any workers, finitely many consumers, any publishers, queue
objects and messages):

- `WakeupsKept`: `Spec => []NoLostWakeup`. The strengthening `WakeInv` says, in the
  circumstances `Notifying`, that a worker's group is for the registered queue,
  has exactly the worker's consumers and is among the queue's waiters, except
  while it is being added; that a worker about to delete the queue has left it;
  and that whoever *could take* a ready message has a wakeup coming. `CouldTake`
  is weaker than being eligible: it asks for room in the window and no pause, and
  not for the write buffer to be below its mark. A socket that drains a
  little makes its consumer eligible and wakes nobody, so the wakeup must be
  on its way before.

`SupervisorProofs` (any process ids, timeouts, restart limits):

- `OneBroker`: `Spec => []OneProcess`. The strengthening `SlotInv` adds that the
  only process is the one the slot knows, and that a respawn is pending only
  while the slot is free. Without that `on_worker_handle_closed()` could spawn
  beside a living worker.

`AdminProofs` (any connections, users, keys, scenarios and limits):

- `WorkSafe`: `Spec => []WorkRefersToLive`. The strengthening `WorkInv` adds
  the shape of connections and checks and that a connection with a check is not
  read meanwhile, so that no second check can start for it.
- `BackoffKept`: `Spec => BackoffHolds`. The strengthening `LimitInv` says that the
  limiter's table agrees with the history of each key's failures as long as
  that was in the order of time and not evicted, and that every request and
  check has a key. A check is let through when its delay is over or its entry is
  stale; the second is later because `MaxDelay <= IdleReset` (30 s and 15 min in
  `authlimit.c`), an assumption of `Admin`.
- `AdministratorsOnly`: `Spec => OnlyAdministratorsChange`. The level is found in one
  step and used in a later one. The strengthening `TaskInv` says that as long as
  the cluster's thread has applied nothing since, the store is still one in which
  the task's author may make the change: every other action that changes the store
  belongs to the loop, which is in the middle of this callback, or restarts the
  process, which ends the task. The exception in the property is needed
  (`AlwaysAuthorised` in the table above).
- `ConfigKept`: `Spec => []RestartKeepsConfig` and `BootstrapEnds`:
  `Spec => BootstrapOnce`, from `ConfigInv` and `TaskInv`: while nothing is unsaved the file is
  the store; while no save has failed and no damage was done, nothing is
  unsaved, and once a user was created the store's mark is set.

Induction over data. The library's induction theorems have an operator as a
parameter, which the provers cannot instantiate. `QueueProofs` derives induction
for a *set* of natural numbers from the well-foundedness of `<` (`SetInduction`),
and that is enough for sums of sequences.

Only model-checked:

- liveness (`ReplicasDrain`, `BacklogServed`, `ProposalsCommit`, `RoutesReturn`,
  `PausesEnd`, `DeadAreReaped`, `PlainShutdownEnds`, `ClientIsAnswered`,
  `FrozenIsReaped`, `ShutdownStops`, `CatchesUp`, `ConnectionsEnd`): fairness and
  `ENABLED` are beyond the prover;
- `Raft`: `LeaderCompleteness` and `StateMachineSafety`. They are not theorems of
  this code for every bound: the fast policy acknowledges what a power loss can
  take, and the runs `raft` and `raft_resend_unsynced` separate the bounds
  within which they hold from those in which a committed entry is removed;
- `Forwarding`: nothing is claimed outside the circumstances `Steady`. With two
  submitting threads or a leader without memory `ConfirmedIsAlwaysCommitted` is
  refuted (table above), and a restarted node draws its sequence numbers from 1
  again;
- `Broker`, `Session` and `Snapshot`: `RoutedByMeaning` is about a recursive
  matcher of patterns; the other invariants are about stacks of routes and
  sequences of frames in flight and need strengthenings as large as that of
  `Forwarding`, which have not been written yet.

## Not modelled

Byte-level encoding and parsing (`frame.c`, the codec in `cluster.c`, JSON and
Basic credentials in `http.c`), static files, logging, configuration, password hashing and the web interface have
no state that the other parts depend on. A one-node cluster, which elects itself
within one callback, is left out of `Raft`. In `Snapshot` the leader does not
change, so a transfer interrupted by an election is not covered; exchanges,
bindings and users take the same path as queues and permissions and are left
out, as is running out of memory in a transfer. `Forwarding` leaves out a failing
allocation of a pending acknowledgement (`push_fwd_ack_pending`), and what broken
storage does to a node afterwards, which is in `Raft`. `Consume` leaves out the failing
`realloc` in `queue_consume_on_deliver`. The client of `Session` neither consumes nor
acknowledges. A save of the store in `Admin` is one step, as the file is replaced by a
rename. `Admin` leaves out the matching
of permission patterns (`authstore_check`), which has no state, and what the
management interface lists.

## Plan

1. Exclusive queues, in `Session` or a module of their own: the owner is read and
   set in two steps (`protocol.c:1672`), and a closing connection deletes by name.
2. A change of leader during a state transfer (`Snapshot` with `Raft`).
3. Teardown of a dispatcher (`dispatch.c` 763-838); acks and requeues composed
   with `Session`.
4. An abstract replicated log that `Raft` implements, for bounds within which no
   committed entry is removed.
5. Proofs of `AckedIsDone` (`Session`) and `RecoversSame` (`Snapshot`).
