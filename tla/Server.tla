------------------------------- MODULE Server -------------------------------
(***************************************************************************)
(* The worker servers (src/src/net.c): connections accepted up to a limit, *)
(* read, paused and resumed; the memory alarm and cluster congestion that  *)
(* pause publishers; heartbeats; closing a connection; graceful shutdown.  *)
(*                                                                         *)
(* Every worker runs its callbacks one at a time on its own loop; the      *)
(* connection counter and the memory alarm are shared atomics.  All        *)
(* messages go to one queue with an exact prefetch window, and the memory  *)
(* in use is what the queue and its consumers hold.  Time passes in half   *)
(* heartbeat intervals, and only when the loops have caught up with it.    *)
(***************************************************************************)
EXTENDS Integers, Sequences, FiniteSets, FiniteSetsExt

CONSTANTS
    Conn, Worker,
    MainWorker,       \* worker 0: samples the memory
    MaxConnections,   \* max_connections, 0 = no limit
    Watermark,        \* g_mem_high_bytes where the alarm is installed
    MsgSize,          \* the memory of a message
    Prefetch,         \* unacked messages per consumer
    Scenarios,        \* the circumstances to explore, see Scenario
    MaxFrames,        \* bound: unread frames per connection
    MaxEvents         \* bound: events of a kind

Events == {"publish", "congest", "die", "hangup", "signal"}

\* Which connections are open at the beginning and which still arrive, at which
\* worker, what their clients do, whether publishes are persistent, whether
\* heartbeats are negotiated, whether there is a watermark, and how often
\* things happen.
Scenario == [open : SUBSET Conn, arriving : SUBSET Conn, home : [Conn -> Worker],
             publishers : SUBSET Conn, consumers : SUBSET Conn, late : SUBSET Conn,
             persistent : BOOLEAN, heartbeat : BOOLEAN, alarm : BOOLEAN, may : [Events -> 0..MaxEvents]]

ASSUME ServerAssumption ==
    /\ IsFiniteSet(Conn) /\ IsFiniteSet(Worker) /\ MainWorker \in Worker
    /\ {MaxConnections, MsgSize, MaxEvents} \subseteq Nat
    /\ {Watermark, Prefetch, MaxFrames} \subseteq Nat \ {0}
    /\ Scenarios \subseteq Scenario

VARIABLES
    setup,       \* fixed: one of Scenarios
    happened,    \* how often each event has happened
    phase,       \* none, claiming, open, closing (handles), freed
    claim,       \* the local variable active of on_new_connection
    active,      \* stats->active_conns
    sock,        \* sent by the client and not read
    inbuf,       \* read and not dispatched
    timer,       \* what hb_timer is: handshake, heartbeat, off
    due,         \* its interval has passed and its callback has not run
    age,         \* half intervals since last_recv_ms, at most Reapable
    why,         \* why the connection was closed
    paused,      \* read_paused
    blocked,     \* conn_blocked: the client was told so
    consumer,    \* the dispatcher has a consumer of the connection
    unacked,     \* delivered on the connection and not acknowledged
    dead,        \* the client is gone without a FIN
    toAck,       \* received by the client and not acknowledged by it
    ready,       \* messages in the queue
    alarm,       \* g_mem_alarm
    congested,   \* cluster_should_throttle()
    started,     \* throttle_started
    ticking,     \* the throttle timer runs
    shutting,    \* no, asked (shutdown_async sent), yes (shutting_down)
    handles,     \* the active handles of the loop, connections excepted
    ended        \* uv_run has returned

connVars == <<phase, claim, active, why>>
bufVars == <<sock, inbuf>>
timeVars == <<timer, due, age>>
flowVars == <<paused, blocked, started, ticking>>
queueVars == <<consumer, unacked, ready>>
clientVars == <<dead, toAck>>
loopVars == <<shutting, handles, ended>>
vars == <<setup, happened, connVars, bufVars, timeVars, flowVars, queueVars, clientVars,
          alarm, congested, loopVars>>

Frames == {"tune", "consume", "publish", "ack", "beat", "eof"}

\* now - last_recv_ms > 2 * hb_interval_ms, in half intervals.
Reapable == 5

At(w) == {c \in Conn : setup.home[c] = w}
Open(c) == phase[c] = "open"

\* The worker's loop is between two callbacks.
Idle(w) == ~ended[w] /\ \A c \in At(w) : inbuf[c] = <<>> /\ phase[c] # "claiming"

Spend(e) ==
    /\ happened[e] < setup.may[e]
    /\ happened' = [happened EXCEPT ![e] = @ + 1]

\* process_rss_bytes(), after malloc_trim() has returned what was freed.
Used == MsgSize * (ready + MapThenSumSet(LAMBDA c : unacked[c], Conn))

\* The handles of beaver_server_init() and of the install functions; signals,
\* statistics and the memory sampler are worker 0's.
ServerHandles(w) ==
    {"tcp", "shutdown_async", "dispatcher"} \cup
    (IF w # MainWorker THEN {}
     ELSE {"signals", "stats_timer"} \cup (IF setup.alarm THEN {"mem_timer"} ELSE {}))

Init ==
    /\ setup \in Scenarios
    /\ happened = [e \in Events |-> 0]
    /\ phase = [c \in Conn |-> IF c \in setup.open THEN "open" ELSE "none"]
    /\ claim = [c \in Conn |-> 0]
    /\ active = Cardinality(setup.open)
    /\ sock = [c \in Conn |-> <<>>] /\ inbuf = [c \in Conn |-> <<>>]
    /\ timer = [c \in Conn |-> IF c \notin setup.open THEN "handshake"
                               ELSE IF setup.heartbeat THEN "heartbeat" ELSE "off"]
    /\ due = [c \in Conn |-> FALSE] /\ age = [c \in Conn |-> 0]
    /\ why = [c \in Conn |-> "open"]
    /\ paused = [c \in Conn |-> FALSE] /\ blocked = [c \in Conn |-> FALSE]
    /\ consumer = [c \in Conn |-> c \in setup.open \cap setup.consumers]
    /\ unacked = [c \in Conn |-> 0]
    /\ dead = [c \in Conn |-> FALSE] /\ toAck = [c \in Conn |-> 0]
    /\ ready = 0 /\ alarm = FALSE /\ congested = FALSE
    /\ started = [w \in Worker |-> FALSE] /\ ticking = [w \in Worker |-> FALSE]
    /\ shutting = [w \in Worker |-> "no"]
    /\ handles = [w \in Worker |-> ServerHandles(w)]
    /\ ended = [w \in Worker |-> FALSE]

-----------------------------------------------------------------------------
(* The clients.                                                            *)

ClientSends(c, f) ==
    /\ ~dead[c] /\ Len(sock[c]) < MaxFrames
    /\ sock' = [sock EXCEPT ![c] = Append(@, f)]

\* A new client completes the handshake: TuneOk stands for it.
ClientTunes(c) ==
    /\ Open(c) /\ timer[c] = "handshake"
    /\ "tune" \notin {sock[c][n] : n \in DOMAIN sock[c]} \cup {inbuf[c][n] : n \in DOMAIN inbuf[c]}
    /\ ClientSends(c, "tune")
    /\ UNCHANGED <<setup, happened, connVars, inbuf, timeVars, flowVars, queueVars,
                   clientVars, alarm, congested, loopVars>>

ClientPublishes(c) ==
    /\ Open(c) /\ timer[c] # "handshake" /\ c \in setup.publishers
    /\ Spend("publish") /\ ClientSends(c, "publish")
    /\ UNCHANGED <<setup, connVars, inbuf, timeVars, flowVars, queueVars, clientVars,
                   alarm, congested, loopVars>>

\* A connection that has published begins to consume.
ClientConsumes(c) ==
    /\ Open(c) /\ c \in setup.late /\ ~consumer[c]
    /\ "consume" \notin {sock[c][n] : n \in DOMAIN sock[c]}
    /\ ClientSends(c, "consume")
    /\ UNCHANGED <<setup, happened, connVars, inbuf, timeVars, flowVars, queueVars,
                   clientVars, alarm, congested, loopVars>>

ClientAcks(c) ==
    /\ Open(c) /\ toAck[c] > 0
    /\ ClientSends(c, "ack")
    /\ toAck' = [toAck EXCEPT ![c] = @ - 1]
    /\ UNCHANGED <<setup, happened, connVars, inbuf, timeVars, flowVars, queueVars, dead,
                   alarm, congested, loopVars>>

ClientHangsUp(c) ==
    /\ Open(c) /\ Spend("hangup")
    /\ ~dead[c] /\ dead' = [dead EXCEPT ![c] = TRUE]
    /\ sock' = [sock EXCEPT ![c] = Append(@, "eof")]
    /\ UNCHANGED <<setup, connVars, inbuf, timeVars, flowVars, queueVars, toAck, alarm,
                   congested, loopVars>>

\* Power loss or a cut cable: no FIN reaches the broker.
ClientDies(c) ==
    /\ Open(c) /\ Spend("die")
    /\ ~dead[c] /\ dead' = [dead EXCEPT ![c] = TRUE]
    /\ UNCHANGED <<setup, connVars, bufVars, timeVars, flowVars, queueVars, toAck, alarm,
                   congested, loopVars>>

-----------------------------------------------------------------------------
(* Accepting and closing.                                                  *)

\* on_new_connection(), up to the atomic increment that claims a slot.
ClaimSlot(c) ==
    LET w == setup.home[c]
    IN  /\ c \in setup.arriving /\ phase[c] = "none" /\ Idle(w) /\ shutting[w] # "yes"
        /\ active' = active + 1
        /\ claim' = [claim EXCEPT ![c] = active']
        /\ phase' = [phase EXCEPT ![c] = "claiming"]
        /\ UNCHANGED <<setup, happened, why, bufVars, timeVars, flowVars, queueVars,
                       clientVars, alarm, congested, loopVars>>

\* active > max_connections, of the value the increment returned.
OverLimit(c) == MaxConnections > 0 /\ claim[c] > MaxConnections

\* The atomic decrement of a refused or closed connection.
ReleasedSlot == active - 1

\* on_new_connection(), the rest: refused, or listed and read.
Admit(c) ==
    /\ phase[c] = "claiming"
    /\ IF OverLimit(c)
       THEN /\ active' = ReleasedSlot
            /\ phase' = [phase EXCEPT ![c] = "closing"]
            /\ why' = [why EXCEPT ![c] = "refused"]
       ELSE /\ phase' = [phase EXCEPT ![c] = "open"]
            /\ UNCHANGED <<active, why>>
    /\ UNCHANGED <<setup, happened, claim, bufVars, timeVars, flowVars, queueVars,
                   clientVars, alarm, congested, loopVars>>

\* beaver_conn_close() of the connections in C: their consumers are removed and
\* their unacked messages requeued, the slots released, the handles closed.
ConnClose(C, reason) ==
    LET S == {c \in C : Open(c)}
    IN  /\ phase' = [c \in Conn |-> IF c \in S THEN "closing" ELSE phase[c]]
        /\ why' = [c \in Conn |-> IF c \in S THEN reason ELSE why[c]]
        /\ active' = active - Cardinality(S)
        /\ consumer' = [c \in Conn |-> consumer[c] /\ c \notin S]
        /\ unacked' = [c \in Conn |-> IF c \in S THEN 0 ELSE unacked[c]]
        /\ ready' = ready + MapThenSumSet(LAMBDA c : unacked[c], S)
        /\ due' = [c \in Conn |-> due[c] /\ c \notin S]

\* on_conn_handle_closed() of the last handle: the connection is freed.
HandlesClosed(c) ==
    /\ phase[c] = "closing" /\ Idle(setup.home[c])
    /\ phase' = [phase EXCEPT ![c] = "freed"]
    /\ UNCHANGED <<setup, happened, claim, active, why, bufVars, timeVars, flowVars,
                   queueVars, clientVars, alarm, congested, loopVars>>

-----------------------------------------------------------------------------
(* Reading.                                                                *)

\* conn->last_recv_ms = uv_now() in on_read().
LastRecv(c) == [age EXCEPT ![c] = 0]

\* on_read(): what the socket holds, or the beginning of it.
OnRead(c) ==
    /\ Open(c) /\ ~paused[c] /\ Idle(setup.home[c])
    /\ \E n \in 1..Len(sock[c]) :
        /\ "eof" \notin {sock[c][k] : k \in 1..n}
        /\ inbuf' = [inbuf EXCEPT ![c] = SubSeq(sock[c], 1, n)]
        /\ sock' = [sock EXCEPT ![c] = SubSeq(@, n + 1, Len(@))]
    /\ age' = LastRecv(c)
    /\ UNCHANGED <<setup, happened, connVars, timer, due, flowVars, queueVars, clientVars,
                   alarm, congested, loopVars>>

\* on_read() with nread < 0.
OnEof(c) ==
    /\ Open(c) /\ ~paused[c] /\ Idle(setup.home[c])
    /\ sock[c] # <<>> /\ Head(sock[c]) = "eof"
    /\ ConnClose({c}, "peer")
    /\ UNCHANGED <<setup, happened, claim, bufVars, timer, age, flowVars, clientVars,
                   alarm, congested, loopVars>>

\* Mutant of MemoryBlocks: consumers are blocked like everyone.
MemoryBlocksAll(c) == alarm

\* finalize_publish(): a publisher without consumers, while the alarm is on.
MemoryBlocks(c) == alarm /\ ~consumer[c]

\* finalize_publish(): the cluster is behind with replicating.
ClusterBlocks(c) == setup.persistent /\ congested

\* beaver_conn_throttle_read().
ThrottleRead(c) ==
    LET w == setup.home[c]
    IN  IF paused[c] THEN UNCHANGED <<paused, started, ticking>>
        ELSE /\ paused' = [paused EXCEPT ![c] = TRUE]
             /\ started' = [started EXCEPT ![w] = TRUE]
             /\ ticking' = [ticking EXCEPT ![w] = @ \/ ~started[w]]

\* finalize_publish(): the message is queued, and the publisher slowed down.
Publish(c) ==
    /\ ready' = ready + 1
    /\ blocked' = [blocked EXCEPT ![c] = @ \/ MemoryBlocks(c)]
    /\ IF MemoryBlocks(c) \/ ClusterBlocks(c)
       THEN ThrottleRead(c)
       ELSE UNCHANGED <<paused, started, ticking>>
    /\ UNCHANGED <<timer, age, consumer, unacked>>

\* TuneOk: the handshake deadline gives way to the negotiated heartbeat.
TuneOk(c) ==
    /\ timer' = [timer EXCEPT ![c] = IF setup.heartbeat THEN "heartbeat" ELSE "off"]
    /\ age' = [age EXCEPT ![c] = 0]
    /\ UNCHANGED <<flowVars, queueVars>>

\* protocol_on_data(): every frame that was read is dispatched, also after one
\* of them has paused the connection.
DispatchFrame(c) ==
    /\ inbuf[c] # <<>>
    /\ inbuf' = [inbuf EXCEPT ![c] = Tail(@)]
    /\ LET f == Head(inbuf[c])
       IN  \/ f = "publish" /\ Publish(c)
           \/ f = "tune" /\ TuneOk(c)
           \/ /\ f = "consume"
              /\ consumer' = [consumer EXCEPT ![c] = TRUE]
              /\ UNCHANGED <<flowVars, timer, age, unacked, ready>>
           \/ /\ f = "ack"
              /\ unacked' = [unacked EXCEPT ![c] = @ - 1]
              /\ UNCHANGED <<flowVars, timer, age, consumer, ready>>
           \/ f = "beat" /\ UNCHANGED <<flowVars, timer, age, queueVars>>
    /\ UNCHANGED <<setup, happened, connVars, sock, due, clientVars, alarm, congested,
                   loopVars>>

\* The prefetch window of the connection's consumer is not full.
HasCredit(c) == unacked[c] < Prefetch

\* The dispatcher pushes a message within the prefetch window.
Deliver(c) ==
    /\ Open(c) /\ consumer[c] /\ Idle(setup.home[c])
    /\ ready > 0 /\ HasCredit(c)
    /\ ready' = ready - 1
    /\ unacked' = [unacked EXCEPT ![c] = @ + 1]
    /\ toAck' = IF dead[c] THEN toAck ELSE [toAck EXCEPT ![c] = @ + 1]
    /\ UNCHANGED <<setup, happened, connVars, bufVars, timeVars, flowVars, consumer, dead,
                   alarm, congested, loopVars>>

-----------------------------------------------------------------------------
(* Memory alarm, congestion and the throttle timer.                        *)

\* queue_memory_alarm_update(): on at the watermark, off at 90% of it.
MemoryAlarm(used) ==
    IF alarm THEN used > Watermark - Watermark \div 10 ELSE used >= Watermark

\* on_memory_timer(), on worker 0.
OnMemoryTimer ==
    /\ Idle(MainWorker) /\ "mem_timer" \in handles[MainWorker]
    /\ shutting[MainWorker] # "yes"
    /\ alarm' = MemoryAlarm(Used) /\ alarm' # alarm
    /\ UNCHANGED <<setup, happened, connVars, bufVars, timeVars, flowVars, queueVars,
                   clientVars, congested, loopVars>>

\* The replication backlog grows over its limit, and is worked off.
ClusterBehind ==
    /\ ~congested /\ Spend("congest")
    /\ congested' = TRUE
    /\ UNCHANGED <<setup, connVars, bufVars, timeVars, flowVars, queueVars, clientVars,
                   alarm, loopVars>>
ClusterCatchesUp ==
    /\ congested /\ congested' = FALSE
    /\ UNCHANGED <<setup, happened, connVars, bufVars, timeVars, flowVars, queueVars,
                   clientVars, alarm, loopVars>>

\* on_throttle_timer(): the worker's connections are read again.
OnThrottleTimer(w) ==
    /\ Idle(w) /\ ticking[w]
    /\ ~(alarm \/ congested)
    /\ paused' = [c \in Conn |-> paused[c] /\ ~(c \in At(w) /\ Open(c))]
    /\ blocked' = [c \in Conn |-> blocked[c] /\ ~(c \in At(w) /\ Open(c))]
    /\ started' = [started EXCEPT ![w] = FALSE]
    /\ ticking' = [ticking EXCEPT ![w] = FALSE]
    /\ UNCHANGED <<setup, happened, connVars, bufVars, timeVars, queueVars, clientVars,
                   alarm, congested, loopVars>>

-----------------------------------------------------------------------------
(* Heartbeats.                                                             *)

Living == {c \in Conn : Open(c) /\ ~dead[c]}

\* Half an interval: every living client has sent a heartbeat since, and the
\* loops have read all they wanted to read and run the timers of the last one.
Tick ==
    /\ setup.heartbeat
    /\ \A w \in Worker : Idle(w)
    /\ \A c \in Conn : Open(c) => ~due[c] /\ (paused[c] \/ sock[c] = <<>>)
    /\ sock' = [c \in Conn |->
                   IF c \in Living /\ (sock[c] = <<>> \/ sock[c][Len(sock[c])] # "beat")
                   THEN Append(sock[c], "beat") ELSE sock[c]]
    /\ age' = [c \in Conn |-> IF Open(c) /\ age[c] < Reapable THEN age[c] + 1 ELSE age[c]]
    /\ due' = [c \in Conn |-> Open(c) /\ timer[c] = "heartbeat"]
    /\ UNCHANGED <<setup, happened, connVars, inbuf, timer, flowVars, queueVars,
                   clientVars, alarm, congested, loopVars>>

\* Mutant of Silent: a connection with deliveries on their way is not silent.
SilentUnlessServed(c) == age[c] >= Reapable /\ unacked[c] = 0

\* No traffic for 2 heartbeat intervals.
Silent(c) == age[c] >= Reapable

\* on_heartbeat_timer(): closes a silent connection, or sends a heartbeat.
OnHeartbeatTimer(c) ==
    /\ Open(c) /\ due[c] /\ Idle(setup.home[c])
    /\ IF Silent(c)
       THEN ConnClose({c}, "silent")
       ELSE /\ due' = [due EXCEPT ![c] = FALSE]
            /\ UNCHANGED <<phase, active, why, queueVars>>
    /\ UNCHANGED <<setup, happened, claim, bufVars, timer, age, flowVars, clientVars,
                   alarm, congested, loopVars>>

\* on_handshake_timeout().
OnHandshakeTimeout(c) ==
    /\ Open(c) /\ timer[c] = "handshake" /\ Idle(setup.home[c])
    /\ ConnClose({c}, "handshake")
    /\ UNCHANGED <<setup, happened, claim, bufVars, timer, age, flowVars, clientVars,
                   alarm, congested, loopVars>>

-----------------------------------------------------------------------------
(* Shutdown.                                                               *)

\* SIGTERM: app_shutdown_all() asks every worker.
OnSignal ==
    /\ Spend("signal") /\ Idle(MainWorker)
    /\ shutting' = [w \in Worker |-> IF shutting[w] = "no" THEN "asked" ELSE shutting[w]]
    /\ UNCHANGED <<setup, connVars, bufVars, timeVars, flowVars, queueVars, clientVars,
                   alarm, congested, handles, ended>>

\* Mutant of ClosedHandles: the dispatcher's handles stay open.
ClosedHandlesFew(w) == {"tcp", "shutdown_async", "signals", "stats_timer"}

\* What beaver_server_shutdown() closes besides the connections.
ClosedHandles(w) == {"tcp", "shutdown_async", "signals", "stats_timer", "dispatcher"}

\* on_shutdown_async(), beaver_server_shutdown().
Shutdown(w) ==
    /\ shutting[w] = "asked" /\ Idle(w)
    /\ shutting' = [shutting EXCEPT ![w] = "yes"]
    /\ ConnClose(At(w), "shutdown")
    /\ handles' = [handles EXCEPT ![w] = @ \ ClosedHandles(w)]
    /\ ticking' = [ticking EXCEPT ![w] = FALSE]
    /\ UNCHANGED <<setup, happened, claim, bufVars, timer, age, paused, blocked, started,
                   clientVars, alarm, congested, ended>>

\* uv_run() returns when no handle is active.
LoopEnds(w) ==
    /\ Idle(w) /\ handles[w] = {} /\ ~ticking[w]
    /\ \A c \in At(w) : phase[c] \in {"none", "freed"}
    /\ ended' = [ended EXCEPT ![w] = TRUE]
    /\ UNCHANGED <<setup, happened, connVars, bufVars, timeVars, flowVars, queueVars,
                   clientVars, alarm, congested, shutting, handles>>

-----------------------------------------------------------------------------
Next ==
    \/ \E c \in Conn :
        \/ ClientTunes(c) \/ ClientPublishes(c) \/ ClientConsumes(c) \/ ClientAcks(c)
        \/ ClientHangsUp(c) \/ ClientDies(c)
        \/ ClaimSlot(c) \/ Admit(c) \/ HandlesClosed(c)
        \/ OnRead(c) \/ OnEof(c) \/ DispatchFrame(c) \/ Deliver(c)
        \/ OnHeartbeatTimer(c) \/ OnHandshakeTimeout(c)
    \/ \E w \in Worker : OnThrottleTimer(w) \/ Shutdown(w) \/ LoopEnds(w)
    \/ OnMemoryTimer \/ ClusterBehind \/ ClusterCatchesUp \/ Tick \/ OnSignal

Spec == Init /\ [][Next]_vars

\* The loops run their callbacks; a living consumer acknowledges what it gets;
\* replication catches up; time passes.
Fairness ==
    /\ \A c \in Conn :
        /\ WF_vars(Admit(c) \/ OnRead(c) \/ OnEof(c) \/ DispatchFrame(c) \/ HandlesClosed(c))
        /\ WF_vars(OnHeartbeatTimer(c) \/ OnHandshakeTimeout(c))
        /\ SF_vars(Deliver(c)) /\ WF_vars(ClientAcks(c))
    /\ \A w \in Worker : WF_vars(OnThrottleTimer(w) \/ Shutdown(w) \/ LoopEnds(w))
    /\ SF_vars(OnMemoryTimer) /\ WF_vars(ClusterCatchesUp) /\ WF_vars(Tick)

FairSpec == Spec /\ Fairness

-----------------------------------------------------------------------------
\* Every variable is in its range; acknowledgements match deliveries, and no
\* connection holds more than the prefetch window.
TypeOK ==
    /\ setup \in Scenarios /\ happened \in [Events -> 0..MaxEvents]
    /\ phase \in [Conn -> {"none", "claiming", "open", "closing", "freed"}]
    /\ active \in 0..Cardinality(Conn) /\ claim \in [Conn -> 0..Cardinality(Conn)]
    /\ \A c \in Conn : /\ \A n \in DOMAIN sock[c] : sock[c][n] \in Frames
                       /\ \A n \in DOMAIN inbuf[c] : inbuf[c][n] \in Frames \ {"eof"}
    /\ timer \in [Conn -> {"handshake", "heartbeat", "off"}]
    /\ age \in [Conn -> 0..Reapable] /\ {due, paused, blocked} \subseteq [Conn -> BOOLEAN]
    /\ why \in [Conn -> {"open", "refused", "peer", "silent", "handshake", "shutdown"}]
    /\ {consumer, dead} \subseteq [Conn -> BOOLEAN]
    /\ {unacked, toAck} \subseteq [Conn -> 0..Prefetch]
    /\ ready \in 0..MaxEvents /\ {alarm, congested} \subseteq BOOLEAN
    /\ {started, ticking, ended} \subseteq [Worker -> BOOLEAN]
    /\ shutting \in [Worker -> {"no", "asked", "yes"}]
    /\ \A w \in Worker : handles[w] \subseteq ServerHandles(w)

\* What the documentation says of the memory alarm: a connection that consumes
\* is never blocked by it.
ConsumersNeverBlocked ==
    \A c \in Conn : Open(c) /\ blocked[c] => ~consumer[c]

\* What the header says of the heartbeat: only a peer that has sent nothing is
\* closed for silence.
OnlyDeadReaped ==
    [][\A c \in Conn : Open(c) /\ why'[c] = "silent" => dead[c]]_vars

Held(c) == Open(c) /\ (paused[c] \/ blocked[c])

\* What the documentation says of both kinds of pause: neither has to be cleared
\* by the paused client itself.
PausesAlwaysEnd ==
    \A c \in Conn : Held(c) ~> ~Held(c)

\* No paused connection carries the acknowledgements that would clear the alarm:
\* nobody begins to consume behind its own publishes, and where there is a
\* watermark no connection with persistent publishes consumes as well.
AcksAreRead ==
    /\ setup.late = {}
    /\ setup.alarm /\ setup.persistent => setup.publishers \cap setup.consumers = {}

\* Every pause ends where a consumer's acknowledgements are read: the memory alarm
\* and the congestion clear without anything from the paused publisher, which is
\* then read and told so (finalize_publish, on_throttle_timer).  No heartbeat
\* comes to its help by closing the connection.
PausesEnd ==
    \A c \in Conn : (Held(c) /\ AcksAreRead /\ ~setup.heartbeat) ~> ~Held(c)

\* A client that has disappeared, before or after the handshake, does not hold
\* its connection and its messages for ever, paused or not.
DeadAreReaped ==
    \A c \in Conn : (dead[c] /\ timer[c] # "off") ~> ~Open(c)

\* After SIGTERM every worker's loop ends, whatever its connections are doing,
\* where no memory watermark is configured (beaver_server_shutdown).
PlainShutdownEnds ==
    \A w \in Worker : (shutting[w] # "no" /\ ~setup.alarm) ~> ended[w]

\* What the header says of shutdown: after it every worker's loop ends.
ShutdownEnds ==
    \A w \in Worker : (shutting[w] # "no") ~> ended[w]

=============================================================================
