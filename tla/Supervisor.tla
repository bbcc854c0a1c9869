----------------------------- MODULE Supervisor -----------------------------
(***************************************************************************)
(* The supervisor process (src/src/supervisor.c): one libuv loop that      *)
(* spawns the broker as a worker process, watches its heartbeat, reaps and *)
(* respawns it, and passes a shutdown on.  Callbacks run one at a time, in *)
(* any order the pending events allow.                                     *)
(*                                                                         *)
(* Time is kept as ages and countdowns, in ticks, so that it can pass for  *)
(* ever: an age stops at the bound past which the code cannot tell it      *)
(* apart, a countdown stops at 0, when its timer is due.                   *)
(***************************************************************************)
EXTENDS Integers, Sequences, FiniteSets

CONSTANTS
    Pid, NoPid,
    MaxRestarts,       \* cfg.max_restarts
    Samples,           \* SUPERVISOR_MAX_RESTART_SAMPLES
    Window,            \* cfg.restart_window_ms
    HeartbeatTimeout,  \* cfg.heartbeat_timeout_ms
    ShutdownTimeout,   \* cfg.shutdown_timeout_ms
    MaxCrashes,        \* bound: exits nobody asked for
    MaxFreezes,        \* bound: workers whose loop hangs
    MaxSpawnFailures   \* bound: failing pipe2() or fork()

ASSUME SupervisorAssumption ==
    /\ NoPid \notin Pid
    /\ {MaxRestarts, Samples, Window, HeartbeatTimeout, ShutdownTimeout} \subseteq Nat \ {0}
    /\ {MaxCrashes, MaxFreezes, MaxSpawnFailures} \subseteq Nat
    /\ MaxRestarts <= Samples

OffTimer == -1

VARIABLES
    child,        \* per pid: "none", "up", "frozen" or "zombie"
    beat,         \* a heartbeat byte is in the pipe
    termSent,     \* the worker was sent SIGTERM
    signals,      \* signals the loop has not seen: "CHLD", "TERM"
    pid, state, pendingRespawn, closing, gaveUp,  \* supervised_worker_t
    sinceBeat,    \* age of last_heartbeat_ms
    armed,        \* heartbeat_timer_armed
    beatTimer,    \* countdown of heartbeat_timeout_timer, or OffTimer
    restarts,     \* ages of restart_times_ms, youngest first
    shuttingDown, deadline, stopped, exitCode,    \* supervisor_t
    crashes, freezes, spawnFailures

workerVars == <<pid, state, pendingRespawn, closing, gaveUp>>
beatVars == <<beat, sinceBeat, armed, beatTimer>>
supVars == <<shuttingDown, deadline, stopped, exitCode>>
bounds == <<crashes, freezes, spawnFailures>>
vars == <<child, termSent, signals, workerVars, beatVars, restarts, supVars,
          bounds>>

Older(age, limit) == IF age > limit THEN age ELSE age + 1
Countdown(t) == IF t > 0 THEN t - 1 ELSE t
Recent(ages) == Cardinality({k \in DOMAIN ages : ages[k] <= Window})

\* record_restart(): the newest entry overwrites the oldest of the ring.
RecordRestart(ages) == SubSeq(<<0>> \o ages, 1, IF Len(ages) < Samples THEN Len(ages) + 1
                                                ELSE Samples)

\* restart_rate_exceeded().
RestartRateExceeded(ages) == Recent(ages) >= MaxRestarts

\* spawn_worker() in the parent.
Spawn(p) ==
    /\ child[p] = "none"
    /\ child' = [child EXCEPT ![p] = "up"]
    /\ pid' = p /\ state' = "starting" /\ pendingRespawn' = FALSE
    /\ beat' = FALSE /\ sinceBeat' = 0 /\ armed' = FALSE /\ beatTimer' = OffTimer
    /\ termSent' = FALSE

\* check_all_workers_settled() for the one worker, given its new pid and
\* number of closing handles.
Settled(p, open) == p = NoPid /\ open = 0

\* check_all_workers_settled(): stop the loop once there is nothing left.
CheckSettled(p, open, quit, up) ==
    IF Settled(p, open) /\ (quit \/ up)
    THEN /\ stopped' = TRUE /\ deadline' = OffTimer
         /\ exitCode' = IF quit THEN exitCode ELSE 1
    ELSE UNCHANGED <<stopped, deadline, exitCode>>

-----------------------------------------------------------------------------
\* supervisor_main(): the first worker is spawned before the loop runs.
Init ==
    /\ \E p \in Pid :
        /\ child = [q \in Pid |-> IF q = p THEN "up" ELSE "none"]
        /\ pid = p
    /\ beat = FALSE /\ termSent = FALSE /\ signals = {}
    /\ state = "starting" /\ pendingRespawn = FALSE /\ closing = 0 /\ gaveUp = FALSE
    /\ sinceBeat = 0 /\ armed = FALSE /\ beatTimer = OffTimer
    /\ restarts = <<>>
    /\ shuttingDown = FALSE /\ deadline = OffTimer /\ stopped = FALSE /\ exitCode = 0
    /\ crashes = 0 /\ freezes = 0 /\ spawnFailures = 0

(* The worker process and the operator.                                    *)

\* on_heartbeat_tick() in the worker writes a byte.
Beat ==
    /\ pid # NoPid /\ child[pid] = "up"
    /\ beat' = TRUE
    /\ UNCHANGED <<child, termSent, signals, workerVars, sinceBeat, armed, beatTimer, restarts,
                   supVars, bounds>>

\* The worker's loops hang.
Freeze ==
    /\ freezes < MaxFreezes
    /\ pid # NoPid /\ child[pid] = "up"
    /\ freezes' = freezes + 1
    /\ child' = [child EXCEPT ![pid] = "frozen"]
    /\ UNCHANGED <<termSent, signals, workerVars, beatVars, restarts, supVars,
                   crashes, spawnFailures>>

\* The worker ends: by itself, or because it was told to.
Die(p) ==
    /\ child' = [child EXCEPT ![p] = "zombie"]
    /\ signals' = signals \cup {"CHLD"}
Crash ==
    /\ crashes < MaxCrashes
    /\ pid # NoPid /\ child[pid] \in {"up", "frozen"}
    /\ crashes' = crashes + 1
    /\ Die(pid)
    /\ UNCHANGED <<termSent, workerVars, beatVars, restarts, supVars, freezes,
                   spawnFailures>>
ObeyTerm ==
    /\ termSent /\ pid # NoPid /\ child[pid] = "up"
    /\ Die(pid)
    /\ UNCHANGED <<termSent, workerVars, beatVars, restarts, supVars, bounds>>

\* The operator sends SIGTERM or SIGINT to the supervisor.
Terminate ==
    /\ ~stopped
    /\ signals' = signals \cup {"TERM"}
    /\ UNCHANGED <<child, termSent, workerVars, beatVars, restarts, supVars,
                   bounds>>

\* A tick of the clock.
Tick ==
    /\ ~stopped
    /\ sinceBeat' = Older(sinceBeat, HeartbeatTimeout)
    /\ beatTimer' = Countdown(beatTimer)
    /\ deadline' = Countdown(deadline)
    /\ restarts' = [k \in DOMAIN restarts |-> Older(restarts[k], Window)]
    /\ UNCHANGED <<child, termSent, signals, workerVars, beat, armed, shuttingDown, stopped,
                   exitCode, bounds>>

(* The supervisor's callbacks.                                             *)

\* Mutant of OnHeartbeatReadable: the watchdog is never armed.
ReadWithoutArming ==
    /\ ~stopped /\ beat /\ closing = 0 /\ pid # NoPid
    /\ beat' = FALSE /\ sinceBeat' = 0 /\ armed' = TRUE
    /\ state' = IF state = "starting" THEN "running" ELSE state
    /\ UNCHANGED <<child, termSent, signals, pid, pendingRespawn, closing, gaveUp, restarts,
                   beatTimer, supVars, bounds>>

\* on_heartbeat_readable(): the first byte arms the watchdog.
OnHeartbeatReadable ==
    /\ ~stopped /\ beat /\ closing = 0 /\ pid # NoPid
    /\ beat' = FALSE /\ sinceBeat' = 0 /\ armed' = TRUE
    /\ state' = IF state = "starting" THEN "running" ELSE state
    /\ beatTimer' = IF armed THEN beatTimer ELSE HeartbeatTimeout
    /\ UNCHANGED <<child, termSent, signals, pid, pendingRespawn, closing, gaveUp, restarts,
                   supVars, bounds>>

\* kill(pid, SIGKILL): a zombie stays one.
Kill(p) ==
    IF child[p] \in {"up", "frozen"} THEN Die(p) ELSE UNCHANGED <<child, signals>>

\* Mutant of OnHeartbeatTimeout: the slot is freed for a respawn at once,
\* before the killed process is reaped.
TimeoutFreesSlot ==
    /\ ~stopped /\ beatTimer = 0
    /\ sinceBeat > HeartbeatTimeout
    /\ beatTimer' = OffTimer
    /\ pid' = NoPid /\ state' = "dead" /\ pendingRespawn' = TRUE /\ closing' = 2
    /\ UNCHANGED <<child, signals, termSent, gaveUp, beat, sinceBeat, armed, restarts,
                   supVars, bounds>>

\* on_heartbeat_timeout(): within budget the timer repeats, else SIGKILL.
OnHeartbeatTimeout ==
    /\ ~stopped /\ beatTimer = 0
    /\ IF sinceBeat <= HeartbeatTimeout
       THEN /\ beatTimer' = HeartbeatTimeout
            /\ UNCHANGED <<child, signals>>
       ELSE /\ beatTimer' = OffTimer
            /\ IF pid = NoPid THEN UNCHANGED <<child, signals>> ELSE Kill(pid)
    /\ UNCHANGED <<termSent, workerVars, beat, sinceBeat, armed, restarts, supVars,
                   bounds>>

\* on_sigchld(): reap the worker, decide about its respawn, and begin the
\* teardown of its handles (begin_worker_teardown()).
OnSigchld ==
    /\ ~stopped /\ "CHLD" \in signals
    /\ signals' = signals \ {"CHLD"}
    /\ IF pid # NoPid /\ child[pid] = "zombie"
       THEN LET ages == IF shuttingDown THEN restarts ELSE RecordRestart(restarts)
                giveUp == ~shuttingDown /\ RestartRateExceeded(ages)
            IN
            /\ child' = [child EXCEPT ![pid] = "none"]
            /\ pid' = NoPid /\ state' = "dead" /\ closing' = 2
            /\ restarts' = ages
            /\ gaveUp' = (gaveUp \/ giveUp)
            /\ pendingRespawn' = (~shuttingDown /\ ~giveUp)
            /\ beatTimer' = OffTimer
       ELSE UNCHANGED <<child, workerVars, restarts, beatTimer>>
    /\ UNCHANGED <<termSent, beat, sinceBeat, armed, supVars, bounds>>

\* on_worker_handle_closed() for the second handle: respawn if that was
\* decided when the worker was reaped.
OnHandlesClosed ==
    /\ ~stopped /\ closing = 2
    /\ closing' = 0
    /\ \/ /\ pendingRespawn
          /\ \E p \in Pid : Spawn(p) /\ CheckSettled(p, 0, shuttingDown, gaveUp)
          /\ UNCHANGED <<gaveUp, spawnFailures>>
       \/ /\ pendingRespawn /\ spawnFailures < MaxSpawnFailures
          /\ spawnFailures' = spawnFailures + 1
          /\ pendingRespawn' = FALSE /\ gaveUp' = TRUE /\ beat' = FALSE
          /\ CheckSettled(pid, 0, shuttingDown, TRUE)
          /\ UNCHANGED <<child, pid, state, sinceBeat, armed, beatTimer, termSent>>
       \/ /\ ~pendingRespawn
          /\ beat' = FALSE
          /\ CheckSettled(pid, 0, shuttingDown, gaveUp)
          /\ UNCHANGED <<child, pid, state, pendingRespawn, gaveUp, sinceBeat, armed,
                         beatTimer, termSent, spawnFailures>>
    /\ UNCHANGED <<signals, restarts, shuttingDown, crashes, freezes>>

\* Mutant of OnShutdownSignal: the deadline is not started.
ShutdownWithoutDeadline ==
    /\ ~stopped /\ "TERM" \in signals
    /\ signals' = signals \ {"TERM"}
    /\ shuttingDown' = TRUE
    /\ termSent' = (termSent \/ pid # NoPid)
    /\ state' = IF pid # NoPid THEN "stopping" ELSE state
    /\ UNCHANGED <<child, pid, pendingRespawn, closing, gaveUp, beatVars, restarts, deadline, stopped, exitCode,
                   bounds>>

\* on_shutdown_signal(): pass SIGTERM on and start the deadline; a repeated
\* signal is ignored.
OnShutdownSignal ==
    /\ ~stopped /\ "TERM" \in signals
    /\ signals' = signals \ {"TERM"}
    /\ shuttingDown' = TRUE
    /\ IF shuttingDown
       THEN UNCHANGED <<termSent, state, deadline, stopped, exitCode>>
       ELSE IF pid # NoPid
       THEN /\ termSent' = TRUE /\ state' = "stopping" /\ deadline' = ShutdownTimeout
            /\ UNCHANGED <<stopped, exitCode>>
       ELSE /\ CheckSettled(NoPid, closing, TRUE, gaveUp)
            /\ UNCHANGED <<termSent, state>>
    /\ UNCHANGED <<child, pid, pendingRespawn, closing, gaveUp, beatVars, restarts,
                   bounds>>

\* on_shutdown_deadline(): SIGKILL; the reaping ends the shutdown.
OnShutdownDeadline ==
    /\ ~stopped /\ deadline = 0
    /\ deadline' = OffTimer
    /\ IF pid # NoPid THEN Kill(pid) /\ exitCode' = 1
       ELSE UNCHANGED <<child, signals, exitCode>>
    /\ UNCHANGED <<termSent, workerVars, beatVars, restarts, shuttingDown, stopped,
                   bounds>>

Next ==
    \/ Beat \/ Freeze \/ Crash \/ ObeyTerm \/ Terminate \/ Tick
    \/ OnHeartbeatReadable \/ OnHeartbeatTimeout \/ OnSigchld \/ OnHandlesClosed
    \/ OnShutdownSignal \/ OnShutdownDeadline

Spec == Init /\ [][Next]_vars

\* Time passes and the loop runs the callbacks of whatever has happened.
FairSpec ==
    /\ Spec
    /\ WF_vars(Tick) /\ WF_vars(OnHeartbeatReadable) /\ WF_vars(OnHeartbeatTimeout)
    /\ WF_vars(OnSigchld) /\ WF_vars(OnHandlesClosed)
    /\ WF_vars(OnShutdownSignal) /\ WF_vars(OnShutdownDeadline)

-----------------------------------------------------------------------------
(* Properties.                                                             *)

\* Every variable has the shape supervisor.c gives it.
TypeOK ==
    /\ child \in [Pid -> {"none", "up", "frozen", "zombie"}]
    /\ pid \in Pid \cup {NoPid}
    /\ state \in {"starting", "running", "stopping", "dead"}
    /\ signals \subseteq {"CHLD", "TERM"}
    /\ {beat, termSent, pendingRespawn, gaveUp, armed, shuttingDown, stopped} \subseteq BOOLEAN
    /\ closing \in {0, 2} /\ exitCode \in {0, 1}
    /\ sinceBeat \in 0..(HeartbeatTimeout + 1)
    /\ beatTimer \in OffTimer..HeartbeatTimeout
    /\ deadline \in OffTimer..ShutdownTimeout
    /\ restarts \in Seq(0..(Window + 1)) /\ Len(restarts) <= Samples
    /\ crashes \in 0..MaxCrashes /\ freezes \in 0..MaxFreezes
    /\ spawnFailures \in 0..MaxSpawnFailures

\* At most one broker process exists at a time: two would share the write-ahead
\* log, the data directory and the ports (spawn_worker() after the reaping).
OneProcess == Cardinality({p \in Pid : child[p] # "none"}) <= 1

\* A shutdown that was passed on to the worker comes to an end, whatever the
\* worker does with SIGTERM (on_shutdown_signal(), on_shutdown_deadline()).
ShutdownStops == (state = "stopping") ~> stopped

\* A worker whose loop froze after its first heartbeat is killed and reaped
\* (on_heartbeat_timeout()).
FrozenIsReaped ==
    \A p \in Pid : (child[p] = "frozen" /\ pid = p /\ armed /\ ~stopped) ~> (child[p] # "frozen")

\* No worker is spawned once the supervisor is shutting down.
NoRespawnInShutdown == [][shuttingDown => pid' = pid \/ pid' = NoPid]_vars

=============================================================================
