-------------------------------- MODULE Admin --------------------------------
(***************************************************************************)
(* Who may log in and who may change that: the store of users, virtual     *)
(* hosts and permissions with its file (src/src/authstore.c), the limiter  *)
(* of password checks (src/src/authlimit.c), and the management interface  *)
(* through which the store is changed (src/src/http.c, started and, while  *)
(* there are no users, opened with a token by src/src/main.c).             *)
(*                                                                         *)
(* A password is hashed on a thread of its own while the loop goes on, so  *)
(* the connection, the user or the process may be gone when it is done.    *)
(* AMQP logins (src/src/protocol.c) share the limiter; what becomes of     *)
(* their connections is in Session.  A node of a cluster changes the store *)
(* through the replicated log, which is reduced here to an inbox and the   *)
(* committed operations.  Times count in units of AUTHLIMIT_BASE_MS.       *)
(***************************************************************************)
EXTENDS Integers, Sequences, FiniteSets, FiniteSetsExt

CONSTANTS
    Conn,             \* connections of the management interface
    Key,              \* client addresses, the keys of the limiter
    User,
    Scenarios,        \* what to explore
    None,
    FreeAttempts,     \* AUTHLIMIT_FREE_ATTEMPTS
    BaseDelay,        \* AUTHLIMIT_BASE_MS
    MaxDelay,         \* AUTHLIMIT_MAX_MS
    IdleReset,        \* AUTHLIMIT_IDLE_RESET_MS
    TableSize,        \* AUTHLIMIT_TABLE
    HashConcurrency,  \* AUTHLIMIT_HASH_CONCURRENCY
    Wrap              \* 2^64, in which times are subtracted

Loop == {"http", "amqp"}
Faults == {"crash", "savefail", "damage", "workfail", "badread", "hangup", "isolated",
           "elected", "shutdown"}

VARIABLES
    setup,     \* fixed: the scenario
    time, now, \* the clock, and the time each loop has cached (uv_now)
    store,     \* the authstore: vhosts, users, perms, boot
    file,      \* authstore.db: the store, and how many of its sections are whole
    path,      \* persist_path is set
    token,     \* a bootstrap token was minted at startup
    raft,      \* cluster: attached, healthy, inbox, log, applied, others
    task,      \* the change the interface's loop is about to make, if any
    conns,     \* http_conn_t
    works,     \* password checks under way
    inflight,  \* g_inflight
    tab,       \* g_tab
    stopping,  \* shutting_down
    todo,      \* what clients are still to request
    used,      \* how often each fault has happened
    change,    \* history: the last change that was admitted, and its number
    unsaved,   \* history: the store is ahead of its file
    early,     \* history: a change was made before the cluster was attached
    created,   \* history: a user has been created
    granted,   \* history: changes answered ok that the cluster is to make
    fails      \* history: failures of each key since its last success

settings == <<store, file, path, raft, change, unsaved, early, created, granted>>
config == <<task, settings>>
limiter == <<works, inflight, tab, fails>>
vars == <<setup, time, now, token, conns, stopping, todo, used, config, limiter>>

Spend(what) ==
    /\ used[what] < setup.faults[what]
    /\ used' = [used EXCEPT ![what] = @ + 1]

-----------------------------------------------------------------------------
(* The store.                                                              *)

EmptyStore ==
    [vhosts |-> {}, users |-> [u \in User |-> None], perms |-> {}, boot |-> FALSE]

Change == {"add_vhost", "del_vhost", "add_user", "del_user", "set_perm", "clear_perm"}

\* A store as it can be: whoever has users has completed the bootstrap.
IsStore(s) ==
    /\ s = [vhosts |-> s.vhosts, users |-> s.users, perms |-> s.perms, boot |-> s.boot]
    /\ s.boot \in BOOLEAN /\ DOMAIN s.users = User
    /\ (\E u \in User : s.users[u] # None) => s.boot

\* authstore_is_open()
IsOpen(s) == (\A u \in User : s.users[u] = None) /\ ~s.boot

\* drop_perms_matching()
DropOfUser(perms, u) == {x \in perms : x.user # u}
DropOfVhost(perms, v) == {x \in perms : x.vhost # v}
DropRow(perms, u, v) == {x \in perms : x.user # u \/ x.vhost # v}

\* Mutant of WithUser: a user does not end the bootstrap for good.
WithUserNotSticky(s, x) == [s EXCEPT !.users[x.user] = [pass |-> x.pass, tags |-> x.tags]]

\* authstore_add_user(), also of a user who exists.
WithUser(s, x) ==
    [s EXCEPT !.users[x.user] = [pass |-> x.pass, tags |-> x.tags], !.boot = TRUE]

\* authstore_add_vhost() and the other five.  The row of a permission with a
\* malformed pattern is kept, and denies everything.
Mutated(s, x) ==
    CASE x.op = "add_vhost"  -> [s EXCEPT !.vhosts = @ \cup {x.vhost}]
      [] x.op = "del_vhost"  -> IF x.vhost \notin s.vhosts THEN s
                                ELSE [s EXCEPT !.vhosts = @ \ {x.vhost},
                                               !.perms = DropOfVhost(@, x.vhost)]
      [] x.op = "add_user"   -> WithUser(s, x)
      [] x.op = "del_user"   -> IF s.users[x.user] = None THEN s
                                ELSE [s EXCEPT !.users[x.user] = None,
                                               !.perms = DropOfUser(@, x.user)]
      [] x.op = "set_perm"   -> [s EXCEPT !.perms = DropRow(@, x.user, x.vhost) \cup
                                    {[user |-> x.user, vhost |-> x.vhost, valid |-> x.valid]}]
      [] x.op = "clear_perm" -> [s EXCEPT !.perms = DropRow(@, x.user, x.vhost)]

\* Mutant of Saves: clearing a permission is not written.
SavesButClear(s, x) ==
    x.op # "clear_perm" /\ (x.op \in {"add_user", "set_perm"} \/ Mutated(s, x) # s)

\* Whether the mutator reaches authstore_save_locked().
Saves(s, x) == x.op \in {"add_user", "set_perm"} \/ Mutated(s, x) # s

\* authstore_save_locked().  A file that is missing is read like an empty one.
Saved(s) == [store |-> s, whole |-> 3]
NoFile == Saved(EmptyStore)

\* authstore_load(), and the default virtual host that main() ensures.  A damaged
\* file is read up to the damage, which is placed between two sections.
Loaded(f) ==
    LET users == IF f.whole >= 2 THEN f.store.users ELSE EmptyStore.users
    IN [vhosts |-> {"/"} \cup (IF f.whole >= 1 THEN f.store.vhosts ELSE {}),
        users  |-> users,
        perms  |-> IF f.whole = 3 THEN f.store.perms ELSE {},
        boot   |-> (f.whole = 3 /\ f.store.boot) \/ \E u \in User : users[u] # None]

\* The store, its path and its file when main() serves.
Booted(f) ==
    LET s == IF setup.cluster THEN EmptyStore ELSE Loaded(f)
        p == setup.dataDir /\ f.whole = 3
    IN [store |-> s, path |-> p, file |-> IF p /\ "/" \notin f.store.vhosts THEN Saved(s) ELSE f]

\* What apply_op() makes of the first n committed operations.
Replay(log, n) ==
    LET after[k \in 0..n] == IF k = 0 THEN EmptyStore ELSE Mutated(after[k - 1], log[k])
    IN after[n]

\* mgmt_level_from_tags()
LevelOf(s, u) ==
    CASE s.users[u] = None                -> -1
      [] s.users[u].tags = "administrator" -> 2
      [] s.users[u].tags = "management"    -> 1
      [] OTHER                             -> -1

-----------------------------------------------------------------------------
(* The limiter.                                                            *)

\* entry_t of a key that is in the table.
Entry == [failures : Nat, last : Nat, next : Nat]

\* now_ms - last_ms, unsigned.
Since(t, last) == (t - last) % Wrap

\* The doubling loop of authlimit_record_failure(), with its ceiling.
Delay(n) ==
    LET d == BaseDelay * 2^(n - FreeAttempts - 1)
    IN IF n <= FreeAttempts THEN 0 ELSE IF d \in 0..MaxDelay THEN d ELSE MaxDelay

\* authlimit_retry_after_ms(): whether the key has to wait, and the table with
\* a stale entry forgotten.
Stale(k, t) == tab[k] # None /\ Since(t, tab[k].last) > IdleReset
MustWait(k, t) == tab[k] # None /\ ~Stale(k, t) /\ tab[k].next > t
Checked(k, t) == IF Stale(k, t) THEN [tab EXCEPT ![k] = None] ELSE tab

\* find_or_create_locked(): the entries with room for a new key.
Oldest(used0) == CHOOSE k \in used0 : \A j \in used0 : tab[k].last <= tab[j].last
Evicted(k) ==
    LET used0 == {j \in Key : tab[j] # None}
    IN IF k \in used0 \/ Cardinality(used0) < TableSize THEN {} ELSE {Oldest(used0)}

\* Mutant of Backoff: the delay of the failure before.
BackoffLate(n) == Delay(n - 1)
Backoff(n) == Delay(n)

\* The history of a key's failures, and whether it is in the order of time and
\* never dropped from the table.
NoFails == [n |-> 0, last |-> 0, sound |-> TRUE]
CheckNoted(k, t) ==
    [fails EXCEPT ![k] = IF fails[k].n = 0 THEN @
                         ELSE IF t < @.last THEN [@ EXCEPT !.sound = FALSE]
                         ELSE IF t - @.last > IdleReset THEN NoFails ELSE @]
FailureNoted(k, t) ==
    [j \in Key |->
        LET h == fails[j]
        IN IF j = k
           THEN [n |-> IF h.n > 0 /\ t - h.last > IdleReset THEN 1 ELSE h.n + 1, last |-> t,
                 sound |-> h.sound /\ (h.n = 0 \/ t >= h.last)]
           ELSE IF j \in Evicted(k) THEN [h EXCEPT !.sound = FALSE] ELSE h]

\* authlimit_record_failure()
RecordFailure(k, t) ==
    LET n == IF tab[k] = None \/ Stale(k, t) THEN 1 ELSE tab[k].failures + 1
    IN /\ tab' = [j \in Key |->
                    IF j = k THEN [failures |-> n, last |-> t, next |-> t + Backoff(n)]
                    ELSE IF j \in Evicted(k) THEN None ELSE tab[j]]
       /\ fails' = FailureNoted(k, t)

\* authlimit_record_success()
RecordSuccess(k) ==
    /\ tab' = [tab EXCEPT ![k] = None]
    /\ fails' = [fails EXCEPT ![k] = NoFails]

\* http_conn_t of a connection that is not there.
NoConn == [request |-> None, st |-> "none", reading |-> FALSE, looks |-> 0, responded |-> FALSE,
           writes |-> 0, sent |-> 0, pending |-> None, handles |-> 0]

\* amqp_auth_work_t, http_auth_work_t: what is taken along to the thread.
WorkId == 1..(HashConcurrency + 1)
FreeWork == Min({i \in WorkId : works[i] = None})
Work(loop, who, key, cred) ==
    [loop |-> loop, who |-> who, key |-> key, user |-> cred.user, start |-> now[loop],
     ok |-> store.users[cred.user] # None /\ store.users[cred.user].pass = cred.pass]

Begin(w) ==
    /\ works' = [works EXCEPT ![FreeWork] = w]
    /\ inflight' = inflight + 1

-----------------------------------------------------------------------------
ASSUME AdminAssumption ==
    /\ {FreeAttempts, BaseDelay, MaxDelay, IdleReset, Wrap} \subseteq Nat
    /\ {TableSize, HashConcurrency} \subseteq Nat \ {0}
    /\ MaxDelay <= IdleReset
    /\ None \notin Conn /\ "amqp" \notin Conn /\ None \notin Entry
    /\ \A s \in Scenarios :
        /\ s.cluster \in BOOLEAN
        /\ s.dataDir \in BOOLEAN        \* an authstore.db is kept
        /\ s.cluster => ~s.dataDir
        /\ s.file = Saved(s.file.store) /\ IsStore(s.file.store)
        /\ \A q \in s.requests : q.key \in Key
        /\ s.maxConnections \in Nat \ {0}
        /\ s.conns \subseteq Conn       \* bound: those that are there at once
        /\ s.until \in Nat              \* bound: how far time goes
        /\ s.looks \in Nat \ {0}        \* bound: reads that find the request whole
        /\ Wrap > s.until + IdleReset
        /\ s.faults \in [Faults -> Nat]

Init ==
    /\ setup \in Scenarios
    /\ time = 0 /\ now = [x \in Loop |-> 0]
    /\ raft = [attached |-> FALSE, healthy |-> FALSE, inbox |-> <<>>, log |-> setup.log,
               applied |-> 0, others |-> setup.others]
    /\ task = None
    /\ LET b == Booted(setup.file) IN store = b.store /\ path = b.path /\ file = b.file
    /\ token = IsOpen(store)
    /\ conns = [c \in Conn |-> NoConn]
    /\ works = [i \in WorkId |-> None] /\ inflight = 0
    /\ tab = [k \in Key |-> None]
    /\ stopping = FALSE
    /\ todo = setup.requests
    /\ used = [x \in Faults |-> 0]
    /\ change = [n |-> 0, level |-> 0, by |-> None] /\ unsaved = FALSE /\ early = FALSE
    /\ created = store.boot /\ granted = {}
    /\ fails = [k \in Key |-> NoFails]

-----------------------------------------------------------------------------
(* Changing the store.                                                     *)

\* The standalone branch of cfg_apply(); authstore_save_locked() may fail, and
\* does nothing without a path.
ChangeHere(x) ==
    /\ store' = Mutated(store, x)
    /\ created' = (created \/ x.op = "add_user")
    /\ early' = (early \/ setup.cluster)
    /\ \/ /\ ~Saves(store, x)
          /\ UNCHANGED <<file, unsaved, used>>
       \/ /\ Saves(store, x) /\ path
          /\ file' = Saved(store') /\ unsaved' = FALSE
          /\ UNCHANGED used
       \/ /\ Saves(store, x)
          /\ IF path THEN Spend("savefail") ELSE UNCHANGED used
          /\ unsaved' = TRUE
          /\ UNCHANGED file
    /\ UNCHANGED <<path, raft, granted>>

\* The cluster branch: the change goes to the inbox, or is refused while there
\* is no leader.
ProposeChange(x) ==
    /\ IF raft.healthy
       THEN /\ raft' = [raft EXCEPT !.inbox = Append(@, x)]
            /\ granted' = granted \cup {x}
       ELSE UNCHANGED <<raft, granted>>
    /\ UNCHANGED <<store, file, path, unsaved, early, created, used>>

\* cfg_apply()
CfgApply(x, level, who) ==
    /\ change' = [n |-> change.n + 1, level |-> level, by |-> who]
    /\ IF raft.attached THEN ProposeChange(x) ELSE ChangeHere(x)

-----------------------------------------------------------------------------
(* Connections of the management interface.                                *)

\* http_respond(), and http_respond_401(), which does not note that it has
\* responded.  http_dispatch_level() guards both.
Answerable(k) == k.st = "open" /\ ~k.responded
Respond401(k) ==
    IF Answerable(k) THEN [k EXCEPT !.writes = @ + 1, !.sent = @ + 1] ELSE k
Respond(k) == [Respond401(k) EXCEPT !.responded = @ \/ Answerable(k)]

\* http_conn_close()
Closed(k) == IF k.st = "open" THEN [k EXCEPT !.st = "closing"] ELSE k

Put(c, k) == conns' = [conns EXCEPT ![c] = k]
Nothing == UNCHANGED <<config, used>>

\* http_dispatch_level(), for connection c as k describes it.  A request for a
\* change goes on to handle_mgmt(), in the same callback; what the cluster's
\* thread had applied when the level was found is noted as history.
Dispatch(c, k, level, who) ==
    IF Answerable(k) /\ level >= 2 /\ k.request.want.op \in Change
    THEN /\ Put(c, k)
         /\ task' = [conn |-> c, want |-> k.request.want, level |-> level, by |-> who,
                     since |-> raft.applied]
         /\ UNCHANGED <<settings, used>>
    ELSE Put(c, IF level = 0 THEN Respond401(k) ELSE Respond(k)) /\ Nothing

\* handle_mgmt(): the change, and its answer.  The store was locked to find the
\* level and is locked again for the change; in between, while the password of a
\* new user is hashed, only other threads run.
HandleMgmt(c) ==
    /\ task # None /\ task.conn = c
    /\ CfgApply(task.want, task.level, task.by)
    /\ Put(c, Respond(conns[c]))
    /\ task' = None
    /\ UNCHANGED <<setup, time, now, token, stopping, todo, limiter>>

\* The interface's loop is not in the middle of a callback.
LoopFree == task = None

\* mgmt_auth_start(), once the credentials are known to be well formed.
CheckPassword(c, k) ==
    LET q == k.request
        t == now["http"]
    IN /\ tab' = Checked(q.key, t)
       /\ fails' = CheckNoted(q.key, t)
       /\ \/ /\ MustWait(q.key, t) \/ inflight >= HashConcurrency
             /\ Put(c, Respond(k)) /\ Nothing
             /\ UNCHANGED <<works, inflight>>
          \/ /\ ~MustWait(q.key, t) /\ inflight < HashConcurrency
             /\ Begin(Work("http", c, q.key, q.cred))
             /\ Put(c, [k EXCEPT !.pending = FreeWork, !.reading = FALSE])
             /\ Nothing
          \/ /\ ~MustWait(q.key, t) /\ inflight < HashConcurrency
             /\ Spend("workfail")
             /\ \E stopped \in BOOLEAN : Put(c, [Respond(k) EXCEPT !.reading = ~stopped])
             /\ UNCHANGED <<works, inflight, config>>

\* handle_request()
HandleRequest(c, k) ==
    IF k.request.want.op = "health" THEN Put(c, Respond(k)) /\ Nothing /\ UNCHANGED limiter
    ELSE IF IsOpen(store)
    THEN /\ Dispatch(c, k, IF k.request.token /\ token THEN 3 ELSE 0, None)
         /\ UNCHANGED limiter
    ELSE IF k.request.cred = None THEN Put(c, Respond401(k)) /\ Nothing /\ UNCHANGED limiter
    ELSE CheckPassword(c, k)

\* on_http_connection(): at the limit the connection is accepted and closed.
Accept(q) ==
    LET c      == CHOOSE x \in setup.conns : conns[x].st = "none"
        listed == {x \in Conn : conns[x].st = "open"}
        k      == [NoConn EXCEPT !.request = q, !.st = "open", !.reading = TRUE, !.handles = 2]
    IN /\ LoopFree /\ ~stopping /\ \E x \in setup.conns : conns[x].st = "none"
       /\ q.over = "http" /\ todo' = todo \ {q}
       /\ Put(c, IF Cardinality(listed) < setup.maxConnections THEN k
                 ELSE [k EXCEPT !.st = "closing", !.handles = 1])
       /\ UNCHANGED <<setup, time, now, token, stopping, used, config, limiter>>

\* on_http_read() that finds the whole request in the buffer: the first time,
\* and again when more bytes arrive.
Read(c) ==
    LET k == conns[c]
    IN /\ LoopFree /\ k.st = "open" /\ k.reading /\ k.looks < setup.looks
       /\ HandleRequest(c, [k EXCEPT !.looks = @ + 1])
       /\ UNCHANGED <<setup, time, now, token, stopping, todo>>

\* on_http_read() of a request that is malformed or too large.
ReadBad(c) ==
    LET k == conns[c]
    IN /\ LoopFree /\ k.st = "open" /\ k.reading /\ k.looks < setup.looks
       /\ Spend("badread")
       /\ Put(c, Respond([k EXCEPT !.looks = setup.looks]))
       /\ UNCHANGED <<setup, time, now, token, stopping, todo, config, limiter>>

\* The client hangs up.
ReadEnd(c) ==
    /\ LoopFree /\ conns[c].st = "open" /\ conns[c].reading
    /\ Spend("hangup")
    /\ Put(c, Closed(conns[c]))
    /\ UNCHANGED <<setup, time, now, token, stopping, todo, config, limiter>>

\* on_http_conn_timeout(): the deadline of the whole exchange.
ConnTimeout(c) ==
    /\ LoopFree /\ conns[c].st = "open"
    /\ Put(c, Closed(conns[c]))
    /\ UNCHANGED <<setup, time, now, token, stopping, todo, used, config, limiter>>

\* on_http_write(), also of a write that uv_close() has cancelled.
WriteDone(c) ==
    /\ LoopFree /\ conns[c].writes > 0
    /\ Put(c, Closed([conns[c] EXCEPT !.writes = @ - 1]))
    /\ UNCHANGED <<setup, time, now, token, stopping, todo, used, config, limiter>>

\* Mutant of Detached: the check keeps its pointer to the connection.
DetachedNothing(c) == works
\* What the last close callback leaves of the connection's password check.
Detached(c) ==
    [i \in WorkId |-> IF works[i] # None /\ works[i].who = c
                      THEN [works[i] EXCEPT !.who = None] ELSE works[i]]

\* on_http_handle_closed(): the last handle frees the connection.  Pending
\* writes are called back before.
HandleClosed(c) ==
    LET k == conns[c]
    IN /\ LoopFree /\ k.st = "closing"
       /\ IF k.handles > 1
          THEN Put(c, [k EXCEPT !.handles = @ - 1]) /\ UNCHANGED works
          ELSE k.writes = 0 /\ Put(c, NoConn) /\ works' = Detached(c)
       /\ UNCHANGED <<setup, time, now, token, stopping, todo, used, config, inflight, tab,
                      fails>>

\* http_server_shutdown()
Shutdown ==
    /\ LoopFree /\ ~stopping /\ Spend("shutdown")
    /\ stopping' = TRUE
    /\ conns' = [c \in Conn |-> Closed(conns[c])]
    /\ UNCHANGED <<setup, time, now, token, todo, config, limiter>>

-----------------------------------------------------------------------------
(* Password checks.                                                        *)

\* Connection.StartOk of an AMQP connection.  The workers start after the cluster.
AmqpLogin(q) ==
    LET t == now["amqp"]
    IN /\ q.over = "amqp" /\ todo' = todo \ {q}
       /\ setup.cluster => raft.attached
       /\ \/ IsOpen(store) /\ UNCHANGED <<limiter, used>>
          \/ /\ ~IsOpen(store) /\ q.cred = None
             /\ RecordFailure(q.key, t)
             /\ UNCHANGED <<works, inflight, used>>
          \/ /\ ~IsOpen(store) /\ q.cred # None
             /\ tab' = Checked(q.key, t)
             /\ fails' = CheckNoted(q.key, t)
             /\ IF MustWait(q.key, t) \/ inflight >= HashConcurrency
                THEN UNCHANGED <<works, inflight, used>>
                ELSE \/ Begin(Work("amqp", "amqp", q.key, q.cred)) /\ UNCHANGED used
                     \/ Spend("workfail") /\ UNCHANGED <<works, inflight>>
       /\ UNCHANGED <<setup, time, now, token, conns, stopping, config>>

\* protocol_conn_free() while the password is being checked.
AmqpGone(i) ==
    /\ works[i] # None /\ works[i].who = "amqp"
    /\ Spend("hangup")
    /\ works' = [works EXCEPT ![i].who = None]
    /\ UNCHANGED <<setup, time, now, token, conns, stopping, todo, config, inflight, tab, fails>>

\* Mutant of SlotsLeft: the slot is kept when the connection is gone.
SlotsLeftLeaky(w) == IF w.who = None THEN inflight ELSE inflight - 1
SlotsLeft(w) == inflight - 1

\* Mutant of LevelAfter: the tags are those the user had when the check began.
LevelAfterTrusting(w) == IF w.ok THEN 2 ELSE 0
\* The level a finished check gives its request.
LevelAfter(w) == IF w.ok THEN LevelOf(store, w.user) ELSE 0

\* http_auth_after_cb(), auth_work_after_cb()
WorkDone(i) ==
    LET w == works[i]
    IN /\ w # None /\ (w.loop = "http" => LoopFree)
       /\ inflight' = SlotsLeft(w)
       /\ works' = [works EXCEPT ![i] = None]
       /\ IF w.who = None THEN UNCHANGED <<tab, fails>>
          ELSE IF w.ok THEN RecordSuccess(w.key) ELSE RecordFailure(w.key, w.start)
       /\ IF w.who \in Conn
          THEN Dispatch(w.who, [conns[w.who] EXCEPT !.pending = None], LevelAfter(w), w.user)
          ELSE UNCHANGED conns /\ Nothing
       /\ UNCHANGED <<setup, time, now, token, stopping, todo>>

-----------------------------------------------------------------------------
(* Time, the cluster, and the process.                                     *)

Tick ==
    /\ time < setup.until
    /\ time' = time + 1
    /\ UNCHANGED <<setup, now, token, conns, stopping, todo, used, config, limiter>>

\* An iteration of a loop begins (uv__update_time).
LoopTurn(x) ==
    /\ now[x] < time /\ (x = "http" => LoopFree)
    /\ now' = [now EXCEPT ![x] = time]
    /\ UNCHANGED <<setup, time, token, conns, stopping, todo, used, config, limiter>>

OnRaft(r) ==
    /\ raft' = r
    /\ UNCHANGED <<setup, time, now, token, conns, stopping, todo, limiter, task, file, path,
                   change, unsaved, early, granted>>

\* start_cluster() has given the workers their cluster node.  The management
\* interface is served already.
Attach ==
    /\ setup.cluster /\ ~raft.attached
    /\ OnRaft([raft EXCEPT !.attached = TRUE])
    /\ UNCHANGED <<store, created, used>>

\* The next operation of the inbox, or of another node, is committed.
Commit ==
    /\ raft.healthy
    /\ \/ /\ raft.inbox # <<>>
          /\ OnRaft([raft EXCEPT !.log = Append(@, Head(raft.inbox)), !.inbox = Tail(@)])
       \/ /\ raft.others # <<>>
          /\ OnRaft([raft EXCEPT !.log = Append(@, Head(raft.others)), !.others = Tail(@)])
    /\ UNCHANGED <<store, created, used>>

\* apply_op() of an access-control operation, of the log or of its snapshot.  The
\* cluster's thread runs before the workers have their pointers to the node.
ApplyOp ==
    LET x == raft.log[raft.applied + 1]
    IN /\ setup.cluster /\ raft.applied < Len(raft.log)
       /\ OnRaft([raft EXCEPT !.applied = @ + 1])
       /\ store' = Mutated(store, x)
       /\ created' = (created \/ x.op = "add_user")
       /\ UNCHANGED used

\* update_health(): a leader is known, or lost.
LeaderKnown ==
    /\ setup.cluster /\ ~raft.healthy
    /\ OnRaft([raft EXCEPT !.healthy = TRUE])
    /\ UNCHANGED <<store, created, used>>

LeaderLost ==
    /\ raft.healthy
    /\ Spend("isolated")
    /\ OnRaft([raft EXCEPT !.healthy = FALSE])
    /\ UNCHANGED <<store, created>>

\* become_leader(): the default virtual host is proposed if it is missing.
BecomeLeader ==
    /\ setup.cluster
    /\ Spend("elected")
    /\ OnRaft([raft EXCEPT !.healthy = TRUE,
                 !.inbox = IF "/" \in store.vhosts THEN @
                           ELSE Append(@, [op |-> "add_vhost", vhost |-> "/"])])
    /\ UNCHANGED <<store, created>>

\* The file is damaged; the process notices when it starts again.
Damage ==
    /\ path /\ Spend("damage")
    /\ \E n \in 0..2 : file' = [file EXCEPT !.whole = n]
    /\ unsaved' = TRUE
    /\ UNCHANGED <<setup, time, now, token, conns, stopping, todo, limiter, task, store, path,
                   raft, change, early, created, granted>>

\* The process dies, at any moment, and main() starts it again.
Crash ==
    /\ Spend("crash")
    /\ conns' = [c \in Conn |-> NoConn]
    /\ works' = [i \in WorkId |-> None] /\ inflight' = 0
    /\ tab' = [k \in Key |-> None] /\ fails' = [k \in Key |-> NoFails]
    /\ stopping' = FALSE
    /\ LET b == Booted(file)
       IN store' = b.store /\ path' = b.path /\ file' = b.file /\ token' = IsOpen(b.store)
    /\ raft' = [raft EXCEPT !.attached = FALSE, !.healthy = FALSE, !.inbox = <<>>,
                           !.applied = 0]
    /\ task' = None /\ early' = FALSE
    /\ UNCHANGED <<setup, time, now, todo, change, unsaved, created, granted>>

Next ==
    \/ \E c \in Conn :
        \/ Read(c) \/ ReadBad(c) \/ ReadEnd(c) \/ ConnTimeout(c) \/ WriteDone(c)
        \/ HandleClosed(c) \/ HandleMgmt(c)
    \/ \E q \in todo : Accept(q)
    \/ \E q \in todo : AmqpLogin(q)
    \/ \E i \in WorkId : AmqpGone(i) \/ WorkDone(i)
    \/ \E x \in Loop : LoopTurn(x)
    \/ Tick \/ Shutdown \/ Damage \/ Crash
    \/ Attach \/ Commit \/ ApplyOp \/ LeaderKnown \/ LeaderLost \/ BecomeLeader

Spec == Init /\ [][Next]_vars

\* The loop calls back what is due and ends its callbacks; a thread ends its check; the
\* deadline of an open connection comes.  Clients need not do anything.
FairSpec ==
    /\ Spec
    /\ \A c \in Conn :
        /\ WF_vars(ConnTimeout(c)) /\ WF_vars(WriteDone(c)) /\ WF_vars(HandleClosed(c))
        /\ WF_vars(HandleMgmt(c))
    /\ \A i \in WorkId : WF_vars(WorkDone(i))

-----------------------------------------------------------------------------
(* Properties.                                                             *)

\* A password check that still points to a connection points to one that has
\* not been freed and that knows of it (on_http_handle_closed), however the
\* connection's end, its deadline and the end of the check interleave.
WorkRefersToLive ==
    \A i \in WorkId : works[i] # None /\ works[i].who \in Conn =>
        conns[works[i].who].st # "none" /\ conns[works[i].who].pending = i

\* Every accepted connection is freed in the end, and every slot of a password
\* check is given back (authlimit_hash_end), also when the client is gone, the
\* check could not be started, or the interface is shut down.
ConnectionsEnd ==
    []<>(inflight = 0 /\ (\A c \in Conn : conns[c].st = "none") /\ (\A i \in WorkId : works[i] = None))

\* Whoever x says asked may change the store s: an administrator, or the holder of
\* the token while there is no user.
Authorised(s, x) == IF x.level = 3 THEN IsOpen(s) ELSE LevelOf(s, x.by) = 2

\* A change is made only for somebody who may make it at that moment, not merely
\* when the password check began (http_auth_after_cb), whatever other requests did
\* to the store during the check; or else the cluster's thread applied an operation
\* after the level was found, which nothing in handle_mgmt() notices.
OnlyAdministratorsChange ==
    [][change' # change => Authorised(store, change') \/ raft.applied > task.since]_vars

\* The same without the exception.
AlwaysAuthorised == [][change' # change => Authorised(store, change')]_vars

\* "the first-boot bootstrap window never re-opens just because users were later
\* deleted" (struct authstore): on a standalone broker whose file is kept whole the
\* token admits nobody after the first user, whatever is deleted and however
\* often the process is started again.
BootstrapOnce ==
    [][change' # change /\ change'.level = 3 /\ setup.dataDir
        /\ used.savefail = 0 /\ used.damage = 0 => ~created]_vars

\* "users/vhosts/permissions survive a restart" (main): what a standalone broker
\* would load at any moment is what it holds, unless a save failed or
\* the file was damaged.  The default virtual host is always there then.
RestartKeepsConfig ==
    setup.dataDir /\ ~unsaved => Loaded(file) = [store EXCEPT !.vhosts = @ \cup {"/"}]

\* A password check that starts for a key starts no sooner than the backoff of
\* the failures recorded for the key allows.
Backed(h, t) == h.n > FreeAttempts => t >= h.last + Delay(h.n)
Started(i) == works[i] = None /\ works'[i] # None

\* "after a burst of failed attempts a key must wait an exponentially growing
\* delay before its next attempt is even hashed" (authlimit.h), as long as the
\* loops report the key's attempts in the order of their times.
BackoffHolds ==
    [][\A i \in WorkId : Started(i) /\ fails[works'[i].key].sound
            /\ works'[i].start >= fails[works'[i].key].last =>
                Backed(fails[works'[i].key], works'[i].start)]_vars

\* The same without a condition on the order.
BackoffAlwaysHolds ==
    [][\A i \in WorkId : Started(i) => Backed(fails[works'[i].key], works'[i].start)]_vars

\* "a single response is written" (http.c).
SingleResponse == \A c \in Conn : conns[c].sent <= 1

\* A change answered ok is not lost: "refuse honestly instead, so the operator
\* learns the cluster is down rather than 'losing' the change" (cfg_apply).
OkIsKept ==
    \A x \in granted : \E s \in {raft.inbox, raft.log} : \E k \in DOMAIN s : s[k] = x

\* "Returns ... -1 on a corrupt file (the store is left as-is)" (authstore_load).
CorruptFileIgnored ==
    file.whole < 3 => Loaded(file) = [EmptyStore EXCEPT !.vhosts = {"/"}]

\* "through Raft when clustered (consistent on every node)" (cfg_apply): the
\* store of a node is what the committed operations make.
StoreFollowsLog == setup.cluster => store = Replay(raft.log, raft.applied)

=============================================================================
