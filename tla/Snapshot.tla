------------------------------ MODULE Snapshot ------------------------------
(***************************************************************************)
(* Log compaction and state transfer (src/src/cluster.c): how a node drops *)
(* the prefix of its log that every node has on disk, what it keeps in the *)
(* snapshot file instead, how it rebuilds itself from the two after a      *)
(* crash, and how the leader re-seeds a peer that needs a dropped entry.   *)
(*                                                                         *)
(* One leader l and one of its peers f, over a link that keeps the order   *)
(* of the frames and loses all of them when it drops.  The other peers     *)
(* hold and have fsynced what is committed (Advance), so only f holds the  *)
(* compaction back.  Elections are in Raft; here the leader stays.         *)
(*                                                                         *)
(* What apply_op() builds on a node is its image: the broker's queues, the *)
(* access-control objects, and the accumulated topology n->topo.  A        *)
(* message is its cluster_id, the index of its entry.  Log, file and       *)
(* offsets count records.                                                  *)
(***************************************************************************)
EXTENDS Integers, Sequences, SequencesExt, FiniteSets, FiniteSetsExt

CONSTANTS
    Name,          \* queues
    Scenarios,     \* what to explore: [script, log, start, faults]
    NoSnapshot,    \* no snapshot file
    Hole,          \* a record whose blocks were given back
    CompactBatch,  \* entries a compaction must at least drop (4096)
    SnapWindow,    \* CL_SNAP_WINDOW
    ChunkRecords,  \* records that fit in CL_SNAP_CHUNK_BYTES
    MaxFrames      \* bound: frames on the way when the leader proposes

Faults == {"deliver", "requeue", "linkdown", "crash", "wipe", "snapfail"}

ASSUME SnapshotAssumption ==
    /\ CompactBatch \in Nat \ {0} /\ SnapWindow \in Nat \ {0} /\ ChunkRecords \in Nat \ {0}
    /\ MaxFrames \in Nat \ {0}
    /\ \A s \in Scenarios :
        s.log \in Nat /\ s.faults \in [Faults -> Nat] /\ s.start \in {"level", "diverged"}

VARIABLES
    setup,    \* fixed: the scenario
    l,        \* leader: log, commit, compacted, image, unacked, hi
    p,        \* leader's view of the peer: next, match, durable, snap, out
    link,     \* the link between the two is up
    toF, toL, \* frames on the way
    f,        \* peer: base, baseTerm, log, applied, commit, durable, image, hint
    disk,     \* peer's files: log records, base offset, the records as of the last fsync,
              \* how many of them have not been truncated since, snapshot
    reclaim,  \* the peer is between steps 1 and 2 of log_compact_to()
    install,  \* history: the peer is between SNAP_BEGIN and SNAP_END
    behind,   \* history: the peer came back with less than it acknowledged
    flaws,    \* history: what made a transfer incomplete
    used      \* how often each fault has happened

vars == <<setup, l, p, link, toF, toL, f, disk, reclaim, install, behind, flaws, used>>

Op(k, x) == [kind |-> k, on |-> x, wm |-> 0]
AckOp(q, wm) == [kind |-> "ack", on |-> q, wm |-> wm]
TopologyKinds == {"declare", "delete", "add", "drop"}

Spend(what) ==
    /\ used[what] < setup.faults[what]
    /\ used' = [used EXCEPT ![what] = @ + 1]

-----------------------------------------------------------------------------
(* apply_op() and the image it builds.                                     *)

NoImage ==
    [declared |-> {}, bare |-> {}, ready |-> [q \in Name |-> <<>>], auth |-> {}, topo |-> <<>>]

\* topo_add(): an operation that is already there, byte for byte, is not
\* added again.
TopoAdd(topo, op) == IF Contains(topo, op) THEN topo ELSE Append(topo, op)

\* queue_drain_consumed(): from the head, while the watermark covers it.
Drained(s, wm) ==
    LET above == {k \in DOMAIN s : s[k] > wm}
    IN IF above = {} THEN <<>> ELSE SubSeq(s, Min(above), Len(s))

\* authstore_del_vhost(), authstore_clear_perm(): the permissions on a virtual
\* host go with it.
Revoked(auth, what) == IF what = "vhost" THEN auth \ {"vhost", "perm"} ELSE auth \ {what}

\* broker_delete_queue()
Deleted(im, q) ==
    [im EXCEPT !.declared = @ \ {q}, !.bare = @ \ {q}, !.ready[q] = <<>>]

\* The effect of an operation on the broker and the authstore.
Effect(im, op, index) ==
    CASE op.kind = "declare" -> [im EXCEPT !.declared = @ \cup {op.on}]
      [] op.kind = "delete"  -> Deleted(im, op.on)
      [] op.kind = "publish" /\ op.on \in im.declared ->
            [im EXCEPT !.ready[op.on] = Append(@, index)]
      [] op.kind = "ack"     -> [im EXCEPT !.ready[op.on] = Drained(@, op.wm)]
      [] op.kind = "add"     -> [im EXCEPT !.auth = @ \cup {op.on}]
      [] op.kind = "drop"    -> [im EXCEPT !.auth = Revoked(@, op.on)]
      [] OTHER               -> im

\* Mutant of ApplyOp: only declarations are carried in the snapshot set.
ApplyOpNoDelete(im, op, index) ==
    LET done == Effect(im, op, index)
    IN IF op.kind \in TopologyKinds \ {"delete", "drop"}
       THEN [done EXCEPT !.topo = TopoAdd(@, op)] ELSE done

\* apply_op()
ApplyOp(im, op, index) ==
    LET done == Effect(im, op, index)
    IN IF op.kind \in TopologyKinds THEN [done EXCEPT !.topo = TopoAdd(@, op)] ELSE done

\* apply_committed()
Applied(im, entries) ==
    LET after[n \in 0..Len(entries)] ==
            IF n = 0 THEN im ELSE ApplyOp(after[n - 1], entries[n].op, entries[n].index)
    IN after[Len(entries)]

\* The loop over n->topo in persist_load() and SNAP_BEGIN.
Replayed(im, topo, index) == FoldLeft(LAMBDA i, op : ApplyOp(i, op, index), im, topo)

\* snap_apply_record(): the queue is declared, without its arguments, if it
\* does not exist yet.
RecordApplied(im, rec) ==
    [im EXCEPT !.ready[rec.q] = Append(@, rec.cid),
               !.bare = IF rec.q \in im.declared THEN @ ELSE @ \cup {rec.q},
               !.declared = @ \cup {rec.q}]

RecordsApplied(im, recs) == FoldLeft(RecordApplied, im, recs)

\* queue_snapshot_refs(): the ready messages up to the boundary.
SnapshotRefs(s, base) == SelectSeq(s, LAMBDA c : c <= base)

Queues(im) == SetToSeq(im.declared)

\* The messages snapshot_write() dumps.
Dump(im, base) ==
    FoldLeft(LAMBDA recs, q : recs \o [k \in DOMAIN SnapshotRefs(im.ready[q], base) |->
                                         [q |-> q, cid |-> SnapshotRefs(im.ready[q], base)[k]]],
             <<>>, Queues(im))

-----------------------------------------------------------------------------
(* The leader's side of the link.  The operators take and return p, with   *)
(* the frames they send appended to p.out.                                 *)

NoTransfer == [active |-> FALSE, base |-> 0, queues |-> <<>>, msgs |-> <<>>,
               unacked |-> 0, endSent |-> FALSE]

Send(pr, frame) == [pr EXCEPT !.out = Append(@, frame)]

\* log_term_at() on the leader.
LeaderTerm(ld, i) == IF i = 0 THEN 0 ELSE ld.log[i].term

\* all_durable_index(): the leader and the other peers hold what is committed.
AllDurable(ld, pr) == Min({ld.commit, pr.durable})

\* send_append(): everything from next_index on, or an empty keepalive below
\* the compaction point.
SendAppend(ld, pr) ==
    LET last    == IF pr.next <= ld.compacted THEN pr.next - 1 ELSE Len(ld.log)
        entries == SubSeq(ld.log, pr.next, last)
    IN [Send(pr, [type |-> "append", prev |-> pr.next - 1,
                  prevTerm |-> LeaderTerm(ld, pr.next - 1), commit |-> ld.commit,
                  compact |-> AllDurable(ld, pr), entries |-> entries])
          EXCEPT !.next = @ + Len(entries)]

\* snap_start()
SnapStart(ld, pr) ==
    Send([pr EXCEPT !.snap = [NoTransfer EXCEPT !.active = TRUE, !.base = ld.compacted,
                              !.queues = [k \in DOMAIN Queues(ld.image) |->
                                [q |-> Queues(ld.image)[k], left |-> FALSE, msgs |-> <<>>]]]],
         [type |-> "begin", base |-> ld.compacted, baseTerm |-> LeaderTerm(ld, ld.compacted),
          topo |-> ld.image.topo])

\* What queue_snapshot_refs() finds in a queue of the transfer; a queue that
\* was deleted after snap_start() is kept by its reference.
RefsOf(ld, sq, base) ==
    SnapshotRefs(IF sq.left THEN sq.msgs ELSE ld.image.ready[sq.q], base)

\* Loading the next queue that has something to send, at the top of
\* snap_pump()'s loop.
LoadNext(ld, s) ==
    LET full == {k \in DOMAIN s.queues : RefsOf(ld, s.queues[k], s.base) # <<>>}
    IN IF s.msgs # <<>> THEN s
       ELSE IF full = {} THEN [s EXCEPT !.queues = <<>>]
       ELSE [s EXCEPT !.queues = SubSeq(@, Min(full), Len(@)),
                      !.msgs = RefsOf(ld, s.queues[Min(full)], s.base)]

\* One round of snap_pump()'s loop: a chunk, or the end of the dump, once.
PumpRound(ld, pr) ==
    LET s    == LoadNext(ld, pr.snap)
        n    == Min({ChunkRecords, Len(s.msgs)})
        rest == SubSeq(s.msgs, n + 1, Len(s.msgs))
    IN IF ~pr.snap.active \/ pr.snap.unacked >= SnapWindow THEN pr
       ELSE IF s.msgs = <<>>
       THEN IF s.endSent THEN [pr EXCEPT !.snap = s]
            ELSE Send([pr EXCEPT !.snap = [s EXCEPT !.endSent = TRUE]], [type |-> "end"])
       ELSE Send([pr EXCEPT !.snap = [s EXCEPT !.msgs = rest, !.unacked = @ + 1,
                                      !.queues = IF rest = <<>> THEN Tail(@) ELSE @]],
                 [type |-> "chunk",
                  recs |-> [k \in 1..n |-> [q |-> Head(s.queues).q, cid |-> s.msgs[k]]]])

\* snap_pump(): at most SnapWindow chunks and the end.
SnapPump(ld, pr) ==
    FoldLeft(LAMBDA x, k : PumpRound(ld, x), pr, [k \in 1..(SnapWindow + 1) |-> k])

\* pump_peer(), with the link up.
PumpPeer(ld, pr) ==
    IF pr.snap.active THEN SnapPump(ld, pr)
    ELSE IF ld.compacted > 0 /\ pr.next <= ld.compacted THEN SnapPump(ld, SnapStart(ld, pr))
    ELSE IF pr.next <= Len(ld.log) THEN SendAppend(ld, pr)
    ELSE pr

\* compact_payloads(all_durable_index())
CompactPayloads(ld, pr) == [ld EXCEPT !.compacted = Max({@, AllDurable(ld, pr)})]

\* broker_min_live_cluster_id() of a node without consumers.
LiveIds(im) == UNION {ToSet(im.ready[q]) : q \in im.declared}

\* Messages that a consumer on the leader has and its queue has not.
InHand == l.unacked \ LiveIds(l.image)

\* The leader's queues do not hold their messages in the order of the log.
Moved ==
    InHand # {} \/ \E q \in Name : ~IsSorted(l.image.ready[q], LAMBDA a, b : a < b)

\* The frames a handler has sent go on the link.
Transmit(pr) ==
    /\ p' = [pr EXCEPT !.out = <<>>]
    /\ toF' = toF \o pr.out
    /\ flaws' = IF pr.snap.active /\ Moved THEN flaws \cup {"moved"} ELSE flaws

-----------------------------------------------------------------------------
(* The peer.                                                               *)

FLast == f.base + Len(f.log)

\* log_term_at()
TermAt(i) ==
    IF i = f.base THEN f.baseTerm
    ELSE IF i > f.base /\ i <= FLast THEN f.log[i - f.base].term ELSE 0

\* The clamps of log_compact_to().
CompactTo == Min({f.hint, f.applied} \cup {c - 1 : c \in LiveIds(f.image)})

\* Mutant of SnapshotOf: without the messages.
SnapshotNoMessages(base, baseTerm, off) ==
    [base |-> base, baseTerm |-> baseTerm, off |-> off, topo |-> f.image.topo, msgs |-> <<>>]

\* snapshot_write()
SnapshotOf(base, baseTerm, off) ==
    [base |-> base, baseTerm |-> baseTerm, off |-> off, topo |-> f.image.topo,
     msgs |-> Dump(f.image, base)]

EmptySnapshot == [base |-> 0, baseTerm |-> 0, off |-> 0, topo |-> <<>>, msgs |-> <<>>]

\* persist_load(): how many records past the offset continue the snapshot.
Continues(file, s, n) ==
    /\ s.off + n <= Len(file)
    /\ \A k \in 1..n : file[s.off + k] # Hole /\ file[s.off + k].index = s.base + k
Loaded(file, s) == Max({n \in 0..Len(file) : Continues(file, s, n)})

\* snapshot_load(): the messages, then persist_load(): the topology.
LoadedImage(s) ==
    Replayed([RecordsApplied(NoImage, s.msgs) EXCEPT !.topo = s.topo], s.topo, s.base)

\* The node persist_load() starts from a log file and a snapshot file.
Recovered(file, snap) ==
    LET s == IF snap = NoSnapshot THEN EmptySnapshot ELSE snap
        n == Loaded(file, s)
    IN [base |-> s.base, baseTerm |-> s.baseTerm, log |-> SubSeq(file, s.off + 1, s.off + n),
        applied |-> s.base, commit |-> 0, durable |-> s.base + n, image |-> LoadedImage(s),
        hint |-> 0]

\* The file as persist_load() leaves it: trimmed, or extended by ftruncate() to
\* where the records are to start.
Trimmed(file, snap) ==
    LET s == IF snap = NoSnapshot THEN EmptySnapshot ELSE snap
    IN [k \in 1..(s.off + Loaded(file, s)) |-> IF k <= Len(file) THEN file[k] ELSE Hole]

\* What the log file can hold after a power loss: what was fsynced, all of what was
\* written since, or part of it.  Records that were truncated away are not safe
\* when they are written again, however much they look like the old ones.
AfterPowerLoss ==
    {disk.stable} \cup {SubSeq(disk.file, 1, n) : n \in disk.safe..Len(disk.file)}

\* send_append_resp()
Reply(ok, hint, durable) ==
    toL' = Append(toL, [type |-> "resp", ok |-> ok, hint |-> hint, durable |-> durable])

-----------------------------------------------------------------------------
(* Initial states.                                                         *)

Term == 3   \* the leader's

Entry(i, t, op) == [index |-> i, term |-> t, op |-> op]

\* A cluster that starts; or one that has just elected a leader while the peer
\* still holds, fsynced, two entries that never were committed.
OldLog(q) == <<Entry(1, 1, Op("declare", q)), Entry(2, 2, Op("publish", q)),
               Entry(3, 2, Op("publish", q)), Entry(4, Term, Op("noop", q))>>
StrayLog(q) == <<Entry(1, 1, Op("declare", q)), Entry(2, 1, Op("publish", q)),
                 Entry(3, 1, Op("publish", q))>>

Start(lg, stray, done) ==
    LET im == Applied(NoImage, SubSeq(lg, 1, done))
    IN /\ l = [log |-> lg, commit |-> done, compacted |-> 0, image |-> im, unacked |-> {},
               hi |-> [q \in Name |-> 0]]
       /\ p = [next |-> Len(lg) + 1, match |-> 0, durable |-> 0, snap |-> NoTransfer,
               out |-> <<>>]
       /\ f = [base |-> 0, baseTerm |-> 0, log |-> stray, applied |-> done, commit |-> done,
               durable |-> Len(stray), image |-> im, hint |-> 0]
       /\ disk = [file |-> stray, off |-> 0, stable |-> stray, safe |-> Len(stray),
                  snap |-> NoSnapshot]

Init ==
    /\ setup \in Scenarios
    /\ CASE setup.start = "level" -> Start(<<>>, <<>>, 0) /\ flaws = {}
         [] setup.start = "diverged" ->
              /\ LET q == CHOOSE x \in Name : TRUE IN Start(OldLog(q), StrayLog(q), 1)
              /\ flaws = {"diverged"}
    /\ link = TRUE /\ toF = <<>> /\ toL = <<>>
    /\ reclaim = FALSE /\ install = FALSE /\ behind = FALSE
    /\ used = [x \in Faults |-> 0]

-----------------------------------------------------------------------------
(* Steps of the leader.                                                    *)

\* The queues deleted by an operation of es stay in the transfer with what
\* they held.
KeptByReference(s, im, es) ==
    LET deletes(q) == {k \in DOMAIN es : es[k].op = Op("delete", q)}
        before(q)  == Applied(im, SubSeq(es, 1, Min(deletes(q)) - 1)).ready[q]
    IN [s EXCEPT !.queues = [k \in DOMAIN @ |->
          IF @[k].left \/ deletes(@[k].q) = {} THEN @[k]
          ELSE [q |-> @[k].q, left |-> TRUE, msgs |-> before(@[k].q)]]]

Entries(ld, n) == SubSeq(ld.log, ld.commit + 1, n)

\* apply_committed() on the leader up to n; a deleted queue takes its consume
\* tracking with it.
CommitTo(ld, n) ==
    LET gone == {e.op.on : e \in {x \in ToSet(Entries(ld, n)) : x.op.kind = "delete"}}
    IN [ld EXCEPT !.commit = n, !.image = Applied(@, Entries(ld, n)),
                  !.unacked = {c \in @ : ld.log[c].op.on \notin gone},
                  !.hi = [q \in Name |-> IF q \in gone THEN 0 ELSE @[q]]]

\* The quorum-th durable index, when the peer's completes a majority, and
\* Raft's restriction to entries of the current term.
CommitPoint(ld, pr) ==
    LET n == Min({pr.durable, Len(ld.log)})
    IN IF n > ld.commit /\ LeaderTerm(ld, n) = Term THEN n ELSE ld.commit

\* advance_commit() up to n.
AdvanceCommit(ld, pr, n) == CompactPayloads(CommitTo(ld, n), pr)

\* leader_append() and leader_flush() of one operation.
Propose(op) ==
    LET ld == [l EXCEPT !.log = Append(@, Entry(Len(@) + 1, Term, op))]
        pr == IF link THEN PumpPeer(ld, p) ELSE p
        n  == CommitPoint(ld, pr)
    IN /\ Len(l.log) < setup.log
       /\ Len(toF) < MaxFrames
       /\ Transmit([pr EXCEPT !.snap = KeptByReference(@, l.image, Entries(ld, n))])
       /\ l' = AdvanceCommit(ld, pr, n)
       /\ UNCHANGED <<setup, link, toL, f, disk, reclaim, install, behind, used>>

\* The next operation of the clients' script.
ProposeOp ==
    LET n == Cardinality({k \in DOMAIN l.log : l.log[k].op.kind # "ack"}) + 1
    IN n <= Len(setup.script) /\ Propose(setup.script[n])

\* CL_FRAME_APPEND_RESP of another peer, which has everything on its disk.
Advance ==
    /\ l.commit < Len(l.log)
    /\ l' = AdvanceCommit(l, p, Len(l.log))
    /\ p' = [p EXCEPT !.snap = KeptByReference(@, l.image, Entries(l, Len(l.log)))]
    /\ UNCHANGED <<setup, link, toF, toL, f, disk, reclaim, install, behind, flaws, used>>

\* A consumer on the leader takes the head of a queue.
Deliver(q) ==
    /\ Spend("deliver")
    /\ l.image.ready[q] # <<>>
    /\ l' = [l EXCEPT !.image.ready[q] = Tail(@),
                      !.unacked = @ \cup {Head(l.image.ready[q])},
                      !.hi[q] = Max({@, Head(l.image.ready[q])})]
    /\ UNCHANGED <<setup, p, link, toF, toL, f, disk, reclaim, install, behind, flaws>>

\* It acknowledges the message, or gives it back.
Settle(c) ==
    /\ l' = [l EXCEPT !.unacked = @ \ {c}]
    /\ UNCHANGED <<setup, p, link, toF, toL, f, disk, reclaim, install, behind, flaws, used>>

Requeue(c) ==
    /\ Spend("requeue")
    /\ l' = [l EXCEPT !.image.ready[l.log[c].op.on] = <<c>> \o @]
    /\ UNCHANGED <<setup, p, link, toF, toL, f, disk, reclaim, install, behind, flaws>>

\* queue_consume_watermark()
Watermark(q) ==
    LET un == {c \in l.unacked : l.log[c].op.on = q}
    IN IF un = {} THEN l.hi[q] ELSE Min(un) - 1

\* replicate_watermark(): proposed once it has advanced.
ConsumeTimer(q) ==
    /\ Watermark(q) > 0
    /\ \A e \in ToSet(l.log) : e.op.kind = "ack" /\ e.op.on = q => e.op.wm < Watermark(q)
    /\ Propose(AckOp(q, Watermark(q)))

\* heartbeat_timer_cb().  One keepalive at a time is on the way.
Heartbeat ==
    LET pr == PumpPeer(l, p)
    IN /\ link /\ toF = <<>> /\ toL = <<>>
       /\ Transmit(IF ~pr.snap.active /\ pr.next > Len(l.log) THEN SendAppend(l, pr) ELSE pr)
       /\ UNCHANGED <<setup, l, link, toL, f, disk, reclaim, install, behind, used>>

\* CL_FRAME_APPEND_RESP
HandleResp(m) ==
    LET told   == [p EXCEPT !.durable = m.durable]
        pr     == IF m.ok THEN [told EXCEPT !.match = Max({@, m.hint})]
                  ELSE [told EXCEPT !.next = Min({@, m.hint + 1}), !.match = Min({@, m.hint})]
        ld     == IF m.ok THEN AdvanceCommit(l, pr, CommitPoint(l, pr)) ELSE l
        kept   == KeptByReference(pr.snap, l.image, Entries(l, ld.commit))
    IN l' = ld /\ Transmit(PumpPeer(ld, [pr EXCEPT !.snap = kept]))

\* Mutant of HandleAck: the window is not reopened.
HandleAckNoWindow(m) ==
    /\ Transmit(IF ~p.snap.active THEN p
                ELSE IF m.final
                THEN PumpPeer(l, [p EXCEPT !.snap = NoTransfer, !.next = m.base + 1,
                                           !.match = m.base, !.durable = m.base])
                ELSE SnapPump(l, p))
    /\ l' = l

\* CL_FRAME_SNAP_ACK
HandleAck(m) ==
    /\ Transmit(IF ~p.snap.active THEN p
                ELSE IF m.final
                THEN PumpPeer(l, [p EXCEPT !.snap = NoTransfer, !.next = m.base + 1,
                                           !.match = m.base, !.durable = m.base])
                ELSE SnapPump(l, [p EXCEPT !.snap.unacked = Max({0, @ - 1})]))
    /\ l' = l

LeaderReceive ==
    /\ toL # <<>>
    /\ toL' = Tail(toL)
    /\ IF Head(toL).type = "resp" THEN HandleResp(Head(toL)) ELSE HandleAck(Head(toL))
    /\ UNCHANGED <<setup, link, f, disk, reclaim, install, behind, used>>

\* drop_peer_link(): the frames on the way are lost, the transfer is aborted.
Cut ==
    /\ link' = FALSE /\ toF' = <<>> /\ toL' = <<>>
    /\ p' = [p EXCEPT !.snap = NoTransfer]

LinkDown ==
    /\ link
    /\ Spend("linkdown")
    /\ Cut
    /\ install' = FALSE
    /\ flaws' = IF install THEN flaws \cup {"broken"} ELSE flaws
    /\ UNCHANGED <<setup, l, f, disk, reclaim, behind>>

\* peer_on_link_up()
OnLinkUp(pr) ==
    [pr EXCEPT !.next = Len(l.log) + 1, !.match = 0, !.durable = 0, !.snap = NoTransfer]

LinkUp ==
    /\ ~link /\ link' = TRUE
    /\ Transmit(PumpPeer(l, OnLinkUp(p)))
    /\ UNCHANGED <<setup, l, toL, f, disk, reclaim, install, behind, used>>

-----------------------------------------------------------------------------
(* Steps of the peer.                                                      *)

\* log_append() numbers the entries by where they go.
Numbered(entries, from) ==
    [k \in DOMAIN entries |-> [entries[k] EXCEPT !.index = from + k]]

\* CL_FRAME_APPEND that log matching accepts: drop what follows prevLogIndex,
\* append, write, apply what is committed, and answer.
Accept(m) ==
    LET keep == Max({m.prev, f.base}) - f.base
        new  == Numbered(m.entries, f.base + keep)
        lg   == SubSeq(f.log, 1, keep) \o new
        newc == Max({f.commit, Min({m.commit, f.base + Len(lg)})})
        done == Max({f.applied, newc})
    IN /\ f' = [f EXCEPT !.log = lg, !.commit = newc, !.applied = done, !.hint = m.compact,
                        !.image = Applied(@, SubSeq(lg, f.applied - f.base + 1, done - f.base))]
       /\ disk' = [disk EXCEPT !.file = SubSeq(@, 1, disk.off + keep) \o new,
                               !.safe = Min({@, disk.off + keep})]
       /\ Reply(TRUE, f.base + Len(lg), f.durable)

\* CL_FRAME_APPEND.  A peer that is too short answers with its last index, one
\* that holds another entry at prevLogIndex with the index before it.
HandleAppend(m) ==
    IF m.prev > FLast \/ (m.prev > 0 /\ TermAt(m.prev) # m.prevTerm)
    THEN /\ Reply(FALSE, Min({FLast, m.prev - 1}), f.durable)
         /\ UNCHANGED <<f, disk>>
    ELSE Accept(m)

\* CL_FRAME_SNAP_BEGIN: everything is reset to the boundary.
Purged(im) == [im EXCEPT !.ready = [q \in Name |-> <<>>]]
HandleBegin(m) ==
    /\ toL' = toL
    /\ IF FLast >= m.base THEN UNCHANGED <<f, disk>>
       ELSE LET im == Purged(f.image)
            IN /\ f' = [f EXCEPT !.base = m.base, !.baseTerm = m.baseTerm, !.log = <<>>,
                          !.applied = m.base, !.commit = m.base, !.durable = m.base,
                          !.image = IF m.topo = <<>> THEN im
                                    ELSE Replayed([im EXCEPT !.topo = m.topo], m.topo, m.base)]
               /\ disk' = [disk EXCEPT !.file = <<>>, !.off = 0, !.safe = 0]

SnapAck(final) == toL' = Append(toL, [type |-> "ack", final |-> final, base |-> f.base])

\* CL_FRAME_SNAP_CHUNK
HandleChunk(m) ==
    /\ f' = [f EXCEPT !.image = RecordsApplied(@, m.recs)]
    /\ disk' = disk
    /\ SnapAck(FALSE)

\* CL_FRAME_SNAP_END: whether or not snapshot_write() succeeds.
HandleEnd(saved) ==
    /\ f' = f
    /\ disk' = IF saved THEN [disk EXCEPT !.snap = SnapshotOf(f.base, f.baseTerm, 0)] ELSE disk
    /\ SnapAck(TRUE)

\* process_frame() on the peer.
Receive ==
    LET m == Head(toF)
    IN /\ ~reclaim
       /\ toF # <<>> /\ toF' = Tail(toF)
       /\ \/ m.type = "append" /\ HandleAppend(m) /\ UNCHANGED <<install, behind, flaws, used>>
          \/ /\ m.type = "begin" /\ HandleBegin(m)
             /\ install' = (install \/ FLast < m.base)
             /\ UNCHANGED <<behind, flaws, used>>
          \/ m.type = "chunk" /\ HandleChunk(m) /\ UNCHANGED <<install, behind, flaws, used>>
          \/ /\ m.type = "end" /\ HandleEnd(TRUE)
             /\ install' = FALSE /\ behind' = FALSE
             /\ UNCHANGED <<flaws, used>>
          \/ /\ m.type = "end" /\ Spend("snapfail") /\ HandleEnd(FALSE)
             /\ install' = FALSE /\ flaws' = flaws \cup {"unsaved"}
             /\ behind' = behind
       /\ UNCHANGED <<setup, l, p, link, reclaim>>

\* persist_sync(): durable_index, and the file.
Synced(n) == [n EXCEPT !.durable = n.base + Len(n.log)]
Fsynced(file) == [disk EXCEPT !.file = file, !.stable = file, !.safe = Len(file)]

\* fsync_timer_cb(), on a tick without a compaction sweep.
FsyncTimer ==
    /\ ~reclaim
    /\ disk.stable # disk.file \/ disk.safe # Len(disk.file) \/ f.durable # FLast
    /\ f' = Synced(f)
    /\ disk' = Fsynced(disk.file)
    /\ UNCHANGED <<setup, l, p, link, toF, toL, reclaim, install, behind, flaws, used>>

\* The hole persist_compact() punches.
Punched(file, off) == [k \in DOMAIN file |-> IF k <= off THEN Hole ELSE file[k]]

\* Mutant of CompactionSweep: the prefix is reclaimed before the snapshot is
\* written.
ReclaimFirst ==
    LET off == disk.off + (CompactTo - f.base)
    IN /\ ~reclaim
       /\ CompactTo - f.base >= CompactBatch
       /\ f' = Synced(f)
       /\ disk' = Fsynced(Punched(disk.file, off))
       /\ reclaim' = TRUE
       /\ UNCHANGED <<setup, l, p, link, toF, toL, install, behind, flaws, used>>

\* The sweep: log_compact_to() up to the point where the snapshot is renamed.
CompactionSweep ==
    /\ ~reclaim
    /\ CompactTo - f.base >= CompactBatch
    /\ f' = Synced(f)
    /\ disk' = [Fsynced(disk.file) EXCEPT
                            !.snap = SnapshotOf(CompactTo, TermAt(CompactTo),
                                                disk.off + (CompactTo - f.base))]
    /\ reclaim' = TRUE
    /\ UNCHANGED <<setup, l, p, link, toF, toL, install, behind, flaws, used>>

\* The rest of log_compact_to(): the entries in RAM, then persist_compact().
\* Nothing else runs on the loop in between, but the node can crash.
Reclaim ==
    LET s == disk.snap
    IN /\ reclaim
       /\ reclaim' = FALSE
       /\ f' = [f EXCEPT !.base = s.base, !.baseTerm = s.baseTerm,
                         !.log = SubSeq(@, s.base - f.base + 1, Len(@))]
       /\ disk' = [disk EXCEPT !.file = Punched(@, s.off), !.stable = Punched(@, s.off),
                               !.off = s.off]
       /\ UNCHANGED <<setup, l, p, link, toF, toL, install, behind, flaws, used>>

\* Coming back from a log file and a snapshot file.
Restart(file, snap) ==
    /\ f' = Recovered(file, snap)
    /\ disk' = LET now == Trimmed(file, snap)
               IN [file |-> now, stable |-> now, safe |-> Len(now), snap |-> snap,
                   off |-> IF snap = NoSnapshot THEN 0 ELSE snap.off]
    /\ reclaim' = FALSE /\ install' = FALSE
    /\ Cut
    /\ UNCHANGED <<setup, l, flaws>>

\* The peer crashes, possibly with its machine, and is started again.
Crash ==
    /\ Spend("crash")
    /\ \E file \in AfterPowerLoss : Restart(file, disk.snap)
    /\ behind' = (behind \/ install \/ flaws # {} \/ f'.durable < f.durable)

\* It is started again with an empty data directory.
Wipe ==
    /\ Spend("wipe")
    /\ Restart(<<>>, NoSnapshot)
    /\ behind' = TRUE

-----------------------------------------------------------------------------
Next ==
    \/ ProposeOp \/ Advance \/ Heartbeat \/ LeaderReceive \/ LinkDown \/ LinkUp
    \/ \E q \in Name : Deliver(q) \/ ConsumeTimer(q)
    \/ \E c \in InHand : Settle(c) \/ Requeue(c)
    \/ Receive \/ FsyncTimer \/ CompactionSweep \/ Reclaim \/ Crash \/ Wipe

Spec == Init /\ [][Next]_vars

\* The loops of both nodes run, the link is dialled again (schedule_reconnect)
\* and the other peers answer; clients and faults need not happen.
\* LoopsRun is weak fairness of Heartbeat, LeaderReceive, LinkUp, Receive and
\* Reclaim taken together: each of them changes net, one of them can unless the
\* leader waits for an acknowledgement that is not on its way (Quiet), and the
\* other steps that change net are bounded.  PeersAnswer is weak fairness of
\* Advance, which is possible exactly while something is not committed.
net == <<link, toF, toL, reclaim>>
Quiet ==
    /\ link /\ ~reclaim /\ toF = <<>> /\ toL = <<>>
    /\ p.snap.active /\ (p.snap.unacked >= SnapWindow \/ p.snap.endSent)
LoopsRun == []<>Quiet \/ []<><<TRUE>>_net
PeersAnswer == []<>(l.commit = Len(l.log))

FairSpec == Spec /\ LoopsRun /\ PeersAnswer

-----------------------------------------------------------------------------
(* Properties.                                                             *)

\* What the first n operations of the log make.
Meaning(n) == Applied(NoImage, SubSeq(l.log, 1, n))

\* The broker and the authstore of an image.
State(im) == [declared |-> im.declared, ready |-> im.ready, auth |-> im.auth]

\* The messages the leader still has.
Unsettled == LiveIds(l.image) \cup l.unacked

\* An operation of the log is undone later and then repeated.
Undoes(b, a) ==
    \/ {a.kind, b.kind} \in {{"declare", "delete"}, {"add", "drop"}} /\ a.on = b.on
    \/ a = Op("add", "perm") /\ b = Op("drop", "vhost")
Repeated ==
    \E i, j, k \in DOMAIN l.log :
        /\ i < j /\ j < k
        /\ l.log[i].op = l.log[k].op /\ Undoes(l.log[j].op, l.log[i].op)

\* A message is published to a queue that is only declared later.
Early ==
    \E i, j \in DOMAIN l.log :
        /\ i < j
        /\ l.log[i].op.kind = "publish" /\ l.log[j].op = Op("declare", l.log[i].op.on)
        /\ l.log[i].op.on \notin Meaning(i).declared

Sound == flaws = {} /\ ~Repeated /\ ~Early

\* The messages the leader counts as replicated to the peer and no consumer has
\* settled are in the peer's queues, or in its log and still to be applied.
HoldsMatched ==
    LET held == LiveIds(f.image)
    IN \A c \in Unsettled : c <= p.match => c > f.applied \/ c \in held

\* As long as the link is up, a message that is live and below the peer's
\* match_index (APPEND_RESP, final SNAP_ACK) is not lost on the peer, whether
\* it got there through the log, a state transfer or its own disk.
MatchedHoldsLive == link /\ Sound => HoldsMatched

\* "a broken transfer restarts from scratch" (peer_on_link_up): a link lost
\* between SNAP_BEGIN and SNAP_END costs the peer no message either.
BrokenTransferRestarts == link /\ flaws \subseteq {"broken"} /\ ~Repeated /\ ~Early => HoldsMatched

\* "live queue contents + tail replay IS the full state": also while consumers
\* on the leader hold messages that they have not acknowledged.
DumpIsTheFullState == link /\ flaws \subseteq {"moved"} /\ ~Repeated /\ ~Early => HoldsMatched

\* A peer that has applied everything the leader has applied holds exactly what
\* the log says: the same queues, virtual hosts and permissions, and in every
\* queue the live messages once each, in the order of the log.  Only a message
\* that is settled, and the watermark saying so not yet replicated, may be
\* missing (a transfer leaves it out).
CaughtUpIsSame ==
    ~install /\ f.applied = l.commit /\ Sound =>
        LET log      == Meaning(l.commit)
            settling == LiveIds(log) \ Unsettled
            Rest(im) == [q \in Name |-> SelectSeq(im.ready[q], LAMBDA c : c \notin settling)]
        IN /\ f.image.declared = log.declared /\ f.image.auth = log.auth
           /\ Rest(f.image) = Rest(log)

\* The last entry that is fsynced: durable_index, but for entries that a resend has
\* truncated and written again since (AppendEntries keeps durable_index then).
OnDisk == Min({f.durable, f.base + disk.safe - disk.off})

\* What persist_load() makes of a log file: nothing that is fsynced is missing, and
\* replaying the log as far as the node had applied it gives the queues, virtual
\* hosts and permissions it had.
Recovers(file) ==
    LET n == Recovered(file, disk.snap)
    IN /\ n.durable >= OnDisk
       /\ f.applied <= n.durable =>
            State(Applied(n.image, SubSeq(n.log, 1, f.applied - n.base))) = State(f.image)

\* A crash or a power loss at any moment, also between the rename of the
\* snapshot and the reclaiming of the prefix (log_compact_to) and after a state
\* transfer whose snapshot was saved (SNAP_END), loses nothing of the node's state
\* that was fsynced.
RecoversSame == ~install /\ Sound => \A file \in AfterPowerLoss : Recovers(file)

\* "durable_index" is what a node reports as fsynced (send_append_resp): a power
\* loss takes none of it.
ReportedSurvives ==
    ~install /\ Sound => \A file \in AfterPowerLoss : Recovered(file, disk.snap).durable >= f.durable

\* A state transfer is acknowledged when its snapshot is on disk: the node can
\* lose power then, also when writing it has failed (SNAP_END).
FailedSaveRecovers ==
    ~install /\ flaws \subseteq {"unsaved"} /\ ~Repeated /\ ~Early =>
        \A file \in AfterPowerLoss : Recovers(file)

\* "Topology AND access-control config must survive log compaction" (apply_op),
\* however often an object is declared and deleted.
ConfigSurvives == ~install /\ flaws = {} /\ ~Early => \A file \in AfterPowerLoss : Recovers(file)

\* The snapshot's topology "rebuild[s] the queues/exchanges that the dropped
\* prefix had declared, so the tail's publishes route correctly"
\* (persist_load): also those that no queue took when they were first applied.
TailRoutesTheSame ==
    ~install /\ flaws = {} /\ ~Repeated => \A file \in AfterPowerLoss : Recovers(file)

\* "the policy is fixed at declare time, same as the origin node" (apply_op):
\* no queue comes back without its arguments.
PolicySurvives ==
    ~install /\ Sound => Recovered(disk.file, disk.snap).image.bare \subseteq f.image.bare

\* "never rewinds into the compacted region" (CL_FRAME_APPEND): a rejected
\* AppendEntries leaves next_index above the compaction point.
RewindStaysAbove == [][p'.next < p.next => behind \/ p'.next > l.compacted]_vars

CaughtUp ==
    /\ link /\ ~p.snap.active
    /\ p.match = Len(l.log) /\ f.applied = Len(l.log)

\* Whatever happens to the link and to the peer, down to the loss of its disk,
\* it ends up with the whole log applied and the leader knowing it.
CatchesUp == "diverged" \notin flaws => []<>CaughtUp

=============================================================================
