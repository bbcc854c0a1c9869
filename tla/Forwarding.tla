----------------------------- MODULE Forwarding -----------------------------
(***************************************************************************)
(* How an operation submitted on any node reaches the leader's log and how *)
(* the submitter learns that it is committed (src/src/cluster.c): the      *)
(* proposal inbox, FORWARD frames with sequence numbers, their             *)
(* retransmission, cumulative FORWARD_ACKs and the status table.           *)
(*                                                                         *)
(* The consensus below is reduced to what module Raft guarantees: logs     *)
(* with terms, elections by up-to-date logs, replication of the leader's   *)
(* whole log and commitment by a majority are single steps.  A FORWARD     *)
(* frame carries one operation (the code batches as many as fit).  The     *)
(* status ring is larger than the number of operations in flight.          *)
(***************************************************************************)
EXTENDS Integers, Sequences, FiniteSets

CONSTANTS
    Node, Nil,
    FirstLeader,   \* the node that leads at the beginning
    InboxHigh, InboxLow,  \* CL_INBOX_HIGH, CL_INBOX_LOW
    Scenarios,     \* the circumstances to explore, see Scenario
    MaxOps         \* bound: operations submitted

Events == {"op", "reset", "fail", "sweep", "election", "restart", "nomem", "storage"}

\* Where clients submit, on how many threads at a time, and how often things
\* happen.
Scenario == [at : SUBSET Node, threads : Nat, may : [Events -> 0..MaxOps]]

ASSUME ForwardingAssumption ==
    /\ IsFiniteSet(Node) /\ FirstLeader \in Node /\ Nil \notin Node
    /\ {InboxHigh, InboxLow, MaxOps} \subseteq Nat /\ InboxLow <= InboxHigh + 1
    /\ Scenarios \subseteq Scenario

VARIABLES
    setup,        \* fixed: one of Scenarios
    happened,     \* how often each event has happened
    \* consensus, per node
    term,         \* current_term
    leading,      \* role == CL_ROLE_LEADER
    leaderId,     \* leader_id
    log, commit,  \* what is committed is applied
    link,         \* <<i, j>>: i's end of the connection with j is up
    chan,         \* chan[i][j]: frames from i not yet read by j
    \* submission and forwarding, per node
    seqs,         \* the operations submitted since the node started, by seq
    drawn,        \* proposals with a seq that are not in the inbox yet
    inbox, depth, congested,
    due,          \* callbacks of propose_async and fwd_retry_timer to come
    fwdPending,   \* sent to a leader and not acknowledged
    fwdAcked,     \* fwd_acked_seq and fwd_acked_index
    fwdMarked,    \* fwd_marked_seq
    done,         \* the seqs whose status is CL_PROPOSAL_COMMITTED
    \* the leader's side, per node
    ackPending,   \* appended and to be acknowledged: [index, origin, seq]
    committedFwd  \* committed_fwd_seq and committed_fwd_index, per origin

raftVars == <<term, leading, leaderId, log, commit>>
inboxVars == <<inbox, depth, congested, due>>
statusVars == <<fwdAcked, fwdMarked, done>>
leaderVars == <<ackPending, committedFwd>>
vars == <<setup, happened, raftVars, link, chan, seqs, drawn, inboxVars, fwdPending,
          statusVars, leaderVars>>

NoOp == 0

Proposal == [op : 1..MaxOps, seq : Nat]
Acked == [seq : Nat, index : Nat]
Nothing == [seq |-> 0, index |-> 0]

Frame == [type : {"FORWARD"}, p : Proposal] \cup [type : {"FORWARD_ACK"}, upto : Acked]

Greater(a, b) == IF a > b THEN a ELSE b
Furthest(a, b) == [seq |-> Greater(a.seq, b.seq), index |-> Greater(a.index, b.index)]
IsMajority(S) == 2 * Cardinality(S) > Cardinality(Node)
LastTerm(lg) == IF lg = <<>> THEN 0 ELSE lg[Len(lg)].term

\* The events in E happen now, if the scenario has them.
Spend(E) ==
    /\ \A e \in E : happened[e] < setup.may[e]
    /\ happened' = [e \in Events |-> happened[e] + (IF e \in E THEN 1 ELSE 0)]

-----------------------------------------------------------------------------
Init ==
    /\ setup \in Scenarios
    /\ happened = [e \in Events |-> 0]
    /\ term = [i \in Node |-> 1]
    /\ leading = [i \in Node |-> i = FirstLeader]
    /\ leaderId = [i \in Node |-> FirstLeader]
    /\ log = [i \in Node |-> <<>>] /\ commit = [i \in Node |-> 0]
    /\ link = Node \X Node
    /\ chan = [i \in Node |-> [j \in Node |-> <<>>]]
    /\ seqs = [i \in Node |-> <<>>] /\ drawn = [i \in Node |-> {}]
    /\ inbox = [i \in Node |-> <<>>] /\ depth = [i \in Node |-> 0]
    /\ congested = [i \in Node |-> FALSE] /\ due = [i \in Node |-> {}]
    /\ fwdPending = [i \in Node |-> <<>>]
    /\ fwdAcked = [i \in Node |-> Nothing] /\ fwdMarked = [i \in Node |-> 0]
    /\ done = [i \in Node |-> {}]
    /\ ackPending = [i \in Node |-> <<>>]
    /\ committedFwd = [i \in Node |-> [j \in Node |-> Nothing]]

-----------------------------------------------------------------------------
(* Submission, on any thread.                                              *)

\* propose_internal(), first half: backpressure and the sequence number.
Draw(i) ==
    /\ i \in setup.at /\ Cardinality(drawn[i]) < setup.threads
    /\ Spend({"op"})
    /\ congested' = [congested EXCEPT ![i] = @ \/ depth[i] > InboxHigh]
    /\ seqs' = [seqs EXCEPT ![i] = Append(@, happened'["op"])]
    /\ drawn' = [drawn EXCEPT ![i] =
                    @ \cup {[op |-> happened'["op"], seq |-> Len(seqs'[i])]}]
    /\ UNCHANGED <<setup, raftVars, link, chan, inbox, depth, due, fwdPending, statusVars,
                   leaderVars>>

\* propose_internal(), second half: into the inbox, and wake the loop.
Submit(i, p) ==
    /\ drawn' = [drawn EXCEPT ![i] = @ \ {p}]
    /\ inbox' = [inbox EXCEPT ![i] = Append(@, p)]
    /\ depth' = [depth EXCEPT ![i] = @ + 1]
    /\ due' = [due EXCEPT ![i] = @ \cup {"async"}]
    /\ UNCHANGED <<setup, happened, raftVars, link, chan, seqs, congested, fwdPending,
                   statusVars, leaderVars>>

-----------------------------------------------------------------------------
(* The inbox and the way to the leader.                                    *)

\* Whether node i can write to its leader over the connections lk.
LeaderReachable(i, lk) == leaderId[i] \in Node \ {i} /\ <<i, leaderId[i]>> \in lk

\* Mutant of Unconfirmed: what was written to the socket is forgotten.
UnconfirmedForgotten(pending, list, n) == pending

\* fwd_pending_append(): the first n are sent and not confirmed committed.
Unconfirmed(pending, list, n) == pending \o SubSeq(list, 1, n)

RequeuedLast(list, n, rest) == rest \o SubSeq(list, n + 1, Len(list))

\* requeue_proposals(): the rest of the batch is back at the head of the inbox.
Requeued(list, n, rest) == SubSeq(list, n + 1, Len(list)) \o rest

\* The retry timer is started if something is left.
RetryLater(d, list, n) == IF n < Len(list) THEN d \cup {"retry"} ELSE d

\* forward_batch_to_leader() with list in hand: all of it goes out, or a write
\* fails on the way, or no leader is reachable.  rest is the inbox, pending is
\* fwd_pending, d the callbacks to come, lk the connections and E the events
\* that led here.
ForwardBatch(i, list, rest, pending, d, lk, E) ==
    \E n \in 0..Len(list) :
        /\ \/ n = Len(list) /\ (list = <<>> \/ LeaderReachable(i, lk)) /\ Spend(E)
           \/ n < Len(list) /\ LeaderReachable(i, lk) /\ Spend(E \cup {"fail"})
           \/ n = 0 /\ list # <<>> /\ ~LeaderReachable(i, lk) /\ Spend(E)
        /\ chan' = IF n = 0 THEN chan
                   ELSE [chan EXCEPT ![i][leaderId[i]] =
                            @ \o [k \in 1..n |-> [type |-> "FORWARD", p |-> list[k]]]]
        /\ fwdPending' = [fwdPending EXCEPT ![i] = Unconfirmed(pending, list, n)]
        /\ inbox' = [inbox EXCEPT ![i] = Requeued(list, n, rest)]
        /\ due' = [due EXCEPT ![i] = RetryLater(d, list, n)]
        /\ depth' = [depth EXCEPT ![i] = @ - n]
        /\ congested' = [congested EXCEPT ![i] = @ /\ depth'[i] >= InboxLow]

\* leader_append() and push_fwd_ack_pending() for proposals from one node, if
\* log_append() succeeds for each.
LeaderAppend(i, origin, list) ==
    /\ log' = [log EXCEPT ![i] =
                @ \o [k \in DOMAIN list |-> [term |-> term[i], op |-> list[k].op]]]
    /\ ackPending' = [ackPending EXCEPT ![i] =
                @ \o [k \in DOMAIN list |->
                        [index |-> Len(log[i]) + k, origin |-> origin, seq |-> list[k].seq]]]

\* log_append() fails: there is no memory for the entry, or the entry cannot be
\* persisted and storage_write_failed() ends the leadership.  That such a node no
\* longer advances its durable index is in Raft.
AppendFails(i) ==
    \/ Spend({"nomem"}) /\ UNCHANGED <<leading, leaderId>>
    \/ /\ Spend({"storage"})
       /\ leading' = [leading EXCEPT ![i] = FALSE]
       /\ leaderId' = [leaderId EXCEPT ![i] = Nil]

\* drain_inbox(): the callback of propose_async or of fwd_retry_timer, when
\* nothing fails that is to be appended.
DrainInbox(i, e) ==
    /\ e \in due[i]
    /\ IF leading[i]
       THEN /\ LeaderAppend(i, i, inbox[i])
            /\ inbox' = [inbox EXCEPT ![i] = <<>>]
            /\ due' = [due EXCEPT ![i] = @ \ {e}]
            /\ depth' = [depth EXCEPT ![i] = @ - Len(inbox[i])]
            /\ congested' = [congested EXCEPT ![i] = @ /\ depth'[i] >= InboxLow]
            /\ UNCHANGED <<happened, chan, fwdPending>>
       ELSE /\ ForwardBatch(i, inbox[i], <<>>, fwdPending[i], due[i] \ {e}, link, {})
            /\ UNCHANGED <<log, ackPending>>
    /\ UNCHANGED <<setup, term, leading, leaderId, commit, link, seqs, drawn, statusVars,
                   committedFwd>>

\* drain_inbox() of a leader that fails to append its k-th proposal, which is freed
\* all the same.  If leadership is lost with it, the rest is proposed again under
\* new numbers.
DrainFails(i, e, k) ==
    LET list  == inbox[i]
        after == SubSeq(list, k + 1, Len(list))
        again == IF leading'[i] THEN <<>> ELSE after
    IN /\ e \in due[i] /\ leading[i]
       /\ AppendFails(i)
       /\ LeaderAppend(i, i, SubSeq(list, 1, k - 1) \o (IF leading'[i] THEN after ELSE <<>>))
       /\ seqs' = [seqs EXCEPT ![i] = @ \o [m \in DOMAIN again |-> again[m].op]]
       /\ inbox' = [inbox EXCEPT ![i] =
            [m \in DOMAIN again |-> [op |-> again[m].op, seq |-> Len(seqs[i]) + m]]]
       /\ due' = [due EXCEPT ![i] = (@ \ {e}) \cup (IF again = <<>> THEN {} ELSE {"async"})]
       /\ depth' = [depth EXCEPT ![i] = @ - Len(list) + Len(again)]
       /\ congested' = [congested EXCEPT ![i] =
            (@ \/ (again # <<>> /\ depth[i] - k > InboxHigh)) /\ depth'[i] >= InboxLow]
       /\ UNCHANGED <<setup, term, commit, link, chan, drawn, fwdPending, statusVars,
                      committedFwd>>

\* fsync_timer_cb(), every 3 s: retransmit what is not acknowledged.
Sweep(i) ==
    /\ fwdPending[i] # <<>>
    /\ ForwardBatch(i, fwdPending[i], inbox[i], <<>>, due[i], link, {"sweep"})
    /\ UNCHANGED <<setup, raftVars, link, seqs, drawn, statusVars, leaderVars>>

-----------------------------------------------------------------------------
(* Frames.                                                                 *)

\* Node i has a frame of this type to read from j.
Arrived(i, j, type) ==
    <<i, j>> \in link /\ chan[j][i] # <<>> /\ Head(chan[j][i]).type = type

Read(i, j) == [chan EXCEPT ![j][i] = Tail(@)]

\* Mutant of AlreadyCommitted: the newest one counts as new.
AlreadyCommittedBelow(i, j, p) == p.seq < committedFwd[i][j].seq

AlreadyCommitted(i, j, p) == p.seq <= committedFwd[i][j].seq

\* cl_dispatch(CL_FRAME_FORWARD) at i from j: append, or chase the leader.
ReceiveForward(i, j) ==
    /\ Arrived(i, j, "FORWARD")
    /\ LET p == Head(chan[j][i]).p IN
       \/ /\ AlreadyCommitted(i, j, p)
          /\ UNCHANGED <<seqs, inboxVars, log, ackPending>>
       \/ /\ ~AlreadyCommitted(i, j, p) /\ leading[i]
          /\ LeaderAppend(i, j, <<p>>)
          /\ UNCHANGED <<seqs, inboxVars>>
       \/ /\ ~AlreadyCommitted(i, j, p) /\ ~leading[i]
          /\ congested' = [congested EXCEPT ![i] = @ \/ depth[i] > InboxHigh]
          /\ seqs' = [seqs EXCEPT ![i] = Append(@, p.op)]
          /\ inbox' = [inbox EXCEPT ![i] = Append(@, [p EXCEPT !.seq = Len(seqs'[i])])]
          /\ depth' = [depth EXCEPT ![i] = @ + 1]
          /\ due' = [due EXCEPT ![i] = @ \cup {"async"}]
          /\ UNCHANGED <<log, ackPending>>
    /\ chan' = Read(i, j)
    /\ UNCHANGED <<setup, happened, term, leading, leaderId, commit, link, drawn, fwdPending,
                   statusVars, committedFwd>>

\* The same at a leader that fails to append.  Whether it leads is asked once per
\* frame of the code, so what follows in the frame is skipped if leadership is lost.
ReceiveForwardFails(i, j, n) ==
    /\ Arrived(i, j, "FORWARD") /\ leading[i]
    /\ ~AlreadyCommitted(i, j, Head(chan[j][i]).p)
    /\ \A k \in 1..n : chan[j][i][k].type = "FORWARD"
    /\ AppendFails(i)
    /\ n > 1 => ~leading'[i]
    /\ chan' = [chan EXCEPT ![j][i] = SubSeq(@, n + 1, Len(@))]
    /\ UNCHANGED <<setup, term, log, commit, link, seqs, drawn, inboxVars, fwdPending,
                   statusVars, leaderVars>>

\* Mutant of Resolved: as soon as the leader has acknowledged.
ResolvedEarly(i, applied, k) == fwdMarked[i] + 1 .. k.seq

\* resolve_local_fwd_acks(): the seqs that node i, having applied this much and
\* knowing of the acknowledgement k, reports as committed.
Resolved(i, applied, k) == IF applied < k.index THEN {} ELSE fwdMarked[i] + 1 .. k.seq

MarkResolved(i, applied, k, others) ==
    /\ done' = [done EXCEPT ![i] = @ \cup Resolved(i, applied, k) \cup others]
    /\ fwdMarked' = [fwdMarked EXCEPT ![i] = IF Resolved(i, applied, k) = {} THEN @ ELSE k.seq]

\* What a walk over the list leaves in it: the proposals after seq, in order.
Newer(list, seq) ==
    LET keep == {k \in DOMAIN list : list[k].seq > seq}
        at == CHOOSE at \in UNION {[1..n -> keep] : n \in 0..Len(list)} :
                /\ keep = {at[k] : k \in DOMAIN at}
                /\ \A k, m \in DOMAIN at : k < m => at[k] < at[m]
    IN  [k \in DOMAIN at |-> list[at[k]]]

\* cl_dispatch(CL_FRAME_FORWARD_ACK) at i from j.
ReceiveAck(i, j) ==
    /\ Arrived(i, j, "FORWARD_ACK")
    /\ LET upto == Head(chan[j][i]).upto
       IN  /\ fwdAcked' = [fwdAcked EXCEPT ![i] = Furthest(@, upto)]
           /\ fwdPending' = [fwdPending EXCEPT ![i] = Newer(@, upto.seq)]
    /\ MarkResolved(i, commit[i], fwdAcked'[i], {})
    /\ chan' = Read(i, j)
    /\ UNCHANGED <<setup, happened, raftVars, link, seqs, drawn, inboxVars, leaderVars>>

-----------------------------------------------------------------------------
(* Connections.                                                            *)

\* A connection breaks: what is in flight is lost (drop_peer_link()).
LinkDown(i, j) ==
    /\ i # j /\ <<i, j>> \in link
    /\ Spend({"reset"})
    /\ link' = link \ {<<i, j>>, <<j, i>>}
    /\ chan' = [chan EXCEPT ![i][j] = <<>>, ![j][i] = <<>>]
    /\ UNCHANGED <<setup, raftVars, seqs, drawn, inboxVars, fwdPending, statusVars,
                   leaderVars>>

\* peer_on_link_up(): it is back, and i retransmits if j is its leader.
LinkUp(i, j) ==
    /\ i # j /\ <<i, j>> \notin link
    /\ link' = link \cup {<<i, j>>}
    /\ IF leaderId[i] = j /\ fwdPending[i] # <<>>
       THEN ForwardBatch(i, fwdPending[i], inbox[i], <<>>, due[i], link', {})
       ELSE UNCHANGED <<happened, chan, inboxVars, fwdPending>>
    /\ UNCHANGED <<setup, raftVars, seqs, drawn, statusVars, leaderVars>>

-----------------------------------------------------------------------------
(* Consensus, as far as forwarding depends on it.                          *)

Newest(l) == leading[l] /\ \A k \in Node : term[k] <= term[l]

\* AppendEntries: j follows l and takes over its log and its commit index.
Replicate(l, j) ==
    /\ Newest(l) /\ j # l /\ {<<l, j>>, <<j, l>>} \subseteq link
    /\ term' = [term EXCEPT ![j] = term[l]]
    /\ leading' = [leading EXCEPT ![j] = FALSE]
    /\ leaderId' = [leaderId EXCEPT ![j] = l]
    /\ log' = [log EXCEPT ![j] = log[l]]
    /\ commit' = [commit EXCEPT ![j] = commit[l]]
    /\ MarkResolved(j, commit[l], fwdAcked[j], {})
    /\ UNCHANGED <<setup, happened, link, chan, seqs, drawn, inboxVars, fwdPending, fwdAcked,
                   leaderVars>>

HasEntry(k, n, e) == n \in DOMAIN log[k] /\ log[k][n] = e

\* The entries of ackPending that a commit up to n releases: from the head,
\* while they are committed.
Released(l, n) ==
    {m \in DOMAIN ackPending[l] : \A k \in 1..m : ackPending[l][k].index <= n}

\* Where the list begins once the entries R at its head are gone.
HeadAfter(list, R) == CHOOSE m \in 1..(Len(list) + 1) : R = 1..(m - 1)

\* What the released entries in R say about origin j: its highest seq and the
\* first index of that.
Bump(l, R, j) ==
    LET mine == {m \in R : ackPending[l][m].origin = j}
        top == {m \in mine : \A k \in mine : ackPending[l][k].seq <= ackPending[l][m].seq}
        m == CHOOSE m \in top : \A k \in top : m <= k
    IN  IF mine = {} THEN Nothing
        ELSE [seq |-> ackPending[l][m].seq, index |-> ackPending[l][m].index]

\* advance_commit() with resolve_fwd_acks(): a majority holds the leader's log
\* up to n.
AdvanceCommit(l, n) ==
    /\ Newest(l) /\ n > commit[l]
    /\ log[l][n].term = term[l]
    /\ IsMajority({k \in Node : HasEntry(k, n, log[l][n])})
    /\ commit' = [commit EXCEPT ![l] = n]
    /\ LET R == Released(l, n)
           own == {ackPending[l][m].seq : m \in {k \in R : ackPending[l][k].origin = l}}
           told == {j \in Node \ {l} : Bump(l, R, j) # Nothing}
       IN  /\ ackPending' = [ackPending EXCEPT ![l] = SubSeq(@, HeadAfter(@, R), Len(@))]
           /\ committedFwd' = [committedFwd EXCEPT ![l] =
                [j \in Node |-> IF j \in told THEN Furthest(@[j], Bump(l, R, j)) ELSE @[j]]]
           /\ chan' = [chan EXCEPT ![l] =
                [j \in Node |-> IF j \in told /\ <<l, j>> \in link
                               THEN Append(@[j], [type |-> "FORWARD_ACK",
                                                  upto |-> committedFwd'[l][j]])
                               ELSE @[j]]]
           /\ MarkResolved(l, n, fwdAcked[l], own)
    /\ UNCHANGED <<setup, happened, term, leading, leaderId, log, link, seqs, drawn,
                   inboxVars, fwdPending, fwdAcked>>

\* log_is_current(): v may vote for i.
MayVote(v, i) ==
    \/ LastTerm(log[i]) > LastTerm(log[v])
    \/ LastTerm(log[i]) = LastTerm(log[v]) /\ Len(log[i]) >= Len(log[v])

\* become_leader(): i is elected by V.  The deposed leader learns of it with its
\* vote or when it hears from the new one.
Elect(i, V) ==
    /\ ~leading[i] /\ i \in V /\ IsMajority(V)
    /\ \A v \in V : MayVote(v, i)
    /\ Spend({"election"})
    /\ \E t \in {term[k] + 1 : k \in Node} :
        /\ \A k \in Node : term[k] < t
        /\ term' = [k \in Node |-> IF k \in V THEN t ELSE term[k]]
        /\ log' = [log EXCEPT ![i] = Append(@, [term |-> t, op |-> NoOp])]
    /\ leading' = [k \in Node |-> k = i \/ (leading[k] /\ k \notin V)]
    /\ leaderId' = [k \in Node |-> IF k = i THEN i ELSE IF k \in V THEN Nil ELSE leaderId[k]]
    /\ UNCHANGED <<setup, commit, link, chan, seqs, drawn, inboxVars, fwdPending, statusVars,
                   leaderVars>>

\* A follower's process restarts: everything but the log is gone
\* (cluster_node_new()).
Restart(i) ==
    /\ ~leading[i]
    /\ Spend({"restart"})
    /\ leaderId' = [leaderId EXCEPT ![i] = Nil]
    /\ commit' = [commit EXCEPT ![i] = 0]
    /\ link' = {c \in link : c[1] # i /\ c[2] # i} \cup {<<i, i>>}
    /\ chan' = [k \in Node |-> [j \in Node |-> IF i \in {j, k} THEN <<>> ELSE chan[k][j]]]
    /\ seqs' = [seqs EXCEPT ![i] = <<>>] /\ drawn' = [drawn EXCEPT ![i] = {}]
    /\ inbox' = [inbox EXCEPT ![i] = <<>>] /\ depth' = [depth EXCEPT ![i] = 0]
    /\ congested' = [congested EXCEPT ![i] = FALSE] /\ due' = [due EXCEPT ![i] = {}]
    /\ fwdPending' = [fwdPending EXCEPT ![i] = <<>>]
    /\ fwdAcked' = [fwdAcked EXCEPT ![i] = Nothing]
    /\ fwdMarked' = [fwdMarked EXCEPT ![i] = 0]
    /\ done' = [done EXCEPT ![i] = {}]
    /\ ackPending' = [ackPending EXCEPT ![i] = <<>>]
    /\ committedFwd' = [committedFwd EXCEPT ![i] = [j \in Node |-> Nothing]]
    /\ UNCHANGED <<setup, term, leading, log>>

-----------------------------------------------------------------------------
Next ==
    \/ \E i \in Node :
        \/ Draw(i)
        \/ \E p \in drawn[i] : Submit(i, p)
        \/ \E e \in {"async", "retry"} : DrainInbox(i, e)
        \/ \E e \in {"async", "retry"} : \E k \in DOMAIN inbox[i] : DrainFails(i, e, k)
        \/ Sweep(i)
        \/ \E n \in DOMAIN log[i] : AdvanceCommit(i, n)
        \/ \E V \in SUBSET Node : Elect(i, V)
        \/ Restart(i)
    \/ \E i, j \in Node :
        \/ ReceiveForward(i, j)
        \/ \E n \in DOMAIN chan[j][i] : ReceiveForwardFails(i, j, n)
        \/ ReceiveAck(i, j)
        \/ LinkDown(i, j)
        \/ LinkUp(i, j)
        \/ Replicate(i, j)

Spec == Init /\ [][Next]_vars

\* A thread that drew a seq goes on; callbacks run, connections are dialled
\* again, frames arrive and a leader replicates and commits.
Fairness ==
    /\ \A i \in Node :
        /\ WF_vars(\E p \in drawn[i] : Submit(i, p))
        /\ \A e \in {"async", "retry"} : WF_vars(DrainInbox(i, e))
        /\ WF_vars(\E n \in DOMAIN log[i] : AdvanceCommit(i, n))
    /\ \A i, j \in Node :
        /\ WF_vars(ReceiveForward(i, j)) /\ WF_vars(ReceiveAck(i, j))
        /\ WF_vars(LinkUp(i, j)) /\ WF_vars(Replicate(i, j))

FairSpec == Spec /\ Fairness

-----------------------------------------------------------------------------
(* Properties.                                                             *)

LogEntry == [term : Nat, op : 0..MaxOps]

TypeOK ==
    /\ setup \in Scenarios
    /\ happened \in [Events -> 0..MaxOps]
    /\ term \in [Node -> Nat] /\ leading \in [Node -> BOOLEAN]
    /\ leaderId \in [Node -> Node \cup {Nil}]
    /\ \A i \in Node :
        /\ log[i] \in Seq(LogEntry) /\ commit[i] \in 0..Len(log[i])
        /\ \A j \in Node : chan[i][j] \in Seq(Frame)
        /\ seqs[i] \in Seq(1..MaxOps)
        /\ drawn[i] \subseteq Proposal
        /\ inbox[i] \in Seq(Proposal) /\ fwdPending[i] \in Seq(Proposal)
        /\ fwdMarked[i] <= fwdAcked[i].seq
        /\ done[i] \subseteq Nat
        /\ ackPending[i] \in Seq([index : Nat, origin : Node, seq : Nat])
    /\ link \subseteq Node \X Node
    /\ depth \in [Node -> Int] /\ congested \in [Node -> BOOLEAN]
    /\ due \in [Node -> SUBSET {"async", "retry"}]
    /\ fwdAcked \in [Node -> Acked]
    /\ committedFwd \in [Node -> [Node -> Acked]]

AppliedAt(i) == {log[i][n].op : n \in 1..commit[i]}
Confirmed(i) == {seqs[i][s] : s \in done[i] \cap DOMAIN seqs[i]}

\* One leader all along that could append whatever it had to, no node restarted,
\* and no node submits on two threads.
Steady ==
    /\ happened["election"] = 0 /\ happened["restart"] = 0
    /\ happened["nomem"] = 0 /\ happened["storage"] = 0
    /\ setup.threads = 1

\* An operation reported as committed has been applied where it was submitted,
\* so that the client's next command finds its effect, however often frames
\* were lost and sent again (resolve_fwd_acks(), resolve_local_fwd_acks()).
ConfirmedIsApplied ==
    Steady => \A i \in Node : Confirmed(i) \subseteq AppliedAt(i)

\* Under whatever circumstances, what is reported as committed is committed.
ConfirmedIsAlwaysCommitted ==
    \A i \in Node : Confirmed(i) \subseteq UNION {AppliedAt(k) : k \in Node}

\* Operations enter the log in the order in which their node submitted them:
\* none is there before an earlier one (requeue_proposals(), peer_on_link_up()).
SubmissionOrder ==
    Steady =>
        \A i, k \in Node : \A t \in DOMAIN seqs[i] : \A s \in 1..(t - 1) :
            \A n \in DOMAIN log[k] :
                log[k][n].op = seqs[i][t] => \E m \in 1..n : log[k][m].op = seqs[i][s]

\* It is, whatever happens.
DepthAlwaysCountsInbox == \A i \in Node : depth[i] = Len(inbox[i])

\* A retransmitted operation that is committed is not appended again
\* (cl_dispatch(CL_FRAME_FORWARD)).
CommittedNotReappended ==
    [][Steady' => \A i \in Node : leading[i] =>
        \A n \in DOMAIN log'[i] \ DOMAIN log[i] : log'[i][n].op \notin AppliedAt(i)]_vars

\* "Always accept and buffer: proposals are never dropped" (propose_internal()):
\* without elections and restarts, what was submitted is still to be sent, or to be
\* sent again, or in a log.
NeverDropped ==
    happened["election"] = 0 /\ happened["restart"] = 0 =>
        \A op \in 1..happened["op"] : \E i \in Node :
            \/ \E p \in drawn[i] : p.op = op
            \/ \E list \in {inbox[i], fwdPending[i], log[i]} :
                \E k \in DOMAIN list : list[k].op = op

\* Under one leader every operation submitted is committed in the end, however
\* often connections break (fwd_pending, fwd_retry_timer).
ProposalsCommit ==
    Steady ~> (~Steady \/ 1..happened["op"] \subseteq UNION {AppliedAt(k) : k \in Node})

=============================================================================
