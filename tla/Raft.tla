-------------------------------- MODULE Raft --------------------------------
(***************************************************************************)
(* The consensus core of src/src/cluster.c: leader election with PreVote,  *)
(* log replication by AppendEntries, commitment, and the persistence of    *)
(* term, vote and log that a restart recovers from.  One action models one *)
(* callback of the cluster loop (a timer or one received frame) together   *)
(* with everything that callback does before it returns.                   *)
(*                                                                         *)
(* Abstractions.  A peer connection is one FIFO channel per direction; a   *)
(* broken and re-dialled connection loses what was in flight (LinkReset).  *)
(* Real time is a free choice: a timer may fire whenever it is armed, and  *)
(* a PreVote may or may not fall inside the leader-contact window.  The    *)
(* sliding window CL_WINDOW_ENTRIES is larger than any modelled log.  Log  *)
(* compaction and state transfer are not part of this module, and neither  *)
(* is a one-node cluster, which elects itself within one callback.         *)
(***************************************************************************)
EXTENDS Integers, Sequences, FiniteSets

CONSTANTS
    Node,          \* the members of the static cluster map
    Value,         \* client operations (declares, publishes, acks, ...)
    Nil,           \* "no node": voted_for = -1, leader_id = -1
    MaxBatch,      \* CL_MAX_APPEND_ENTRIES
    MaxTerm,       \* bound: no election is started beyond this term
    MaxLog,        \* bound: clients propose while the leader's log is shorter
    MaxTimeouts,   \* bound: election timeouts
    MaxBeats,      \* bound: heartbeat rounds
    MaxSyncs,      \* bound: fsync timer callbacks
    MaxResets,     \* bound: connections broken and re-dialled
    MaxCrashes,    \* bound: power losses followed by a restart
    MaxFaults      \* bound: failing write/fsync calls

ASSUME NodeAssumption == IsFiniteSet(Node) /\ Cardinality(Node) > 1 /\ Nil \notin Node
ASSUME BoundAssumption ==
    /\ MaxBatch \in Nat \ {0}
    /\ {MaxTerm, MaxLog, MaxTimeouts, MaxBeats, MaxSyncs, MaxResets, MaxCrashes,
        MaxFaults} \subseteq Nat

VARIABLES
    durableCommit,  \* cluster_sync_policy: durable or fast; set by the configuration
    role,           \* cluster_role_t
    currentTerm, votedFor,
    leaderId,       \* whom this node follows and forwards proposals to
    prevotes,       \* 0 when not in_prevote, else prevotes_granted
    votes,          \* votes_granted while a candidate, else 0
    log,            \* in-RAM log: sequence of [term, op]
    commitIndex,
    durableIndex,   \* log.durable_index as the code maintains it
    peer,           \* a leader's view of each peer: [match, durable]
    meta,           \* cluster-N.meta on stable storage: [term, vote]
    disk,           \* cluster-N.log as of the last successful fsync
    stable,         \* how many leading entries of log a power loss cannot take
    storageFailed,
    chan,           \* chan[i][j]: frames sent by i and not yet read by j
    applied,        \* history: every <<index, entry>> any node has applied
    used            \* how much of each bound has been used up

electionVars == <<role, currentTerm, votedFor, leaderId, prevotes, votes>>
logVars      == <<log, commitIndex, durableIndex>>
diskVars     == <<disk, stable>>
vars == <<durableCommit, electionVars, logVars, peer, meta, diskVars, storageFailed, chan,
          applied, used>>

-----------------------------------------------------------------------------
Follower  == "follower"
Candidate == "candidate"
Leader    == "leader"
NoOp      == "noop"

Entry == [term : Nat, op : Value \cup {NoOp}]

PeerState == [match : Nat, durable : Nat]

Message ==
         [type : {"PREVOTE", "VOTE_REQ"}, term : Nat, last : Nat, lastTerm : Nat]
    \cup [type : {"PREVOTE_RESP", "VOTE_RESP"}, term : Nat, granted : BOOLEAN]
    \cup [type : {"APPEND"}, term : Nat, prev : Nat, prevTerm : Nat,
          commit : Nat, entries : Seq(Entry)]
    \cup [type : {"APPEND_RESP"}, term : Nat, success : BOOLEAN,
          hint : Nat, durable : Nat]

QuorumSize == Cardinality(Node) \div 2 + 1

Lesser(a, b) == IF a < b THEN a ELSE b
Greater(a, b) == IF a > b THEN a ELSE b

LogTermAt(lg, idx) == IF idx \in DOMAIN lg THEN lg[idx].term ELSE 0

LastTerm(lg) == LogTermAt(lg, Len(lg))

LogLengthIsCurrent(lg, idx, t) == idx >= Len(lg)

\* log_is_current(): a log ending at index idx, term t is at least as
\* up-to-date as lg.
LogIsCurrent(lg, idx, t) ==
    IF t # LastTerm(lg) THEN t > LastTerm(lg) ELSE idx >= Len(lg)

-----------------------------------------------------------------------------
(* Frames and channels.                                                    *)

VoteRequest(i, type, term) ==
    [type |-> type, term |-> term, last |-> Len(log[i]), lastTerm |-> LastTerm(log[i])]

\* send_append(): the entries lg[from..upto], prefixed by their log-matching
\* pair and the sender's commit index.
AppendFrame(term, lg, from, upto, commit) ==
    [type |-> "APPEND", term |-> term, prev |-> from - 1,
     prevTerm |-> LogTermAt(lg, from - 1), commit |-> commit,
     entries |-> SubSeq(lg, from, upto)]

\* pump_peer(): the frames that carry lg[next..], at most MaxBatch entries in
\* each.  It leaves next_index one past the end of the log, as every handler
\* does, so next_index is not part of the state.
PumpFrames(term, lg, next, commit) ==
    [b \in 1..((Len(lg) - next + MaxBatch) \div MaxBatch) |->
        LET from == next + (b - 1) * MaxBatch
        IN AppendFrame(term, lg, from, Lesser(from + MaxBatch - 1, Len(lg)), commit)]

\* An empty AppendEntries for a peer that has been sent everything.
KeepAlive(term, lg, commit) == AppendFrame(term, lg, Len(lg) + 1, Len(lg), commit)

AppendResp(term, success, hint, durable) ==
    [type |-> "APPEND_RESP", term |-> term, success |-> success,
     hint |-> hint, durable |-> durable]

Received(i, j, type) == chan[j][i] # <<>> /\ Head(chan[j][i]).type = type

\* Node i reads the frame at the head of the channel from j and sends frames
\* back to j.
ReadAndReply(i, j, frames) ==
    LET read == [chan EXCEPT ![j][i] = Tail(@)]
    IN chan' = [read EXCEPT ![i][j] = @ \o frames]

SendAll(ch, i, frames) ==
    [ch EXCEPT ![i] = [k \in Node |-> IF k = i THEN ch[i][k] ELSE ch[i][k] \o frames]]

Broadcast(i, frames) == chan' = SendAll(chan, i, frames)

ReadAndBroadcast(i, j, frames) ==
    chan' = SendAll([chan EXCEPT ![j][i] = Tail(@)], i, frames)

Limit == [log |-> MaxLog, timeouts |-> MaxTimeouts, beats |-> MaxBeats, syncs |-> MaxSyncs,
          resets |-> MaxResets, crashes |-> MaxCrashes, faults |-> MaxFaults]

Spend(bound) ==
    /\ used[bound] < Limit[bound]
    /\ used' = [used EXCEPT ![bound] = @ + 1]

-----------------------------------------------------------------------------
(* Helpers shared by the handlers.                                         *)

\* A peer slot as become_leader() and peer_on_link_up() reset it.  Only a
\* leader reads its slots, so a node that does not lead keeps them reset.
FreshPeer == [match |-> 0, durable |-> 0]
FreshPeers == [k \in Node |-> FreshPeer]

\* Outcome of the writes one handler makes.  metaWrites are the <<term, vote>>
\* pairs it passes to persist_meta(), in order; logWrite says whether it also
\* writes or fsyncs the log.  On success the last pair is on stable storage.
\* On failure storage_write_failed() marks the node, any of the pairs or the
\* old one may be what a restart finds, and the handler carries on.
Persist(i, metaWrites, logWrite, ok) ==
    \/ /\ ok
       /\ meta' = IF metaWrites = <<>> THEN meta ELSE [meta EXCEPT ![i] = metaWrites[Len(metaWrites)]]
       /\ UNCHANGED <<storageFailed, used>>
    \/ /\ ~ok
       /\ metaWrites # <<>> \/ logWrite
       /\ Spend("faults")
       /\ storageFailed' = [storageFailed EXCEPT ![i] = TRUE]
       /\ \E m \in {meta[i]} \cup {metaWrites[k] : k \in DOMAIN metaWrites} : meta' = [meta EXCEPT ![i] = m]

\* Mutant of Meta: the vote is not part of what is persisted.
MetaWithoutVote(t, v) == [term |-> t, vote |-> Nil]

Meta(t, v) == [term |-> t, vote |-> v]

\* observe_term(): adopt a strictly higher term as a follower.  The vote it
\* resets and the pair it persists are stated by the calling handler.
ObserveTerm(i, t) ==
    IF t > currentTerm[i]
    THEN /\ currentTerm' = [currentTerm EXCEPT ![i] = t]
         /\ role'     = [role EXCEPT ![i] = Follower]
         /\ leaderId' = [leaderId EXCEPT ![i] = Nil]
         /\ prevotes' = [prevotes EXCEPT ![i] = 0]
         /\ votes'    = [votes EXCEPT ![i] = 0]
         /\ peer'     = [peer EXCEPT ![i] = FreshPeers]
    ELSE UNCHANGED <<currentTerm, role, leaderId, prevotes, votes, peer>>

\* apply_committed(): the entries (from, upto] of lg reach the state machine.
Apply(lg, from, upto) ==
    applied' = applied \cup {<<k, lg[k]>> : k \in ((from + 1)..upto) \cap DOMAIN lg}

\* The quorum-th highest of the values v.
QuorumIndices(v) ==
    {n \in {v[k] : k \in Node} :
        /\ Cardinality({k \in Node : v[k] >= n}) >= QuorumSize
        /\ Cardinality({k \in Node : v[k] > n}) < QuorumSize}

\* Mutant of Progress: the peers' unsynced tails count.
ProgressByMatch(i, lg, peers, durable, failed) ==
    [k \in Node |-> IF k # i THEN peers[k].match
                    ELSE IF ~durableCommit THEN Len(lg) ELSE IF failed THEN 0 ELSE durable]

\* How far node k is known to have replicated (or fsynced) the log lg of the
\* leader i.
Progress(i, lg, peers, durable, failed) ==
    [k \in Node |-> IF k # i THEN IF durableCommit THEN peers[k].durable ELSE peers[k].match
                    ELSE IF ~durableCommit THEN Len(lg) ELSE IF failed THEN 0 ELSE durable]

\* advance_commit(): commit and apply up to the majority's index if it is new
\* and names an entry of the current term.
AdvanceCommit(i, lg, peers, durable, failed) ==
    \E n \in QuorumIndices(Progress(i, lg, peers, durable, failed)) :
        IF n > commitIndex[i] /\ LogTermAt(lg, n) = currentTerm[i]
        THEN /\ commitIndex' = [commitIndex EXCEPT ![i] = n]
             /\ Apply(lg, commitIndex[i], n)
        ELSE UNCHANGED <<commitIndex, applied>>

-----------------------------------------------------------------------------
\* cluster_node_new() with an empty data directory.
Boot ==
    /\ durableCommit \in BOOLEAN
    /\ role = [i \in Node |-> Follower]
    /\ currentTerm = [i \in Node |-> 0]
    /\ votedFor = [i \in Node |-> Nil]
    /\ leaderId = [i \in Node |-> Nil]
    /\ prevotes = [i \in Node |-> 0]
    /\ votes = [i \in Node |-> 0]
    /\ log = [i \in Node |-> <<>>]
    /\ commitIndex = [i \in Node |-> 0]
    /\ durableIndex = [i \in Node |-> 0]
    /\ peer = [i \in Node |-> FreshPeers]
    /\ meta = [i \in Node |-> Meta(0, Nil)]
    /\ disk = [i \in Node |-> <<>>]
    /\ stable = [i \in Node |-> 0]
    /\ storageFailed = [i \in Node |-> FALSE]
    /\ chan = [i \in Node |-> [j \in Node |-> <<>>]]
    /\ applied = {}

Init == Boot /\ used = [b \in DOMAIN Limit |-> 0]

-----------------------------------------------------------------------------
(* Elections.                                                              *)

\* election_timer_cb() -> start_prevote(): poll the peers for term + 1
\* without adopting it.
ElectionTimeout(i) ==
    /\ role[i] # Leader
    /\ currentTerm[i] < MaxTerm
    /\ Spend("timeouts")
    /\ prevotes' = [prevotes EXCEPT ![i] = 1]
    /\ leaderId' = [leaderId EXCEPT ![i] = Nil]
    /\ Broadcast(i, <<VoteRequest(i, "PREVOTE", currentTerm[i] + 1)>>)
    /\ UNCHANGED <<role, currentTerm, votedFor, votes, logVars, peer, meta, diskVars,
                   storageFailed, applied>>

\* CL_FRAME_PREVOTE: never changes our term; refused by a leader and by a
\* node that heard from one recently.
HandlePreVote(i, j) ==
    /\ Received(i, j, "PREVOTE")
    /\ LET m == Head(chan[j][i])
           ok == /\ role[i] # Leader
                 /\ m.term >= currentTerm[i] + 1
                 /\ LogIsCurrent(log[i], m.last, m.lastTerm)
       IN \E heardLeader \in BOOLEAN :
            ReadAndReply(i, j, <<[type |-> "PREVOTE_RESP", term |-> currentTerm[i],
                                  granted |-> ok /\ ~heardLeader]>>)
    /\ UNCHANGED <<electionVars, logVars, peer, meta, diskVars, storageFailed,
                   applied, used>>

\* become_candidate(): bump the term, vote for ourselves, persist both, ask.
BecomeCandidate(i, j) ==
    /\ currentTerm' = [currentTerm EXCEPT ![i] = @ + 1]
    /\ votedFor' = [votedFor EXCEPT ![i] = i]
    /\ role' = [role EXCEPT ![i] = Candidate]
    /\ leaderId' = [leaderId EXCEPT ![i] = Nil]
    /\ prevotes' = [prevotes EXCEPT ![i] = 0]
    /\ votes' = [votes EXCEPT ![i] = 1]
    /\ \E ok \in BOOLEAN : Persist(i, <<Meta(currentTerm[i] + 1, i)>>, FALSE, ok)
    /\ ReadAndBroadcast(i, j, <<VoteRequest(i, "VOTE_REQ", currentTerm[i] + 1)>>)

\* CL_FRAME_PREVOTE_RESP of no newer term.
HandlePreVoteResp(i, j) ==
    /\ Received(i, j, "PREVOTE_RESP")
    /\ Head(chan[j][i]).term <= currentTerm[i]
    /\ LET counts == prevotes[i] > 0 /\ Head(chan[j][i]).granted
       IN \/ /\ counts /\ prevotes[i] + 1 >= QuorumSize
             /\ BecomeCandidate(i, j)
          \/ /\ ~(counts /\ prevotes[i] + 1 >= QuorumSize)
             /\ prevotes' = [prevotes EXCEPT ![i] = IF counts THEN @ + 1 ELSE @]
             /\ ReadAndReply(i, j, <<>>)
             /\ UNCHANGED <<role, currentTerm, votedFor, leaderId, votes, meta,
                            storageFailed, used>>
    /\ UNCHANGED <<logVars, peer, diskVars, applied>>

\* CL_FRAME_VOTE_REQ: one vote per term, persisted before the answer leaves.
HandleVoteReq(i, j) ==
    /\ Received(i, j, "VOTE_REQ")
    /\ LET m == Head(chan[j][i])
           newer == m.term > currentTerm[i]
           vote == IF newer THEN Nil ELSE votedFor[i]
           grant == /\ m.term >= currentTerm[i]
                    /\ LogIsCurrent(log[i], m.last, m.lastTerm)
                    /\ vote \in {Nil, j}
           writes == (IF newer THEN <<Meta(m.term, Nil)>> ELSE <<>>) \o
                     (IF grant THEN <<Meta(m.term, j)>> ELSE <<>>)
       IN /\ ObserveTerm(i, m.term)
          /\ votedFor' = [votedFor EXCEPT ![i] = IF grant THEN j ELSE vote]
          /\ \E ok \in BOOLEAN : Persist(i, writes, FALSE, ok)
          /\ ReadAndReply(i, j, <<[type |-> "VOTE_RESP", term |-> currentTerm'[i],
                                   granted |-> grant]>>)
    /\ UNCHANGED <<logVars, diskVars, applied>>

\* become_leader(): reset the peer slots, append a no-op of the new term and
\* replicate it.  The no-op is not yet flushed to the log file.
BecomeLeader(i, j) ==
    LET lg == Append(log[i], [term |-> currentTerm[i], op |-> NoOp])
    IN /\ role' = [role EXCEPT ![i] = Leader]
       /\ leaderId' = [leaderId EXCEPT ![i] = i]
       /\ prevotes' = [prevotes EXCEPT ![i] = 0]
       /\ votes' = [votes EXCEPT ![i] = 0]
       /\ log' = [log EXCEPT ![i] = lg]
       /\ peer' = [peer EXCEPT ![i] = FreshPeers]
       /\ ReadAndBroadcast(i, j, PumpFrames(currentTerm[i], lg, Len(lg), commitIndex[i]))

\* CL_FRAME_VOTE_RESP of no newer term: granted answers of the current term
\* are counted while we are a candidate.
HandleVoteResp(i, j) ==
    /\ Received(i, j, "VOTE_RESP")
    /\ Head(chan[j][i]).term <= currentTerm[i]
    /\ LET m == Head(chan[j][i])
           counts == role[i] = Candidate /\ m.term = currentTerm[i] /\ m.granted
       IN \/ /\ counts /\ votes[i] + 1 >= QuorumSize
             /\ BecomeLeader(i, j)
          \/ /\ ~(counts /\ votes[i] + 1 >= QuorumSize)
             /\ votes' = [votes EXCEPT ![i] = IF counts THEN @ + 1 ELSE @]
             /\ ReadAndReply(i, j, <<>>)
             /\ UNCHANGED <<role, leaderId, prevotes, log, peer>>
    /\ UNCHANGED <<currentTerm, votedFor, commitIndex, durableIndex, meta, diskVars,
                   storageFailed, applied, used>>

\* A response frame of a newer term demotes us and is otherwise ignored.
HandleNewerResp(i, j) ==
    /\ \E type \in {"PREVOTE_RESP", "VOTE_RESP", "APPEND_RESP"} : Received(i, j, type)
    /\ LET t == Head(chan[j][i]).term
       IN /\ t > currentTerm[i]
          /\ ObserveTerm(i, t)
          /\ votedFor' = [votedFor EXCEPT ![i] = Nil]
          /\ \E ok \in BOOLEAN : Persist(i, <<Meta(t, Nil)>>, FALSE, ok)
    /\ ReadAndReply(i, j, <<>>)
    /\ UNCHANGED <<logVars, diskVars, applied>>

-----------------------------------------------------------------------------
(* Replication.                                                            *)

\* Node i stops leading after a failed write: storage_write_failed().
StepDown(i) ==
    /\ role' = [role EXCEPT ![i] = Follower]
    /\ leaderId' = [leaderId EXCEPT ![i] = Nil]
    /\ peer' = [peer EXCEPT ![i] = FreshPeers]

\* drain_inbox() on the leader -> leader_append(), leader_flush(): append a
\* client operation, write it to the page cache, replicate, try to commit.
\* A failed write makes the leader step down before it replicates anything.
Propose(i, v) ==
    /\ role[i] = Leader
    /\ Len(log[i]) + used["log"] < Limit["log"]
    /\ LET lg == Append(log[i], [term |-> currentTerm[i], op |-> v])
       IN \E ok \in BOOLEAN :
            /\ Persist(i, <<>>, TRUE, ok)
            /\ log' = [log EXCEPT ![i] = lg]
            /\ AdvanceCommit(i, lg, peer[i], durableIndex[i], storageFailed'[i])
            /\ IF ok
               THEN /\ Broadcast(i, PumpFrames(currentTerm[i], lg, Len(lg), commitIndex[i]))
                    /\ UNCHANGED <<role, leaderId, peer>>
               ELSE StepDown(i) /\ UNCHANGED chan
    /\ UNCHANGED <<currentTerm, votedFor, prevotes, votes, durableIndex, diskVars>>

\* heartbeat_timer_cb(): the peers have been sent everything, so each gets an
\* empty AppendEntries.
Heartbeat(i) ==
    /\ role[i] = Leader
    /\ Spend("beats")
    /\ Broadcast(i, <<KeepAlive(currentTerm[i], log[i], commitIndex[i])>>)
    /\ UNCHANGED <<electionVars, logVars, peer, meta, diskVars, storageFailed, applied>>

\* CL_FRAME_APPEND from a stale leader is rejected with our last index.
RejectStaleAppend(i, j) ==
    /\ Received(i, j, "APPEND")
    /\ Head(chan[j][i]).term < currentTerm[i]
    /\ ReadAndReply(i, j, <<AppendResp(currentTerm[i], FALSE, Len(log[i]), durableIndex[i])>>)
    /\ UNCHANGED <<electionVars, logVars, peer, meta, diskVars, storageFailed,
                   applied, used>>

\* What every CL_FRAME_APPEND of a current or newer term does first.
FollowLeader(i, j, t) ==
    /\ currentTerm' = [currentTerm EXCEPT ![i] = t]
    /\ votedFor' = [votedFor EXCEPT ![i] = IF t > currentTerm[i] THEN Nil ELSE @]
    /\ role' = [role EXCEPT ![i] = Follower]
    /\ leaderId' = [leaderId EXCEPT ![i] = j]
    /\ prevotes' = [prevotes EXCEPT ![i] = 0]
    /\ votes' = [votes EXCEPT ![i] = 0]
    /\ peer' = [peer EXCEPT ![i] = FreshPeers]

\* Mutant of Matches: the term of the preceding entry is not compared.
MatchesByLength(i, m) == m.prev <= Len(log[i])

\* The log-matching check.
Matches(i, m) ==
    /\ m.prev <= Len(log[i])
    /\ m.prev > 0 => LogTermAt(log[i], m.prev) = m.prevTerm

TermWrites(i, t) == IF t > currentTerm[i] THEN <<Meta(t, Nil)>> ELSE <<>>

\* CL_FRAME_APPEND that does not match: rewind the leader to our tail, or one
\* below the conflicting index.
RejectAppend(i, j) ==
    /\ Received(i, j, "APPEND")
    /\ LET m == Head(chan[j][i])
           hint == IF m.prev > Len(log[i]) THEN Len(log[i]) ELSE m.prev - 1
       IN /\ m.term >= currentTerm[i]
          /\ ~Matches(i, m)
          /\ FollowLeader(i, j, m.term)
          /\ \E ok \in BOOLEAN : Persist(i, TermWrites(i, m.term), FALSE, ok)
          /\ ReadAndReply(i, j, <<AppendResp(m.term, FALSE, hint, durableIndex[i])>>)
    /\ UNCHANGED <<logVars, diskVars, applied>>

\* CL_FRAME_APPEND that matches: drop everything after prev, append, write to
\* the page cache, follow the leader's commit index.  durable_index is left
\* as it was.  With failed storage the batch is reported as rejected.
AcceptAppend(i, j) ==
    /\ Received(i, j, "APPEND")
    /\ LET m == Head(chan[j][i])
           lg == SubSeq(log[i], 1, m.prev) \o m.entries
           commit == Greater(commitIndex[i], Lesser(m.commit, Len(lg)))
       IN /\ m.term >= currentTerm[i]
          /\ Matches(i, m)
          /\ FollowLeader(i, j, m.term)
          /\ log' = [log EXCEPT ![i] = lg]
          /\ stable' = [stable EXCEPT ![i] = Lesser(@, m.prev)]
          /\ \E ok \in BOOLEAN : Persist(i, TermWrites(i, m.term), m.entries # <<>>, ok)
          /\ IF storageFailed'[i]
             THEN UNCHANGED <<commitIndex, applied>>
             ELSE /\ commitIndex' = [commitIndex EXCEPT ![i] = commit]
                  /\ Apply(lg, commitIndex[i], commit)
          /\ ReadAndReply(i, j, <<AppendResp(m.term, ~storageFailed'[i], Len(lg), durableIndex[i])>>)
    /\ UNCHANGED <<durableIndex, disk>>

\* CL_FRAME_APPEND_RESP of no newer term, at a node that leads: record the
\* peer's fsynced index; on success raise its match index and try to commit;
\* on a reject rewind and resend from the hint.  The frame's term is not
\* compared with the current one.
HandleAppendResp(i, j) ==
    /\ Received(i, j, "APPEND_RESP")
    /\ Head(chan[j][i]).term <= currentTerm[i]
    /\ IF role[i] # Leader
       THEN ReadAndReply(i, j, <<>>) /\ UNCHANGED <<peer, commitIndex, applied>>
       ELSE LET m == Head(chan[j][i])
                p == [match |-> IF m.success THEN Greater(peer[i][j].match, m.hint)
                                             ELSE Lesser(peer[i][j].match, m.hint),
                      durable |-> m.durable]
                peers == [peer[i] EXCEPT ![j] = p]
            IN /\ peer' = [peer EXCEPT ![i] = peers]
               /\ IF m.success
                  THEN /\ AdvanceCommit(i, log[i], peers, durableIndex[i], storageFailed[i])
                       /\ ReadAndReply(i, j, <<>>)
                  ELSE /\ ReadAndReply(i, j, PumpFrames(currentTerm[i], log[i],
                                        Lesser(m.hint, Len(log[i])) + 1, commitIndex[i]))
                       /\ UNCHANGED <<commitIndex, applied>>
    /\ UNCHANGED <<electionVars, log, durableIndex, meta, diskVars, storageFailed,
                   used>>

\* After its fsync attempt a leader in durable mode tries to commit.
CommitIfDurableLeader(i, durable, failed) ==
    IF durableCommit /\ role[i] = Leader
    THEN AdvanceCommit(i, log[i], peer[i], durable, failed)
    ELSE UNCHANGED <<commitIndex, applied>>

\* fsync_timer_cb() -> persist_sync(): the fsync succeeds, fails, or is
\* skipped because storage has failed before.
FsyncTimer(i) ==
    /\ \/ /\ ~storageFailed[i]
          /\ Spend("syncs")
          /\ disk' = [disk EXCEPT ![i] = log[i]]
          /\ stable' = [stable EXCEPT ![i] = Len(log[i])]
          /\ durableIndex' = [durableIndex EXCEPT ![i] = Len(log[i])]
          /\ CommitIfDurableLeader(i, Len(log[i]), FALSE)
          /\ UNCHANGED <<role, leaderId, peer, meta, storageFailed>>
       \/ /\ ~storageFailed[i]
          /\ Persist(i, <<>>, TRUE, FALSE)
          /\ IF role[i] = Leader THEN StepDown(i) ELSE UNCHANGED <<role, leaderId, peer>>
          /\ UNCHANGED <<diskVars, durableIndex, commitIndex, applied>>
       \/ /\ storageFailed[i]
          /\ CommitIfDurableLeader(i, durableIndex[i], TRUE)
          /\ UNCHANGED <<role, leaderId, peer, meta, storageFailed, used, diskVars, durableIndex>>
    /\ UNCHANGED <<currentTerm, votedFor, prevotes, votes, log, chan>>

-----------------------------------------------------------------------------
(* Failures.                                                               *)

Disconnect(ch, i, j) == [ch EXCEPT ![i][j] = <<>>, ![j][i] = <<>>]

\* The connection between i and j breaks and is dialled again: frames in
\* flight are gone and both ends run peer_on_link_up().
LinkReset(i, j) ==
    /\ Spend("resets")
    /\ chan' = Disconnect(chan, i, j)
    /\ peer' = [peer EXCEPT ![i][j] = FreshPeer, ![j][i] = FreshPeer]
    /\ UNCHANGED <<electionVars, logVars, meta, diskVars, storageFailed, applied>>

\* What persist_load() may find after a power loss: the file as it was last
\* fsynced, or any part of what was written since.
Recoverable(i) == {disk[i]} \cup {SubSeq(log[i], 1, k) : k \in stable[i]..Len(log[i])}

\* Power loss at i, restart from stable storage, connections re-dialled.
Crash(i) ==
    /\ Spend("crashes")
    /\ \E lg \in Recoverable(i) :
        /\ log' = [log EXCEPT ![i] = lg]
        /\ disk' = [disk EXCEPT ![i] = lg]
        /\ stable' = [stable EXCEPT ![i] = Len(lg)]
        /\ durableIndex' = [durableIndex EXCEPT ![i] = Len(lg)]
    /\ commitIndex' = [commitIndex EXCEPT ![i] = 0]
    /\ currentTerm' = [currentTerm EXCEPT ![i] = meta[i].term]
    /\ votedFor' = [votedFor EXCEPT ![i] = meta[i].vote]
    /\ role' = [role EXCEPT ![i] = Follower]
    /\ leaderId' = [leaderId EXCEPT ![i] = Nil]
    /\ prevotes' = [prevotes EXCEPT ![i] = 0]
    /\ votes' = [votes EXCEPT ![i] = 0]
    /\ storageFailed' = [storageFailed EXCEPT ![i] = FALSE]
    /\ peer' = [k \in Node |-> IF k = i THEN FreshPeers ELSE [peer[k] EXCEPT ![i] = FreshPeer]]
    /\ chan' = [a \in Node |-> [b \in Node |-> IF i \in {a, b} THEN <<>> ELSE chan[a][b]]]
    /\ UNCHANGED <<meta, applied>>

-----------------------------------------------------------------------------
Handle(i, j) ==
    \/ HandlePreVote(i, j)
    \/ HandlePreVoteResp(i, j)
    \/ HandleVoteReq(i, j)
    \/ HandleVoteResp(i, j)
    \/ HandleNewerResp(i, j)
    \/ RejectStaleAppend(i, j)
    \/ RejectAppend(i, j)
    \/ AcceptAppend(i, j)
    \/ HandleAppendResp(i, j)
    \/ LinkReset(i, j)

Next ==
    /\ \E i \in Node :
           \/ ElectionTimeout(i)
           \/ \E v \in Value : Propose(i, v)
           \/ Heartbeat(i)
           \/ FsyncTimer(i)
           \/ Crash(i)
           \/ \E j \in Node \ {i} : Handle(i, j)
    /\ UNCHANGED durableCommit

Spec == Init /\ [][Next]_vars

-----------------------------------------------------------------------------
(* Properties.                                                             *)

\* Every variable the cluster loop writes has the shape it gives it.
LoopTypeOK ==
    /\ role \in [Node -> {Follower, Candidate, Leader}]
    /\ currentTerm \in [Node -> Nat]
    /\ votedFor \in [Node -> Node \cup {Nil}]
    /\ leaderId \in [Node -> Node \cup {Nil}]
    /\ prevotes \in [Node -> Nat]
    /\ votes \in [Node -> Nat]
    /\ log \in [Node -> Seq(Entry)]
    /\ commitIndex \in [Node -> Nat]
    /\ durableIndex \in [Node -> Nat]
    /\ peer \in [Node -> [Node -> PeerState]]
    /\ meta \in [Node -> [term : Nat, vote : Node \cup {Nil}]]
    /\ disk \in [Node -> Seq(Entry)]
    /\ stable \in [Node -> Nat]
    /\ storageFailed \in [Node -> BOOLEAN]
    /\ chan \in [Node -> [Node -> Seq(Message)]]
    /\ applied \subseteq (Nat \X Entry)
    /\ used \in [DOMAIN Limit -> Nat]

\* The same, and the policy is one of the two the configuration knows.
TypeOK == durableCommit \in BOOLEAN /\ LoopTypeOK

\* All nodes of a term agree on who leads it: no term has two leaders, and no
\* follower forwards to a node that did not win the term (VOTE_REQ, VOTE_RESP
\* and the leader_id that HandleAppend records).
ElectionSafety ==
    \A i, j \in Node :
        (currentTerm[i] = currentTerm[j] /\ leaderId[i] # Nil /\ leaderId[j] # Nil)
            => leaderId[i] = leaderId[j]

\* A node's term never goes back and its vote in a term, once cast, is never
\* withdrawn or given to another: not by any frame and not by a power loss
\* (persist_meta() runs before the answer leaves, persist_load() restores it).
VoteOncePerTerm ==
    [][\A i \in Node :
        /\ currentTerm'[i] >= currentTerm[i]
        /\ (currentTerm'[i] = currentTerm[i] /\ votedFor[i] # Nil)
                => votedFor'[i] = votedFor[i]]_vars

\* Two logs with an entry of the same index and term agree on everything up
\* to it (the prevLogIndex/prevLogTerm check of CL_FRAME_APPEND).
LogMatching ==
    \A i, j \in Node : \A k \in DOMAIN log[i] \cap DOMAIN log[j] :
        log[i][k].term = log[j][k].term => SubSeq(log[i], 1, k) = SubSeq(log[j], 1, k)

\* No two nodes, before or after a restart, apply different operations at one
\* log index (apply_committed()): the brokers' state machines never diverge.
StateMachineSafety ==
    \A a, b \in applied : a[1] = b[1] => a = b

\* The leader of the newest term holds every operation any node has applied,
\* so a change of leader loses nothing (log_is_current() gates the votes).
LeaderCompleteness ==
    \A i \in Node :
        (role[i] = Leader /\ \A j \in Node : currentTerm[j] <= currentTerm[i])
            => \A a \in applied : a[1] <= Len(log[i]) /\ log[i][a[1]] = a[2]

\* Under the fast policy, what a node considers committed is in the logs of a
\* majority, as the comment of advance_commit() says.  (What it says of the
\* durable policy is CommittedIsDurable.)
CommittedOnMajority ==
    ~durableCommit =>
        \A i \in Node : \A k \in 1..Lesser(commitIndex[i], Len(log[i])) :
            Cardinality({j \in Node : k <= Len(log[j]) /\ log[j][k] = log[i][k]}) >= QuorumSize

\* cluster_sync_policy = durable: an operation is applied only when a majority
\* cannot lose it to a simultaneous power loss.
CommittedIsDurable ==
    \A a \in applied :
        Cardinality({j \in Node : stable[j] >= a[1] /\ log[j][a[1]] = a[2]}) >= QuorumSize

=============================================================================
