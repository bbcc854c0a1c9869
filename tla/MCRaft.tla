------------------------------- MODULE MCRaft -------------------------------
(* Instances of Raft for TLC.                                              *)
EXTENDS Raft, TLC

CONSTANTS n1, n2, n3

\* A cluster that has elected n1 in term 1 and replicated, committed and
\* fsynced its no-op everywhere: a reachable state that saves the depth of the
\* first election.
FirstLog == <<[term |-> 1, op |-> NoOp]>>

Elected ==
    /\ durableCommit \in BOOLEAN
    /\ role = [i \in Node |-> IF i = n1 THEN Leader ELSE Follower]
    /\ currentTerm = [i \in Node |-> 1]
    /\ votedFor = [i \in Node |-> n1]
    /\ leaderId = [i \in Node |-> n1]
    /\ prevotes = [i \in Node |-> 0]
    /\ votes = [i \in Node |-> 0]
    /\ log = [i \in Node |-> FirstLog]
    /\ commitIndex = [i \in Node |-> 1]
    /\ durableIndex = [i \in Node |-> 1]
    /\ peer = [i \in Node |-> [j \in Node |->
                IF i = n1 /\ j # n1 THEN [match |-> 1, durable |-> 1] ELSE FreshPeer]]
    /\ meta = [i \in Node |-> Meta(1, n1)]
    /\ disk = [i \in Node |-> FirstLog]
    /\ stable = [i \in Node |-> 1]
    /\ storageFailed = [i \in Node |-> FALSE]
    /\ chan = [i \in Node |-> [j \in Node |-> <<>>]]
    /\ applied = {<<1, FirstLog[1]>>}

\* A run explores several scenarios, each with its own share of the bounds: the
\* rest of every bound counts as used up from the start.
Within(scenarios) ==
    \E s \in scenarios :
        used = [b \in DOMAIN Limit |-> IF b \in DOMAIN s THEN Limit[b] - s[b] ELSE Limit[b]]

\* Under the fast policy: two changes of leader; or one, with a broken
\* connection and a heartbeat.
FastScenarios == {[log |-> 2, timeouts |-> 2],
                  [log |-> 2, timeouts |-> 1, beats |-> 1, resets |-> 1]}

\* Under the durable policy: two elections from a cold start with a power loss;
\* a power loss or a failing write around a change of leader; many fsyncs, one
\* of them failing, under a stable leader.
ColdScenarios == {[log |-> 0, timeouts |-> 2, crashes |-> 1]}
DurableScenarios ==
    {[log |-> 2, timeouts |-> 1, syncs |-> 2, crashes |-> 1],
     [log |-> 2, timeouts |-> 1, syncs |-> 2, faults |-> 1],
     [log |-> 2, beats |-> 1, syncs |-> 4, faults |-> 1]}

MCInit ==
    \/ Elected /\ ~durableCommit /\ Within(FastScenarios)
    \/ Boot /\ durableCommit /\ Within(ColdScenarios)
    \/ Elected /\ durableCommit /\ Within(DurableScenarios)
MCSpec == MCInit /\ [][Next]_vars

\* All bounds at once, under the durable policy.
ElectedInit == Elected /\ durableCommit /\ used = [b \in DOMAIN Limit |-> 0]
ElectedSpec == ElectedInit /\ [][Next]_vars

\* All nodes but n1 are interchangeable.
FollowerSymmetry == Permutations(Node \ {n1})

=============================================================================
