---------------------------- MODULE MCSnapshot ------------------------------
(* Instances of Snapshot for TLC.                                          *)
EXTENDS Snapshot, TLC

CONSTANTS q1, q2

Run(script, log, faults) ==
    [script |-> script, log |-> log, start |-> "level",
     faults |-> [x \in Faults |-> IF x \in DOMAIN faults THEN faults[x] ELSE 0]]

One == <<Op("declare", q1), Op("publish", q1)>>
Filled == One \o <<Op("publish", q1)>>
TwoQueues == One \o <<Op("declare", q2), Op("publish", q2)>>
Dropped == One \o <<Op("delete", q1)>>
Access == <<Op("add", "vhost"), Op("add", "perm"), Op("drop", "vhost")>>

\* Consumption with compaction, a requeue, a crash and a lost link; a peer that
\* loses its disk and then crashes or loses its link; two queues to transfer; a
\* queue deleted under a transfer; access control; a snapshot that cannot be
\* written.
MCScenarios ==
    { Run(Filled, 4, [deliver |-> 2]),
      Run(One, 3, [deliver |-> 2, requeue |-> 1, crash |-> 1]),
      Run(One, 3, [deliver |-> 1, linkdown |-> 1, crash |-> 1]),
      Run(Filled, 3, [wipe |-> 1, linkdown |-> 1, crash |-> 1]),
      Run(TwoQueues, 4, [wipe |-> 1]),
      Run(Dropped, 3, [wipe |-> 1, crash |-> 1]),
      Run(Access, 3, [wipe |-> 1, crash |-> 1]),
      Run(One, 3, [deliver |-> 1, wipe |-> 1, snapfail |-> 1, crash |-> 1]) }

\* The link is lost once while a peer without a disk is re-seeded.
BrokenTransfer == {Run(One, 2, [wipe |-> 1, linkdown |-> 1])}

\* A peer is re-seeded while a consumer on the leader holds the message.
InHandDump == {Run(One, 2, [deliver |-> 1, wipe |-> 1])}

\* A queue, or a permission, is declared again after it was deleted.
Redeclared ==
    {Run(<<Op("declare", q1), Op("delete", q1), Op("declare", q1)>>, 3, <<>>),
     Run(<<Op("add", "perm"), Op("drop", "vhost"), Op("add", "perm")>>, 3, <<>>)}

\* A queue is declared after messages were published to it.
DeclaredLate == {Run(<<Op("publish", q1), Op("publish", q1), Op("declare", q1)>>, 3, <<>>)}

\* The peer holds entries that were never committed.
Diverged == {[Run(<<>>, 4, <<>>) EXCEPT !.start = "diverged"]}

=============================================================================
