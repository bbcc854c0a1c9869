---------------------------- MODULE MCForwarding ----------------------------
(* Instances of Forwarding for TLC.                                        *)
EXTENDS Forwarding, TLC

CONSTANTS n1, n2, n3

\* How often each event may happen; those not named, never.
May(often) == [e \in Events |-> IF e \in DOMAIN often THEN often[e] ELSE 0]

\* A follower submits while its connections break and writes fail; it and the
\* leader submit; the leader changes; the leader fails to append; a follower whose
\* threads race restarts.  Steady holds throughout in the first three, until
\* the leader changes or fails in the next two, and never in the last, which is there
\* for the actions and for the properties that do not ask for it.
MCScenarios ==
    {[at |-> {n2}, threads |-> 1, may |-> May([op |-> 2, reset |-> 1, fail |-> 1])],
     [at |-> {n2}, threads |-> 1, may |-> May([op |-> 2, sweep |-> 1, fail |-> 1])],
     [at |-> {n1, n2}, threads |-> 1, may |-> May([op |-> 3])],
     [at |-> {n2}, threads |-> 1, may |-> May([op |-> 1, election |-> 1, sweep |-> 1])],
     [at |-> {n1, n2}, threads |-> 1, may |-> May([op |-> 3, nomem |-> 1, storage |-> 1])],
     [at |-> {n2}, threads |-> 2, may |-> May([op |-> 2, restart |-> 1])]}

\* Two threads of a follower submit.
ThreadScenarios ==
    {[at |-> {n2}, threads |-> 2, may |-> May([op |-> 2])]}

=============================================================================
