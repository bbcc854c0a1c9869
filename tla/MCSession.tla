----------------------------- MODULE MCSession -----------------------------
(* Instances of Session for TLC.                                           *)
EXTENDS Session, TLC

May(often) == [e \in Events |-> IF e \in DOMAIN often THEN often[e] ELSE 0]

Quiet == [loggedIn |-> TRUE, cluster |-> TRUE, requests |-> {}, frames |-> 0,
          mandatory |-> FALSE, pressures |-> {}, may |-> May(<<>>)]

\* A client logs in, opens a channel and may leave at any time.
Login == [Quiet EXCEPT !.loggedIn = FALSE, !.cluster = FALSE,
                       !.may = May([open |-> 1, deny |-> 1, hangup |-> 1])]

\* Confirms of replicated publishes, with a channel that is closed and opened
\* again under its number.
Confirms == [Quiet EXCEPT !.frames = 1,
                          !.may = May([open |-> 2, select |-> 2, publish |-> 2, close |-> 1])]

\* Confirms of local publishes, some into a full queue or to no queue, in several
\* frames.
Local == [Quiet EXCEPT !.cluster = FALSE, !.requests = {"queue.bind"}, !.frames = 2,
                       !.mandatory = TRUE,
                       !.may = May([open |-> 1, select |-> 1, publish |-> 2, request |-> 1,
                                    full |-> 1, unroutable |-> 1, hangup |-> 1])]

\* Requests that wait for the cluster beside publishes on another channel;
\* refused ones, failing ones, and channels opened again after an exception.
Deferred == [Quiet EXCEPT !.requests = {"queue.declare", "queue.delete"},
                          !.may = May([open |-> 3, select |-> 1, publish |-> 1, request |-> 2])]
Exceptions == [Quiet EXCEPT !.requests = {"exchange.declare", "queue.bind"},
                            !.may = May([open |-> 2, request |-> 2, refuse |-> 1, hangup |-> 1])]

\* A client that publishes where it may not.
Refused == [Quiet EXCEPT !.cluster = FALSE,
                         !.may = May([open |-> 1, publish |-> 2, refuse |-> 1])]

\* A congested cluster and a full memory: publishes, with requests behind them,
\* find the connection paused and read again.
Slowed == [Quiet EXCEPT !.requests = {"queue.declare"}, !.pressures = Pressures,
                        !.may = May([open |-> 1, select |-> 1, publish |-> 2, request |-> 1,
                                     pressure |-> 2])]
Short == [Quiet EXCEPT !.cluster = FALSE, !.mandatory = TRUE, !.pressures = {"memory"},
                       !.may = May([open |-> 1, select |-> 1, publish |-> 3, unroutable |-> 1,
                                    pressure |-> 2, close |-> 1])]

MCScenarios == {Login, Confirms, Local, Deferred, Exceptions, Refused, Slowed, Short}

=============================================================================
