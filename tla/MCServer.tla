------------------------------ MODULE MCServer ------------------------------
(* Instances of Server for TLC.                                            *)
EXTENDS Server, TLC

CONSTANTS c1, c2, c3, w0, w1

May(often) == [e \in Events |-> IF e \in DOMAIN often THEN often[e] ELSE 0]

\* One worker serves c1 and c2, the other one c3.
TwoWorkers == [c \in Conn |-> IF c = c3 THEN w1 ELSE w0]

Quiet == [open |-> {}, arriving |-> {}, home |-> TwoWorkers, publishers |-> {}, consumers |-> {},
          late |-> {}, persistent |-> FALSE, heartbeat |-> FALSE, alarm |-> TRUE,
          may |-> May(<<>>)]

\* Connections arrive at both workers and leave.
Arrivals == [Quiet EXCEPT !.open = {c1}, !.arriving = {c2, c3}, !.may = May([hangup |-> 2])]

\* A publisher and a consumer over the watermark; one connection that is both.
Separate == [Quiet EXCEPT !.open = {c1, c3}, !.publishers = {c1}, !.consumers = {c3},
                          !.persistent = TRUE, !.may = May([publish |-> 4, congest |-> 1])]
Both == [Quiet EXCEPT !.open = {c1, c2}, !.publishers = {c1, c2}, !.consumers = {c1},
                      !.may = May([publish |-> 4])]

\* A connection that is both, with persistent messages: paused by congestion
\* without a watermark, and with one.
Mixed == [Quiet EXCEPT !.open = {c1, c2}, !.publishers = {c1, c2}, !.consumers = {c1},
                       !.persistent = TRUE, !.alarm = FALSE,
                       !.may = May([publish |-> 3, congest |-> 2])]
Wedged == [Mixed EXCEPT !.alarm = TRUE]

\* A connection that publishes first and consumes later, beside a consumer.
Late == [Quiet EXCEPT !.open = {c1, c3}, !.publishers = {c1}, !.consumers = {c3},
                      !.late = {c1}, !.may = May([publish |-> 3])]

\* Heartbeats, with clients that disappear: while they publish and consume,
\* paused or not, and in the handshake.
Beats == [Quiet EXCEPT !.open = {c1}, !.publishers = {c1}, !.consumers = {c1},
                       !.persistent = TRUE, !.heartbeat = TRUE,
                       !.may = May([publish |-> 2, congest |-> 1, die |-> 1])]
Handshake == [Quiet EXCEPT !.arriving = {c2}, !.publishers = {c2}, !.heartbeat = TRUE,
                           !.may = May([publish |-> 1, die |-> 1])]

\* SIGTERM while publishers are paused and connections arrive.
Stopping == [Quiet EXCEPT !.open = {c1}, !.arriving = {c3}, !.publishers = {c1},
                          !.persistent = TRUE, !.alarm = FALSE,
                          !.may = May([publish |-> 2, congest |-> 1, signal |-> 1])]

MCScenarios == {Arrivals, Separate, Both, Mixed, Wedged, Late, Beats, Handshake,
               Stopping}

\* SIGTERM with a watermark.
StopScenarios ==
    {[Quiet EXCEPT !.open = {c1}, !.publishers = {c1}, !.may = May([publish |-> 2, signal |-> 1])]}

=============================================================================
