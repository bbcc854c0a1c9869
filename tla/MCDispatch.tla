----------------------------- MODULE MCDispatch -----------------------------
(* Instances of Dispatch for TLC.                                          *)
EXTENDS Dispatch, TLC

CONSTANTS w1, w2, c1, c2, p1

\* One worker with both consumers, and two workers with one consumer each.
OneHome == c1 :> w1 @@ c2 :> w1
TwoHomes == c1 :> w1 @@ c2 :> w2

MCSetups ==
    {\* two consumers of one worker that ack, nack, cancel and come back, on an
     \* auto-delete queue
     [home |-> OneHome, noAck |-> {}, prefetches |-> {1}, queues |-> 2, msgs |-> 2,
      events |-> {"nack", "cancel", "autodelete"}],
     \* two workers share a queue, with a prefetch window and full sockets
     [home |-> TwoHomes, noAck |-> {c2}, prefetches |-> {1}, queues |-> 1, msgs |-> 3,
      events |-> {}],
     \* two workers, the queue deleted and declared again under their consumers
     [home |-> TwoHomes, noAck |-> {c2}, prefetches |-> {0}, queues |-> 2, msgs |-> 1,
      events |-> {"cancel", "redeclare"}],
     \* two workers, messages that come back from clients and failed deliveries
     [home |-> TwoHomes, noAck |-> {c2}, prefetches |-> {0}, queues |-> 1, msgs |-> 1,
      events |-> {"nack", "cancel", "fail", "get"}]}

\* Two workers with one consumer each, either of which may leave.
CancelSetups ==
    {[home |-> TwoHomes, noAck |-> {}, prefetches |-> {0}, queues |-> 1, msgs |-> 1,
      events |-> {"cancel"}]}

=============================================================================
