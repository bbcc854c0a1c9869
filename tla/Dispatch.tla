------------------------------ MODULE Dispatch ------------------------------
(***************************************************************************)
(* Delivery to consumers (src/src/dispatch.c with the waiter list of       *)
(* queue.c and phase 2 of broker_route()): worker loops with consumers,    *)
(* publishing threads that wake them, and the queues of one name, which    *)
(* may be deleted and declared again while consumers hold the old object.  *)
(*                                                                         *)
(* A handler runs to completion on its loop, but every lock it takes is a  *)
(* point where other threads get in: such handlers take several steps and  *)
(* loop[w] says where worker w is.  Messages are only counted.             *)
(***************************************************************************)
EXTENDS Integers, FiniteSets

CONSTANTS
    Worker, Consumer, Publisher,
    NoConsumer, NoQueue,
    Setups,       \* the circumstances to explore, see Setup
    MaxQueues,    \* bound: how often the name is declared
    MaxMsgs       \* bound: messages published

Queue == 1..MaxQueues

\* What clients and sockets do besides consume and ack.
Events == {"nack", "cancel", "fail", "get", "redeclare", "autodelete"}

\* Who is connected where and what happens in a behaviour: the worker that owns
\* each consumer's connection, the consumers with no_ack, the Basic.Qos values
\* in use (0 for unlimited), the events, and this behaviour's share of the bounds.
Setup == [home : [Consumer -> Worker], noAck : SUBSET Consumer, prefetches : SUBSET Nat,
          events : SUBSET Events, queues : Queue, msgs : 0..MaxMsgs]

ASSUME DispatchAssumption ==
    /\ MaxQueues \in Nat \ {0} /\ MaxMsgs \in Nat
    /\ IsFiniteSet(Consumer)
    /\ NoConsumer \notin Consumer /\ NoQueue \notin Queue
ASSUME SetupAssumption == Setups \subseteq Setup

VARIABLES
    setup,      \* fixed: one of Setups
    registry,   \* the queue of that name in the broker, or NoQueue
    declared,   \* how many queue objects were created
    ready,      \* messages in each queue
    waiters,    \* the dispatchers to wake for each queue
    published,
    pub,        \* per publishing thread: the queue it routes to and its next step
    pending,    \* per worker: queues that need service
    loop,       \* per worker: "idle" or what its loop is in the middle of
    todo,       \* per worker: what is left of the list on_async() took
    cur,        \* per worker: the consumer the current step is about
    left,       \* per worker: the queue the destroyed consumer was on
    group,      \* per worker: the queue of the group of that name, or NoQueue
    cons,       \* per consumer: its queue (NoQueue: not registered) and window
    buf,        \* per consumer: its socket's write buffer, 2 above the high mark
    paused,     \* per consumer: conn->send_paused
    pulled      \* messages out by Basic.Get with manual ack, per queue

queueVars == <<setup, registry, declared>>
loopVars == <<loop, todo, cur, left>>
vars == <<queueVars, ready, waiters, published, pub, pending, loopVars, group, cons, buf,
          paused, pulled>>

Home == setup.home
NoAck == setup.noAck

Off == [queue |-> NoQueue, unacked |-> 0, prefetch |-> 0]
IdlePub == [queue |-> NoQueue, step |-> "idle"]

Members(w) == {c \in Consumer : Home[c] = w /\ cons[c].queue # NoQueue}
ConsumerCount(q) == Cardinality({c \in Consumer : cons[c].queue = q})

\* service_group(): the consumer is paused or its write buffer is full.
Stopped(c) == paused[c] \/ buf[c] = 2

\* service_group(): the Basic.Qos window has room.
HasRoom(c) == c \in NoAck \/ cons[c].prefetch = 0 \/ cons[c].unacked < cons[c].prefetch

Eligible(c) == ~Stopped(c) /\ HasRoom(c)

\* dispatcher_notify(): queue the service request once and signal the loop.
Notified(ws, q) == [w \in Worker |-> IF w \in ws THEN pending[w] \cup {q} ELSE pending[w]]

-----------------------------------------------------------------------------
Init ==
    /\ setup \in Setups
    /\ registry = 1 /\ declared = 1
    /\ ready = [q \in Queue |-> 0]
    /\ waiters = [q \in Queue |-> {}]
    /\ published = 0
    /\ pub = [p \in Publisher |-> IdlePub]
    /\ pending = [w \in Worker |-> {}]
    /\ loop = [w \in Worker |-> "idle"]
    /\ todo = [w \in Worker |-> {}]
    /\ cur = [w \in Worker |-> NoConsumer]
    /\ left = [w \in Worker |-> NoQueue]
    /\ group = [w \in Worker |-> NoQueue]
    /\ cons = [c \in Consumer |-> Off]
    /\ buf = [c \in Consumer |-> 0]
    /\ paused = [c \in Consumer |-> FALSE]
    /\ pulled = [q \in Queue |-> 0]

(* Publishing threads: broker_route().                                     *)

\* Phase 1: the queue is looked up and referenced under the registry lock.
Route(p) ==
    /\ pub[p].step = "idle" /\ registry # NoQueue /\ published < setup.msgs
    /\ published' = published + 1
    /\ pub' = [pub EXCEPT ![p] = [queue |-> registry, step |-> "enqueue"]]
    /\ UNCHANGED <<queueVars, ready, waiters, pending, loopVars, group, cons, buf, paused,
                   pulled>>

\* Phase 2: queue_enqueue().
Enqueue(p) ==
    /\ pub[p].step = "enqueue"
    /\ ready' = [ready EXCEPT ![pub[p].queue] = @ + 1]
    /\ pub' = [pub EXCEPT ![p].step = "wake"]
    /\ UNCHANGED <<queueVars, waiters, published, pending, loopVars, group, cons, buf,
                   paused, pulled>>

\* Phase 2: queue_wake_waiters().
Wake(p) ==
    /\ pub[p].step = "wake"
    /\ pending' = Notified(waiters[pub[p].queue], pub[p].queue)
    /\ pub' = [pub EXCEPT ![p] = IdlePub]
    /\ UNCHANGED <<queueVars, ready, waiters, published, loopVars, group, cons, buf,
                   paused, pulled>>

(* The async callback of a worker's loop.                                  *)

\* Mutant of OnAsync: the pending list is cleared and none of its queues is served.
OnAsyncDropping(w) ==
    /\ loop[w] = "idle" /\ pending[w] # {}
    /\ todo' = [todo EXCEPT ![w] = {}]
    /\ pending' = [pending EXCEPT ![w] = {}]
    /\ UNCHANGED <<queueVars, left, ready, waiters, published, pub, loop, cur, group, cons, buf,
                   paused, pulled>>

\* on_async(): take the whole pending list.
OnAsync(w) ==
    /\ loop[w] = "idle" /\ pending[w] # {}
    /\ todo' = [todo EXCEPT ![w] = pending[w]]
    /\ pending' = [pending EXCEPT ![w] = {}]
    /\ loop' = [loop EXCEPT ![w] = "service"]
    /\ UNCHANGED <<queueVars, left, ready, waiters, published, pub, cur, group, cons, buf,
                   paused, pulled>>

\* The list loses one queue; after the last one the callback returns.
Serviced(w, q) ==
    /\ todo' = [todo EXCEPT ![w] = @ \ {q}]
    /\ loop' = [loop EXCEPT ![w] = IF todo[w] = {q} THEN "idle" ELSE "service"]
    /\ cur' = [cur EXCEPT ![w] = NoConsumer]

\* The consumers a scan passes over because their socket is full get paused;
\* where the round-robin scan starts is left open.
Pause(cs) == paused' = [c \in Consumer |-> c \in cs \/ paused[c]]
Full(w) == {c \in Members(w) : Stopped(c)}

\* service_group(): a consumer can take a message and queue_dequeue() has one.
\* The group is the one registered under the queue's name.
Dequeue(w) ==
    /\ loop[w] = "service" /\ group[w] # NoQueue /\ ready[group[w]] > 0
    /\ \E c \in Members(w), cs \in SUBSET Full(w) :
        /\ Eligible(c)
        /\ cur' = [cur EXCEPT ![w] = c]
        /\ Pause(cs)
    /\ ready' = [ready EXCEPT ![group[w]] = @ - 1]
    /\ loop' = [loop EXCEPT ![w] = "deliver"]
    /\ UNCHANGED <<queueVars, left, waiters, published, pub, pending, todo, group, cons, buf,
                   pulled>>

\* service_group() ends: no group, no consumer that can take a message, or
\* nothing in the queue.
ServiceEnds(w, q) ==
    /\ loop[w] = "service" /\ q \in todo[w]
    /\ \/ group[w] = NoQueue /\ paused' = paused
       \/ /\ group[w] # NoQueue
          /\ \A c \in Members(w) : ~Eligible(c)
          /\ Pause(Full(w))
       \/ /\ group[w] # NoQueue
          /\ \E c \in Members(w) : Eligible(c)
          /\ ready[group[w]] = 0
          /\ \E cs \in SUBSET Full(w) : Pause(cs)
    /\ Serviced(w, q)
    /\ UNCHANGED <<queueVars, left, ready, waiters, published, pub, pending, group, cons, buf,
                   pulled>>

\* deliver(): the frames are in the socket's write buffer.
Deliver(w) ==
    /\ loop[w] = "deliver"
    /\ \E b \in buf[cur[w]]..2 : buf' = [buf EXCEPT ![cur[w]] = b]
    /\ cons' = IF cur[w] \in NoAck THEN cons
               ELSE [cons EXCEPT ![cur[w]].unacked = @ + 1]
    /\ loop' = [loop EXCEPT ![w] = "service"]
    /\ cur' = [cur EXCEPT ![w] = NoConsumer]
    /\ UNCHANGED <<queueVars, left, ready, waiters, published, pub, pending, todo, group,
                   paused, pulled>>

\* deliver() fails: the message goes back and service_group() ends.
DeliverFails(w, q) ==
    /\ "fail" \in setup.events
    /\ loop[w] = "deliver" /\ q \in todo[w]
    /\ ready' = [ready EXCEPT ![group[w]] = @ + 1]
    /\ Serviced(w, q)
    /\ UNCHANGED <<queueVars, left, waiters, published, pub, pending, group, cons, buf, paused,
                   pulled>>

(* The other handlers of a worker's loop.                                  *)

\* on_write(): the buffer drains; at the low mark a paused connection resumes
\* (dispatcher_resume_conn()).
OnWrite(c) ==
    /\ loop[Home[c]] = "idle" /\ buf[c] > 0
    /\ buf' = [buf EXCEPT ![c] = @ - 1]
    /\ IF paused[c] /\ buf'[c] = 0
       THEN /\ paused' = [paused EXCEPT ![c] = FALSE]
            /\ pending' = IF cons[c].queue = NoQueue THEN pending
                          ELSE Notified({Home[c]}, cons[c].queue)
       ELSE UNCHANGED <<paused, pending>>
    /\ UNCHANGED <<queueVars, ready, waiters, published, pub, loopVars, group, cons,
                   pulled>>

\* settle_unacked(): k deliveries are acked, or rejected for good.
Ack(c, k) ==
    /\ loop[Home[c]] = "idle" /\ k \in 1..cons[c].unacked
    /\ cons' = [cons EXCEPT ![c].unacked = @ - k]
    /\ pending' = Notified({Home[c]}, cons[c].queue)
    /\ UNCHANGED <<queueVars, ready, waiters, published, pub, loopVars, group, buf,
                   paused, pulled>>

\* settle_unacked() with requeue.
Nack(c, k) ==
    /\ "nack" \in setup.events
    /\ loop[Home[c]] = "idle" /\ k \in 1..cons[c].unacked
    /\ cons' = [cons EXCEPT ![c].unacked = @ - k]
    /\ ready' = [ready EXCEPT ![cons[c].queue] = @ + k]
    /\ pending' = Notified({Home[c]}, cons[c].queue)
    /\ UNCHANGED <<queueVars, waiters, published, pub, loopVars, group, buf, paused,
                   pulled>>

\* dispatcher_set_prefetch().
SetPrefetch(c, n) ==
    /\ loop[Home[c]] = "idle" /\ cons[c].queue # NoQueue
    /\ cons' = [cons EXCEPT ![c].prefetch = n]
    /\ pending' = Notified({Home[c]}, cons[c].queue)
    /\ UNCHANGED <<queueVars, ready, waiters, published, pub, loopVars, group, buf,
                   paused, pulled>>

\* dispatcher_add_consumer(): the consumer joins the group of that name, which
\* is created for the registered queue if there is none.
AddConsumer(c, n) ==
    LET w == Home[c] IN
    /\ loop[w] = "idle" /\ cons[c].queue = NoQueue /\ registry # NoQueue
    /\ cons' = [cons EXCEPT ![c] = [queue |-> registry, unacked |-> 0, prefetch |-> n]]
    /\ group' = [group EXCEPT ![w] = IF @ = NoQueue THEN registry ELSE @]
    /\ loop' = [loop EXCEPT ![w] = IF group[w] = NoQueue THEN "addWaiter" ELSE "notify"]
    /\ cur' = [cur EXCEPT ![w] = c]
    /\ UNCHANGED <<queueVars, left, ready, waiters, published, pub, pending, todo, buf, paused,
                   pulled>>

\* dispatcher_add_consumer(): queue_add_waiter() for a new group.
AddWaiter(w) ==
    /\ loop[w] = "addWaiter"
    /\ waiters' = [waiters EXCEPT ![cons[cur[w]].queue] = @ \cup {w}]
    /\ loop' = [loop EXCEPT ![w] = "notify"]
    /\ UNCHANGED <<queueVars, left, ready, published, pub, pending, todo, cur, group, cons, buf,
                   paused, pulled>>

\* Mutant of NotifyBacklog: a new consumer waits for the next message.
NotifyNothing(w) ==
    /\ loop[w] = "notify"
    /\ loop' = [loop EXCEPT ![w] = "idle"]
    /\ cur' = [cur EXCEPT ![w] = NoConsumer]
    /\ UNCHANGED <<queueVars, left, ready, waiters, published, pub, pending, todo, group, cons,
                   buf, paused, pulled>>

\* dispatcher_add_consumer(): deliver any backlog.
NotifyBacklog(w) ==
    /\ loop[w] = "notify"
    /\ pending' = Notified({w}, cons[cur[w]].queue)
    /\ loop' = [loop EXCEPT ![w] = "idle"]
    /\ cur' = [cur EXCEPT ![w] = NoConsumer]
    /\ UNCHANGED <<queueVars, left, ready, waiters, published, pub, todo, group, cons, buf,
                   paused, pulled>>

\* consumer_destroy(requeue) on cancel, channel close or disconnection: the
\* unacked messages go back, an empty group stops being woken.
Cancel(c) ==
    LET w == Home[c]
        q == cons[c].queue
    IN
    /\ "cancel" \in setup.events
    /\ loop[w] = "idle" /\ q # NoQueue
    /\ ready' = [ready EXCEPT ![q] = @ + cons[c].unacked]
    /\ cons' = [cons EXCEPT ![c] = Off]
    /\ IF Members(w) = {c}
       THEN /\ waiters' = [waiters EXCEPT ![group[w]] = @ \ {w}]
            /\ group' = [group EXCEPT ![w] = NoQueue]
            /\ pending' = pending
       ELSE /\ pending' = Notified({w}, group[w])
            /\ UNCHANGED <<waiters, group>>
    /\ loop' = [loop EXCEPT ![w] = IF "autodelete" \in setup.events THEN "left" ELSE @]
    /\ left' = [left EXCEPT ![w] = IF "autodelete" \in setup.events THEN q ELSE @]
    /\ UNCHANGED <<queueVars, published, pub, todo, cur, buf, paused, pulled>>

\* consumer_destroy(): is this the last consumer of an auto-delete queue?
LastConsumerGone(w) ==
    /\ loop[w] = "left"
    /\ loop' = [loop EXCEPT ![w] = IF ConsumerCount(left[w]) = 0 THEN "autoDelete" ELSE "idle"]
    /\ left' = [left EXCEPT ![w] = NoQueue]
    /\ UNCHANGED <<queueVars, ready, waiters, published, pub, pending, todo, cur, group,
                   cons, buf, paused, pulled>>

\* consumer_destroy(): broker_delete_queue() by name, whoever consumes it.
AutoDelete(w) ==
    /\ loop[w] = "autoDelete"
    /\ registry' = NoQueue
    /\ loop' = [loop EXCEPT ![w] = "idle"]
    /\ UNCHANGED <<setup, declared, ready, waiters, published, pub, pending, todo, cur, left, group,
                   cons, buf, paused, pulled>>

(* Other threads.                                                          *)

\* Queue.Delete: the registry drops the queue; consumers keep their reference.
Delete ==
    /\ "redeclare" \in setup.events
    /\ registry # NoQueue
    /\ registry' = NoQueue
    /\ UNCHANGED <<setup, declared, ready, waiters, published, pub, pending, loopVars, group,
                   cons, buf, paused, pulled>>

\* Queue.Declare of a name that is not there: a new queue object.
Declare ==
    /\ registry = NoQueue /\ declared < setup.queues
    /\ declared' = declared + 1
    /\ registry' = declared + 1
    /\ UNCHANGED <<setup, ready, waiters, published, pub, pending, loopVars, group, cons, buf,
                   paused, pulled>>

\* Basic.Get with manual ack on another connection, and its requeue by nack,
\* reject or channel close (chan_get_unacked_settle(), chan_release_get_unacked()).
Get ==
    /\ "get" \in setup.events
    /\ registry # NoQueue /\ ready[registry] > 0
    /\ ready' = [ready EXCEPT ![registry] = @ - 1]
    /\ pulled' = [pulled EXCEPT ![registry] = @ + 1]
    /\ UNCHANGED <<queueVars, waiters, published, pub, pending, loopVars, group, cons,
                   buf, paused>>
GetReturned(q) ==
    /\ pulled[q] > 0
    /\ pulled' = [pulled EXCEPT ![q] = @ - 1]
    /\ ready' = [ready EXCEPT ![q] = @ + 1]
    /\ UNCHANGED <<queueVars, waiters, published, pub, pending, loopVars, group, cons,
                   buf, paused>>
GetAcked(q) ==
    /\ pulled[q] > 0
    /\ pulled' = [pulled EXCEPT ![q] = @ - 1]
    /\ UNCHANGED <<queueVars, ready, waiters, published, pub, pending, loopVars, group,
                   cons, buf, paused>>

Next ==
    \/ \E p \in Publisher : Route(p) \/ Enqueue(p) \/ Wake(p)
    \/ \E w \in Worker :
        \/ OnAsync(w) \/ Dequeue(w) \/ Deliver(w) \/ AddWaiter(w) \/ NotifyBacklog(w)
        \/ LastConsumerGone(w) \/ AutoDelete(w)
        \/ \E q \in Queue : ServiceEnds(w, q) \/ DeliverFails(w, q)
    \/ \E c \in Consumer :
        \/ OnWrite(c) \/ Cancel(c)
        \/ \E n \in setup.prefetches : AddConsumer(c, n) \/ SetPrefetch(c, n)
        \/ \E k \in 1..MaxMsgs : Ack(c, k) \/ Nack(c, k)
    \/ Delete \/ Declare \/ Get
    \/ \E q \in Queue : GetReturned(q) \/ GetAcked(q)

Spec == Init /\ [][Next]_vars

\* A loop whose async handle was signalled runs the callback, a handler that
\* has begun ends, and a publishing thread ends its publish.
FairSpec ==
    /\ Spec
    /\ \A p \in Publisher : WF_vars(Enqueue(p) \/ Wake(p))
    /\ \A w \in Worker :
        /\ SF_vars(OnAsync(w))
        /\ WF_vars(\/ Dequeue(w) \/ Deliver(w) \/ AddWaiter(w) \/ NotifyBacklog(w)
                   \/ LastConsumerGone(w) \/ AutoDelete(w) \/ \E q \in Queue : ServiceEnds(w, q))

-----------------------------------------------------------------------------
(* Properties.                                                             *)

\* Every variable has the shape dispatch.c gives it.
TypeOK ==
    /\ setup \in Setup
    /\ registry \in Queue \cup {NoQueue} /\ declared \in 1..MaxQueues
    /\ ready \in [Queue -> 0..MaxMsgs] /\ pulled \in [Queue -> 0..MaxMsgs]
    /\ waiters \in [Queue -> SUBSET Worker]
    /\ published \in 0..MaxMsgs
    /\ pub \in [Publisher -> [queue : Queue \cup {NoQueue},
                              step : {"idle", "enqueue", "wake"}]]
    /\ pending \in [Worker -> SUBSET Queue] /\ todo \in [Worker -> SUBSET Queue]
    /\ loop \in [Worker -> {"idle", "service", "deliver", "addWaiter", "notify",
                            "left", "autoDelete"}]
    /\ cur \in [Worker -> Consumer \cup {NoConsumer}]
    /\ group \in [Worker -> Queue \cup {NoQueue}]
    /\ left \in [Worker -> Queue \cup {NoQueue}]
    /\ cons \in [Consumer -> [queue : Queue \cup {NoQueue}, unacked : 0..MaxMsgs,
                              prefetch : setup.prefetches \cup {0}]]
    /\ buf \in [Consumer -> 0..2] /\ paused \in [Consumer -> BOOLEAN]

\* c could be given a message of q right now.
Waiting(c, q) == cons[c].queue = q /\ Eligible(c)

\* Something will make worker w serve its group: a request it has not seen, a
\* callback it is in, or a publisher that has yet to wake the waiters of q.
WakeComing(w, q) ==
    \/ pending[w] # {} \/ loop[w] \in {"service", "deliver", "addWaiter", "notify"}
    \/ \E p \in Publisher : pub[p] = [queue |-> q, step |-> "wake"] /\ w \in waiters[q]

OneWorker == \A c, d \in Consumer : Home[c] = Home[d]

\* Where every change to a queue wakes whoever can take the message: nothing
\* returns messages behind the dispatchers' back, and a message a consumer
\* gives up has no other worker to go to.
Notifying ==
    /\ setup.events \cap {"fail", "get", "redeclare"} = {}
    /\ setup.events # {} => OneWorker

\* No lost wakeup: while a message is ready and a consumer of the queue could
\* take it, the consumer's loop is going to look (dispatcher_notify(),
\* queue_wake_waiters()).
NoLostWakeup ==
    Notifying =>
        \A q \in Queue, c \in Consumer :
            ready[q] > 0 /\ Waiting(c, q) => WakeComing(Home[c], q)

\* A ready message does not wait for ever while a consumer could take it
\* (on_async() -> service_group()).
BacklogServed ==
    \A q \in Queue, c \in Consumer :
        (Notifying /\ ready[q] > 0 /\ Waiting(c, q)) ~> (ready[q] = 0 \/ ~Waiting(c, q))

\* The same whatever the clients do: settled deliveries re-notify the queue, as
\* the comment of settle_unacked() says.
BacklogAlwaysServed ==
    \A q \in Queue, c \in Consumer :
        (ready[q] > 0 /\ Waiting(c, q)) ~> (ready[q] = 0 \/ ~Waiting(c, q))

=============================================================================
