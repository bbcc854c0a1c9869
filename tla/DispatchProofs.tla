--------------------------- MODULE DispatchProofs ---------------------------
(***************************************************************************)
(* Theorems about Dispatch, for any number of workers, consumers,          *)
(* publishing threads and messages, and every setup.                       *)
(***************************************************************************)
EXTENDS Dispatch, TLAPS, FiniteSetTheorems

\* A consumer's queue and Basic.Qos window, and a publishing thread's progress.
Window == [queue : Queue \cup {NoQueue}, unacked : Nat, prefetch : Nat]
Progress == [queue : Queue \cup {NoQueue}, step : {"idle", "enqueue", "wake"}]
Place == {"idle", "service", "deliver", "addWaiter", "notify", "left", "autoDelete"}

\* What the argument needs of the shape of the state.  (That the messages add up
\* and which queues are in a pending list are TypeOK's concern.)
Shape ==
    /\ setup \in Setup
    /\ registry \in Queue \cup {NoQueue} /\ declared \in 1..MaxQueues
    /\ ready \in [Queue -> Nat] /\ pulled \in [Queue -> Nat]
    /\ waiters \in [Queue -> SUBSET Worker]
    /\ pub \in [Publisher -> Progress]
    /\ DOMAIN pending = Worker
    /\ loop \in [Worker -> Place]
    /\ cur \in [Worker -> Consumer \cup {NoConsumer}]
    /\ group \in [Worker -> Queue \cup {NoQueue}]
    /\ left \in [Worker -> Queue \cup {NoQueue}]
    /\ cons \in [Consumer -> Window]
    /\ buf \in [Consumer -> 0..2] /\ paused \in [Consumer -> BOOLEAN]

\* A worker's group is for the registered queue, has exactly the worker's
\* consumers and is among the queue's waiters, but for the moment in which
\* dispatcher_add_consumer() creates it.
Grouped ==
    /\ \A w \in Worker : group[w] # NoQueue => group[w] = registry /\ Members(w) # {}
    /\ \A c \in Consumer : cons[c].queue # NoQueue => cons[c].queue = group[Home[c]]
    /\ \A w \in Worker :
        group[w] # NoQueue => loop[w] = "addWaiter" \/ w \in waiters[group[w]]
    /\ \A w \in Worker : loop[w] \in {"addWaiter", "notify", "deliver"} => cur[w] \in Members(w)

\* consumer_destroy() deletes an auto-delete queue only when no group is left.
Leaving ==
    \A w \in Worker :
        /\ loop[w] \in {"left", "autoDelete"} =>
            "autodelete" \in setup.events /\ \E c \in Consumer : Home[c] = w
        /\ loop[w] = "left" => left[w] = registry /\ registry # NoQueue
        /\ loop[w] = "autoDelete" => group[w] = NoQueue

\* c has not been passed over because of its socket, and its window has room.
\* (Eligible asks for a drained socket as well.  A socket that drains a little
\* makes its consumer eligible and wakes nobody, so the wakeup must be on its way
\* already.)
CouldTake(c) == cons[c].queue # NoQueue /\ ~paused[c] /\ HasRoom(c)

\* Whoever could take a ready message has a wakeup coming.
Attended ==
    \A c \in Consumer :
        CouldTake(c) /\ ready[cons[c].queue] > 0 => WakeComing(Home[c], cons[c].queue)

\* Nothing is out by Basic.Get, whose return would wake nobody.
NonePulled == \A q \in Queue : pulled[q] = 0

Orderly == Grouped /\ Leaving /\ NonePulled /\ Attended

WakeInv == Shape /\ (Notifying => Orderly)

-----------------------------------------------------------------------------
(* Shape.                                                                  *)

\* What a setup is made of.
LEMMA SetupFacts ==
    ASSUME setup \in Setup
    PROVE  /\ Home \in [Consumer -> Worker] /\ NoAck \subseteq Consumer
           /\ setup.prefetches \subseteq Nat /\ setup.queues \in Queue
BY DEF Setup, Home, NoAck

\* dispatcher_notify() only adds to the pending lists.
LEMMA NotifiedShape ==
    ASSUME NEW ws, NEW q
    PROVE  /\ DOMAIN Notified(ws, q) = Worker
           /\ \A w \in Worker : pending[w] # {} => Notified(ws, q)[w] # {}
           /\ \A w \in Worker : w \in ws => Notified(ws, q)[w] # {}
<1>1. DOMAIN Notified(ws, q) = Worker  BY ZenonT(30) DEF Notified
<1>2. ASSUME NEW w \in Worker, pending[w] # {}
      PROVE  Notified(ws, q)[w] # {}
  <2>1. Notified(ws, q)[w] \in {pending[w] \cup {q}, pending[w]}  BY ZenonT(30) DEF Notified
  <2>. QED  BY <1>2, <2>1, ZenonT(30)
<1>3. ASSUME NEW w \in Worker, w \in ws
      PROVE  Notified(ws, q)[w] # {}
  <2>1. Notified(ws, q)[w] = pending[w] \cup {q}  BY <1>3, ZenonT(30) DEF Notified
  <2>. QED  BY <2>1, ZenonT(30)
<1>. QED  BY <1>1, <1>2, <1>3, ZenonT(30)

\* The initial state has the shape.
LEMMA InitShape ==
    ASSUME Init
    PROVE  Shape
<1>1. setup \in Setup  BY SetupAssumption, ZenonT(30) DEF Init
<1>2. /\ registry \in Queue \cup {NoQueue} /\ declared \in 1..MaxQueues
      /\ ready \in [Queue -> Nat] /\ pulled \in [Queue -> Nat] /\ buf \in [Consumer -> 0..2]
  BY DispatchAssumption, SMTT(30) DEF Init, Queue
<1>3. IdlePub \in Progress /\ Off \in Window  BY SMTT(30) DEF IdlePub, Progress, Off, Window
<1>4. pub \in [Publisher -> Progress] /\ cons \in [Consumer -> Window]
  BY <1>3, ZenonT(30) DEF Init
<1>5. /\ waiters \in [Queue -> SUBSET Worker]
      /\ DOMAIN pending = Worker
  BY ZenonT(30) DEF Init
<1>6. /\ cur \in [Worker -> Consumer \cup {NoConsumer}]
      /\ group \in [Worker -> Queue \cup {NoQueue}] /\ left \in [Worker -> Queue \cup {NoQueue}]
      /\ paused \in [Consumer -> BOOLEAN]
  BY ZenonT(30) DEF Init
<1>7. loop \in [Worker -> Place]  BY ZenonT(30) DEF Init, Place
<1>. QED  BY <1>1, <1>2, <1>4, <1>5, <1>6, <1>7, ZenonT(30) DEF Shape

\* An update of a function, in its domain or not.
LEMMA Updated ==
    ASSUME NEW S, NEW T, NEW f \in [S -> T], NEW q, NEW e, q \in S => e \in T
    PROVE  [f EXCEPT ![q] = e] \in [S -> T]
BY ZenonT(30)

\* A counter that goes up.
LEMMA Raised ==
    ASSUME NEW S, NEW f \in [S -> Nat], NEW q, NEW k \in Nat
    PROVE  [f EXCEPT ![q] = @ + k] \in [S -> Nat]
<1>1. q \in S => f[q] + k \in Nat  BY SMTT(30)
<1>. QED  BY <1>1, Updated, ZenonT(30)

\* A consumer's window keeps its shape when the deliveries in it change.
LEMMA WindowShape ==
    ASSUME cons \in [Consumer -> Window], NEW c, NEW n,
           c \in Consumer => n \in Nat, cons' = [cons EXCEPT ![c].unacked = n]
    PROVE  cons' \in [Consumer -> Window]
<1>1. c \in Consumer => [cons[c] EXCEPT !.unacked = n] \in Window  BY SMTT(30) DEF Window
<1>2. cons' = [cons EXCEPT ![c] = [cons[c] EXCEPT !.unacked = n]]  BY ZenonT(30)
<1>. QED  BY <1>1, <1>2, Updated, ZenonT(30)

\* Where the loop goes next.
LEMMA LoopShape ==
    ASSUME loop \in [Worker -> Place], NEW w, NEW s \in Place, loop' = [loop EXCEPT ![w] = s]
    PROVE  loop' \in [Worker -> Place]
BY ZenonT(30)

\* No publishing thread breaks the shape.
LEMMA PublisherShape ==
    ASSUME Shape, NEW p \in Publisher, Route(p) \/ Enqueue(p) \/ Wake(p)
    PROVE  Shape'
<1>. USE DEF Progress
<1>1. CASE Route(p)
  <2>1. [queue |-> registry, step |-> "enqueue"] \in Progress  BY SMTT(30) DEF Shape
  <2>2. pub' \in [Publisher -> Progress]  BY <1>1, <2>1, ZenonT(30) DEF Shape, Route
  <2>. QED  BY <1>1, <2>2, ZenonT(30) DEF Shape, Route, queueVars, loopVars
<1>2. CASE Enqueue(p)
  <2>1. ready' \in [Queue -> Nat]  BY <1>2, Raised, ZenonT(30) DEF Shape, Enqueue
  <2>2. pub[p] \in Progress  BY ZenonT(30) DEF Shape
  <2>3. [pub[p] EXCEPT !.step = "wake"] \in Progress  BY <2>2, SMTT(30)
  <2>4. pub' = [pub EXCEPT ![p] = [pub[p] EXCEPT !.step = "wake"]]
    BY <1>2, ZenonT(30) DEF Enqueue
  <2>5. pub' \in [Publisher -> Progress]  BY <2>3, <2>4, ZenonT(30) DEF Shape
  <2>. QED  BY <1>2, <2>1, <2>5, ZenonT(30) DEF Shape, Enqueue, queueVars, loopVars
<1>3. CASE Wake(p)
  <2>1. IdlePub \in Progress  BY SMTT(30) DEF IdlePub
  <2>2. pub' \in [Publisher -> Progress]  BY <1>3, <2>1, ZenonT(30) DEF Shape, Wake
  <2>3. DOMAIN pending' = Worker
    BY <1>3, NotifiedShape, ZenonT(30) DEF Wake
  <2>. QED  BY <1>3, <2>2, <2>3, ZenonT(30) DEF Shape, Wake, queueVars, loopVars
<1>. QED  BY <1>1, <1>2, <1>3

\* A scan keeps the flags Boolean.
LEMMA PauseShape ==
    ASSUME NEW cs, Pause(cs)
    PROVE  paused' \in [Consumer -> BOOLEAN]
<1>1. \A c \in Consumer : (c \in cs \/ paused[c]) \in BOOLEAN  BY ZenonT(30)
<1>. QED  BY <1>1, ZenonT(30) DEF Pause

\* No step of a worker's callbacks breaks the shape.
LEMMA WorkerShape ==
    ASSUME Shape, NEW w \in Worker,
           \/ OnAsync(w) \/ Dequeue(w) \/ Deliver(w) \/ AddWaiter(w) \/ NotifyBacklog(w)
           \/ LastConsumerGone(w) \/ AutoDelete(w)
           \/ \E q \in Queue : ServiceEnds(w, q) \/ DeliverFails(w, q)
    PROVE  Shape'
<1>0. /\ loop \in [Worker -> Place] /\ cons \in [Consumer -> Window]
      /\ \A s \in {"idle", "service", "deliver", "addWaiter", "notify"} : s \in Place
      /\ "autoDelete" \in Place
  BY ZenonT(30) DEF Shape, Place
<1>1. CASE OnAsync(w)
  <2>1. loop' \in [Worker -> Place]  BY <1>0, <1>1, LoopShape, ZenonT(30) DEF OnAsync
  <2>2. DOMAIN pending' = Worker
    BY <1>1, ZenonT(30) DEF Shape, OnAsync
  <2>. QED  BY <1>1, <2>1, <2>2, ZenonT(30) DEF Shape, OnAsync, queueVars
<1>2. CASE Dequeue(w)
  <2>1. loop' \in [Worker -> Place]  BY <1>0, <1>2, LoopShape, ZenonT(30) DEF Dequeue
  <2>2. ready' \in [Queue -> Nat]
    <3>1. group[w] \in Queue => ready[group[w]] - 1 \in Nat
      BY <1>2, SMTT(30) DEF Shape, Dequeue
    <3>2. ready \in [Queue -> Nat] /\ ready' = [ready EXCEPT ![group[w]] = ready[group[w]] - 1]
      BY <1>2, ZenonT(30) DEF Shape, Dequeue
    <3>3. PICK n : n = ready[group[w]] - 1  BY ZenonT(30)
    <3>4. /\ group[w] \in Queue => n \in Nat
          /\ ready \in [Queue -> Nat] /\ ready' = [ready EXCEPT ![group[w]] = n]
      BY <3>1, <3>2, <3>3, ZenonT(30)
    <3>. QED  BY <3>4, Updated, ZenonT(30)
  <2>3. cur' \in [Worker -> Consumer \cup {NoConsumer}]
    BY <1>2, ZenonT(30) DEF Shape, Dequeue, Members
  <2>4. paused' \in [Consumer -> BOOLEAN]  BY <1>2, PauseShape, ZenonT(30) DEF Dequeue
  <2>. QED  BY <1>2, <2>1, <2>2, <2>3, <2>4, ZenonT(30) DEF Shape, Dequeue, queueVars
<1>3. CASE Deliver(w)
  <2>1. buf' \in [Consumer -> 0..2]
    <3>1. PICK b \in buf[cur[w]]..2 : buf' = [buf EXCEPT ![cur[w]] = b]
      BY <1>3, ZenonT(30) DEF Deliver
    <3>2. cur[w] \in Consumer => b \in 0..2  BY SMTT(30) DEF Shape
    <3>3. buf \in [Consumer -> 0..2]  BY ZenonT(30) DEF Shape
    <3>. QED  BY <3>1, <3>2, <3>3, Updated, ZenonT(30)
  <2>2. cons' \in [Consumer -> Window]
    <3>1. cons' = cons \/ cons' = [cons EXCEPT ![cur[w]].unacked = @ + 1]
      BY <1>3, ZenonT(30) DEF Deliver
    <3>2. cur[w] \in Consumer => cons[cur[w]].unacked + 1 \in Nat
      BY <1>0, SMTT(30) DEF Window
    <3>. QED  BY <1>0, <3>1, <3>2, WindowShape, ZenonT(30)
  <2>3. loop' \in [Worker -> Place]  BY <1>0, <1>3, LoopShape, ZenonT(30) DEF Deliver
  <2>4. cur' \in [Worker -> Consumer \cup {NoConsumer}]
    BY <1>3, ZenonT(30) DEF Shape, Deliver
  <2>. QED  BY <1>3, <2>1, <2>2, <2>3, <2>4, ZenonT(30) DEF Shape, Deliver, queueVars
<1>4. CASE AddWaiter(w)
  <2>1. waiters' \in [Queue -> SUBSET Worker]  BY <1>4, ZenonT(60) DEF Shape, AddWaiter
  <2>2. loop' \in [Worker -> Place]  BY <1>0, <1>4, LoopShape, ZenonT(30) DEF AddWaiter
  <2>. QED  BY <1>4, <2>1, <2>2, ZenonT(30) DEF Shape, AddWaiter, queueVars
<1>5. CASE NotifyBacklog(w)
  <2>1. loop' \in [Worker -> Place]  BY <1>0, <1>5, LoopShape, ZenonT(30) DEF NotifyBacklog
  <2>2. cur' \in [Worker -> Consumer \cup {NoConsumer}]
    BY <1>5, ZenonT(30) DEF Shape, NotifyBacklog
  <2>3. DOMAIN pending' = Worker  BY <1>5, NotifiedShape, ZenonT(30) DEF NotifyBacklog
  <2>. QED  BY <1>5, <2>1, <2>2, <2>3, ZenonT(30) DEF Shape, NotifyBacklog, queueVars
<1>6. CASE LastConsumerGone(w)
  <2>1. loop' \in [Worker -> Place]
    BY <1>0, <1>6, LoopShape, ZenonT(30) DEF LastConsumerGone
  <2>2. left' \in [Worker -> Queue \cup {NoQueue}]
    BY <1>6, ZenonT(30) DEF Shape, LastConsumerGone
  <2>. QED  BY <1>6, <2>1, <2>2, ZenonT(30) DEF Shape, LastConsumerGone, queueVars
<1>7. CASE AutoDelete(w)
  <2>1. loop' \in [Worker -> Place]  BY <1>0, <1>7, LoopShape, ZenonT(30) DEF AutoDelete
  <2>. QED  BY <1>7, <2>1, ZenonT(30) DEF Shape, AutoDelete
<1>8. ASSUME NEW q \in Queue, ServiceEnds(w, q)
      PROVE  Shape'
  <2>1. loop' \in [Worker -> Place]
    BY <1>0, <1>8, LoopShape, ZenonT(30) DEF ServiceEnds, Serviced
  <2>2. cur' \in [Worker -> Consumer \cup {NoConsumer}]
    BY <1>8, ZenonT(30) DEF Shape, ServiceEnds, Serviced
  <2>3. paused' \in [Consumer -> BOOLEAN]
    BY <1>8, PauseShape, ZenonT(30) DEF Shape, ServiceEnds
  <2>. QED  BY <1>8, <2>1, <2>2, <2>3, ZenonT(30) DEF Shape, ServiceEnds, queueVars
<1>9. ASSUME NEW q \in Queue, DeliverFails(w, q)
      PROVE  Shape'
  <2>1. loop' \in [Worker -> Place]
    BY <1>0, <1>9, LoopShape, ZenonT(30) DEF DeliverFails, Serviced
  <2>2. cur' \in [Worker -> Consumer \cup {NoConsumer}]
    BY <1>9, ZenonT(30) DEF Shape, DeliverFails, Serviced
  <2>3. ready' \in [Queue -> Nat]  BY <1>9, Raised, ZenonT(30) DEF Shape, DeliverFails
  <2>. QED  BY <1>9, <2>1, <2>2, <2>3, ZenonT(30) DEF Shape, DeliverFails, queueVars
<1>. QED  BY <1>1, <1>2, <1>3, <1>4, <1>5, <1>6, <1>7, <1>8, <1>9

\* No handler of a consumer's connection breaks the shape.
LEMMA ConsumerShape ==
    ASSUME Shape, NEW c \in Consumer,
           \/ OnWrite(c) \/ Cancel(c)
           \/ \E n \in setup.prefetches : AddConsumer(c, n) \/ SetPrefetch(c, n)
           \/ \E k \in 1..MaxMsgs : Ack(c, k) \/ Nack(c, k)
    PROVE  Shape'
<1>0. /\ setup.prefetches \subseteq Nat
      /\ cons \in [Consumer -> Window] /\ ready \in [Queue -> Nat]
  BY SetupFacts, ZenonT(30) DEF Shape
<1>a. cons[c].unacked \in Nat  BY <1>0, SMTT(30) DEF Window
<1>b. ASSUME NEW k \in 1..MaxMsgs, k \in 1..cons[c].unacked,
             cons' = [cons EXCEPT ![c].unacked = @ - k]
      PROVE  cons' \in [Consumer -> Window]
  <2>1. cons[c].unacked - k \in Nat  BY <1>a, <1>b, SMTT(30)
  <2>. QED  BY <1>0, <1>b, <2>1, WindowShape, ZenonT(30)
<1>1. CASE OnWrite(c)
  <2>1. buf' \in [Consumer -> 0..2]
    <3>1. buf[c] - 1 \in 0..2  BY <1>1, SMTT(30) DEF Shape, OnWrite
    <3>. QED  BY <1>1, <3>1, Updated, ZenonT(30) DEF Shape, OnWrite
  <2>2. paused' \in [Consumer -> BOOLEAN] /\ DOMAIN pending' = Worker
    <3>1. /\ paused' = paused \/ paused' = [paused EXCEPT ![c] = FALSE]
          /\ pending' = pending \/ pending' = Notified({Home[c]}, cons[c].queue)
      BY <1>1, ZenonT(30) DEF OnWrite
    <3>2. paused \in [Consumer -> BOOLEAN] /\ DOMAIN pending = Worker  BY ZenonT(30) DEF Shape
    <3>3. paused' \in [Consumer -> BOOLEAN]  BY <3>1, <3>2, ZenonT(30)
    <3>. QED  BY <3>1, <3>2, <3>3, NotifiedShape, ZenonT(60)
  <2>. QED  BY <1>1, <2>1, <2>2, ZenonT(30) DEF Shape, OnWrite, queueVars, loopVars
<1>2. CASE Cancel(c)
  <2>1. ready' \in [Queue -> Nat]  BY <1>0, <1>2, <1>a, Raised, ZenonT(30) DEF Cancel
  <2>2. Off \in Window  BY SMTT(30) DEF Off, Window
  <2>3. cons' \in [Consumer -> Window]  BY <1>0, <1>2, <2>2, ZenonT(30) DEF Cancel
  <2>4. loop' \in [Worker -> Place]
    <3>1. loop \in [Worker -> Place]  BY ZenonT(30) DEF Shape
    <3>2. loop' = [loop EXCEPT ![Home[c]] = "left"] \/ loop' = [loop EXCEPT ![Home[c]] = @]
      BY <1>2, ZenonT(30) DEF Cancel
    <3>3. "left" \in Place  BY ZenonT(30) DEF Place
    <3>. QED  BY <3>1, <3>2, <3>3, Updated, ZenonT(30)
  <2>5. left' \in [Worker -> Queue \cup {NoQueue}]
    <3>1. /\ left \in [Worker -> Queue \cup {NoQueue}]
          /\ \/ left' = [left EXCEPT ![Home[c]] = cons[c].queue]
             \/ left' = [left EXCEPT ![Home[c]] = @]
      BY <1>2, ZenonT(30) DEF Shape, Cancel
    <3>2. cons[c].queue \in Queue \cup {NoQueue}  BY <1>0, SMTT(30) DEF Window
    <3>. QED  BY <3>1, <3>2, Updated, ZenonT(30)
  <2>6. /\ waiters' \in [Queue -> SUBSET Worker] /\ group' \in [Worker -> Queue \cup {NoQueue}]
        /\ DOMAIN pending' = Worker
    <3>1. CASE Members(Home[c]) = {c}
      <4>1. /\ waiters' = [waiters EXCEPT ![group[Home[c]]] = @ \ {Home[c]}]
            /\ group' = [group EXCEPT ![Home[c]] = NoQueue] /\ pending' = pending
        BY <1>2, <3>1, ZenonT(30) DEF Cancel
      <4>2. waiters \in [Queue -> SUBSET Worker]  BY ZenonT(30) DEF Shape
      <4>3. group[Home[c]] \in Queue
                => waiters[group[Home[c]]] \ {Home[c]} \in SUBSET Worker
        BY <4>2, ZenonT(30)
      <4>4. waiters' \in [Queue -> SUBSET Worker]  BY <4>1, <4>2, <4>3, Updated, ZenonT(30)
      <4>. QED  BY <4>1, <4>4, ZenonT(30) DEF Shape
    <3>2. CASE Members(Home[c]) # {c}
      <4>1. /\ pending' = Notified({Home[c]}, group[Home[c]])
            /\ waiters' = waiters /\ group' = group
        BY <1>2, <3>2, ZenonT(30) DEF Cancel
      <4>2. /\ waiters \in [Queue -> SUBSET Worker]
            /\ group \in [Worker -> Queue \cup {NoQueue}]
        BY ZenonT(30) DEF Shape
      <4>. QED  BY <4>1, <4>2, NotifiedShape, ZenonT(30)
    <3>. QED  BY <3>1, <3>2, ZenonT(30)
  <2>. QED  BY <1>2, <2>1, <2>3, <2>4, <2>5, <2>6, ZenonT(30) DEF Shape, Cancel, queueVars
<1>3. ASSUME NEW n \in setup.prefetches, AddConsumer(c, n)
      PROVE  Shape'
  <2>1. registry \in Queue  BY <1>3, ZenonT(30) DEF Shape, AddConsumer
  <2>2. [queue |-> registry, unacked |-> 0, prefetch |-> n] \in Window
    BY <1>0, <2>1, SMTT(30) DEF Window
  <2>3. cons' \in [Consumer -> Window]  BY <1>0, <1>3, <2>2, ZenonT(30) DEF AddConsumer
  <2>4. group' \in [Worker -> Queue \cup {NoQueue}]
    <3>1. /\ group \in [Worker -> Queue \cup {NoQueue}]
          /\ \/ group' = [group EXCEPT ![Home[c]] = registry]
             \/ group' = [group EXCEPT ![Home[c]] = @]
      BY <1>3, ZenonT(30) DEF Shape, AddConsumer
    <3>2. CASE group' = [group EXCEPT ![Home[c]] = registry]
      <4>1. registry \in Queue \cup {NoQueue}  BY <2>1, ZenonT(30)
      <4>. QED  BY <3>1, <3>2, <4>1, Updated, ZenonT(30)
    <3>3. CASE group' = [group EXCEPT ![Home[c]] = @]
      <4>1. Home[c] \in Worker => group[Home[c]] \in Queue \cup {NoQueue}  BY <3>1, ZenonT(30)
      <4>. QED  BY <3>1, <3>3, <4>1, Updated, ZenonT(30)
    <3>. QED  BY <3>1, <3>2, <3>3, ZenonT(30)
  <2>5. loop' \in [Worker -> Place]
    <3>1. /\ loop \in [Worker -> Place]
          /\ \/ loop' = [loop EXCEPT ![Home[c]] = "addWaiter"]
             \/ loop' = [loop EXCEPT ![Home[c]] = "notify"]
      BY <1>3, ZenonT(30) DEF Shape, AddConsumer
    <3>2. "addWaiter" \in Place /\ "notify" \in Place  BY ZenonT(30) DEF Place
    <3>. QED  BY <3>1, <3>2, LoopShape, ZenonT(30)
  <2>6. cur' \in [Worker -> Consumer \cup {NoConsumer}]
    BY <1>3, ZenonT(30) DEF Shape, AddConsumer
  <2>. QED  BY <1>3, <2>3, <2>4, <2>5, <2>6, ZenonT(30) DEF Shape, AddConsumer, queueVars
<1>4. ASSUME NEW n \in setup.prefetches, SetPrefetch(c, n)
      PROVE  Shape'
  <2>1. [cons[c] EXCEPT !.prefetch = n] \in Window  BY <1>0, SMTT(30) DEF Window
  <2>2. cons' = [cons EXCEPT ![c] = [cons[c] EXCEPT !.prefetch = n]]
    BY <1>4, ZenonT(30) DEF SetPrefetch
  <2>3. cons' \in [Consumer -> Window]  BY <1>0, <2>1, <2>2, ZenonT(30)
  <2>4. DOMAIN pending' = Worker  BY <1>4, NotifiedShape, ZenonT(30) DEF SetPrefetch
  <2>. QED  BY <1>4, <2>3, <2>4, ZenonT(30) DEF Shape, SetPrefetch, queueVars, loopVars
<1>5. ASSUME NEW k \in 1..MaxMsgs, Ack(c, k)
      PROVE  Shape'
  <2>1. cons' \in [Consumer -> Window]  BY <1>5, <1>b, ZenonT(30) DEF Ack
  <2>2. DOMAIN pending' = Worker  BY <1>5, NotifiedShape, ZenonT(30) DEF Ack
  <2>. QED  BY <1>5, <2>1, <2>2, ZenonT(30) DEF Shape, Ack, queueVars, loopVars
<1>6. ASSUME NEW k \in 1..MaxMsgs, Nack(c, k)
      PROVE  Shape'
  <2>1. cons' \in [Consumer -> Window]  BY <1>6, <1>b, ZenonT(30) DEF Nack
  <2>2. DOMAIN pending' = Worker  BY <1>6, NotifiedShape, ZenonT(30) DEF Nack
  <2>3. k \in Nat  BY <1>6, SMTT(30)
  <2>4. ready' \in [Queue -> Nat]  BY <1>0, <1>6, <2>3, Raised, ZenonT(30) DEF Nack
  <2>. QED  BY <1>6, <2>1, <2>2, <2>4, ZenonT(30) DEF Shape, Nack, queueVars, loopVars
<1>. QED  BY <1>1, <1>2, <1>3, <1>4, <1>5, <1>6, ZenonT(30)

\* No step of another thread breaks the shape.
LEMMA OtherShape ==
    ASSUME Shape, \/ Delete \/ Declare \/ Get
                  \/ \E q \in Queue : GetReturned(q) \/ GetAcked(q)
    PROVE  Shape'
<1>0. ready \in [Queue -> Nat] /\ pulled \in [Queue -> Nat]  BY ZenonT(30) DEF Shape
<1>1. CASE Delete
  BY <1>1, ZenonT(30) DEF Shape, Delete, loopVars
<1>2. CASE Declare
  <2>1. setup.queues \in Queue  BY SetupFacts, ZenonT(30) DEF Shape
  <2>2. registry' \in Queue \cup {NoQueue} /\ declared' \in 1..MaxQueues
    BY <1>2, <2>1, DispatchAssumption, SMTT(30) DEF Shape, Declare, Queue
  <2>. QED  BY <1>2, <2>2, ZenonT(30) DEF Shape, Declare, loopVars
<1>3. CASE Get
  <2>1. registry \in Queue  BY <1>3, ZenonT(30) DEF Shape, Get
  <2>2. ready[registry] - 1 \in Nat  BY <1>0, <1>3, <2>1, SMTT(30) DEF Get
  <2>3. ready' \in [Queue -> Nat]
    <3>1. ready' = [ready EXCEPT ![registry] = ready[registry] - 1]  BY <1>3, ZenonT(30) DEF Get
    <3>. QED  BY <1>0, <2>2, <3>1, Updated, ZenonT(30)
  <2>4. pulled' \in [Queue -> Nat]  BY <1>0, <1>3, Raised, ZenonT(30) DEF Get
  <2>. QED  BY <1>3, <2>3, <2>4, ZenonT(30) DEF Shape, Get, queueVars, loopVars
<1>4. ASSUME NEW q \in Queue, GetReturned(q) \/ GetAcked(q)
      PROVE  Shape'
  <2>1. pulled' = [pulled EXCEPT ![q] = pulled[q] - 1] /\ pulled[q] > 0
    BY <1>4, ZenonT(30) DEF GetReturned, GetAcked
  <2>2. pulled[q] - 1 \in Nat  BY <1>0, <2>1, SMTT(30)
  <2>3. pulled' \in [Queue -> Nat]  BY <1>0, <2>1, <2>2, Updated, ZenonT(30)
  <2>4. ready' = ready \/ ready' = [ready EXCEPT ![q] = @ + 1]
    BY <1>4, ZenonT(30) DEF GetReturned, GetAcked
  <2>5. ready' \in [Queue -> Nat]
    <3>1. CASE ready' = ready  BY <1>0, <3>1, ZenonT(30)
    <3>2. CASE ready' = [ready EXCEPT ![q] = @ + 1]  BY <1>0, <3>2, Raised, ZenonT(30)
    <3>. QED  BY <2>4, <3>1, <3>2, ZenonT(30)
  <2>. QED  BY <1>4, <2>3, <2>5, ZenonT(30) DEF Shape, GetReturned, GetAcked, queueVars, loopVars
<1>. QED  BY <1>1, <1>2, <1>3, <1>4, ZenonT(30)

\* No step breaks the shape.
LEMMA StepKeepsShape ==
    ASSUME Shape, [Next]_vars
    PROVE  Shape'
<1>1. CASE UNCHANGED vars
  BY <1>1, ZenonT(30) DEF Shape, vars, queueVars, loopVars
<1>2. CASE Next
  BY <1>2, PublisherShape, WorkerShape, ConsumerShape, OtherShape, ZenonT(30) DEF Next
<1>. QED  BY <1>1, <1>2, ZenonT(30)

-----------------------------------------------------------------------------
(* Groups.                                                                 *)

\* A worker's consumers.
LEMMA MembersMeaning ==
    ASSUME NEW w, NEW c
    PROVE  c \in Members(w) <=> c \in Consumer /\ Home[c] = w /\ cons[c].queue # NoQueue
BY ZenonT(30) DEF Members

\* A worker's consumers after a step.
LEMMA MembersNext ==
    ASSUME setup' = setup, NEW w, NEW c
    PROVE  c \in Members(w)' <=> c \in Consumer /\ Home[c] = w /\ cons'[c].queue # NoQueue
BY ZenonT(30) DEF Members, Home

\* Steps that touch no group: the registry, the waiters and everybody's queue
\* stay, and a worker at most returns to its loop or to service_group(), or has
\* a message for one of its consumers.
GroupsStay ==
    /\ UNCHANGED <<setup, registry, waiters, group, left>>
    /\ \A c \in Consumer : cons'[c].queue = cons[c].queue
    /\ \A w \in Worker :
        \/ loop'[w] = loop[w] /\ cur'[w] = cur[w]
        \/ loop'[w] \in {"idle", "service"} /\ loop[w] # "addWaiter"
        \/ loop'[w] = "deliver" /\ loop[w] # "addWaiter" /\ cur'[w] \in Members(w)

\* Such steps keep the groups in order.
LEMMA GroupsKept ==
    ASSUME Grouped, Leaving, GroupsStay
    PROVE  Grouped' /\ Leaving'
<1>1. Home' = Home  BY ZenonT(30) DEF GroupsStay, Home
<1>2. ASSUME NEW w PROVE Members(w)' = Members(w)
  <2>1. \A c \in Consumer : cons'[c].queue = cons[c].queue  BY ZenonT(30) DEF GroupsStay
  <2>. QED  BY <1>1, <2>1, SMTT(30) DEF Members
<1>3. \A w \in Worker : group'[w] # NoQueue => group'[w] = registry' /\ Members(w)' # {}
  BY <1>2, ZenonT(30) DEF Grouped, GroupsStay
<1>4. \A c \in Consumer : cons'[c].queue # NoQueue => cons'[c].queue = group'[Home'[c]]
  BY <1>1, ZenonT(30) DEF Grouped, GroupsStay
<1>5. \A w \in Worker :
        group'[w] # NoQueue => loop'[w] = "addWaiter" \/ w \in waiters'[group'[w]]
  BY ZenonT(30) DEF Grouped, GroupsStay
<1>6. \A w \in Worker :
        loop'[w] \in {"addWaiter", "notify", "deliver"} => cur'[w] \in Members(w)'
  BY <1>2, ZenonT(30) DEF Grouped, GroupsStay
<1>7. Leaving'
  <2>. SUFFICES ASSUME NEW w \in Worker
                PROVE  /\ loop'[w] \in {"left", "autoDelete"} =>
                            "autodelete" \in setup'.events /\ \E c \in Consumer : Home'[c] = w
                       /\ loop'[w] = "left" => left'[w] = registry' /\ registry' # NoQueue
                       /\ loop'[w] = "autoDelete" => group'[w] = NoQueue
    BY ZenonT(30) DEF Leaving
  <2>1. UNCHANGED <<setup, registry, group, left>>  BY ZenonT(30) DEF GroupsStay
  <2>2. loop'[w] = loop[w] \/ loop'[w] \in {"idle", "service", "deliver"}
    BY ZenonT(30) DEF GroupsStay
  <2>. QED  BY <1>1, <2>1, <2>2, ZenonT(30) DEF Leaving
<1>. QED  BY <1>3, <1>4, <1>5, <1>6, <1>7, ZenonT(30) DEF Grouped

-----------------------------------------------------------------------------
(* Wakeups.                                                                *)

\* Worker w has been told or is about to look.
Called(w) == pending[w] # {} \/ loop[w] \in {"service", "deliver", "addWaiter", "notify"}

\* No step takes back a wakeup: a worker that has been called looks before it
\* is idle again, and a publisher that is to wake w still will.
WakesStay ==
    /\ \A w \in Worker : Called(w) => Called(w)'
    /\ \A p \in Publisher : pub[p].step = "wake" => pub'[p] = pub[p]
    /\ \A q \in Queue : waiters[q] \subseteq waiters'[q]

\* c has no more of a claim to a message than before the step.
NoNewClaim(c) ==
    CouldTake(c)' => /\ CouldTake(c) /\ cons'[c].queue = cons[c].queue
                     /\ ready'[cons[c].queue] > 0 => ready[cons[c].queue] > 0

\* WakeComing with its first two alternatives taken together.
LEMMA WakeMeaning ==
    ASSUME NEW w, NEW q
    PROVE  WakeComing(w, q) <=>
             \/ Called(w)
             \/ \E p \in Publisher : pub[p] = [queue |-> q, step |-> "wake"] /\ w \in waiters[q]
BY ZenonT(30) DEF WakeComing, Called

\* A worker that is called will look.
LEMMA CalledComes ==
    ASSUME NEW w, NEW q, Called(w)'
    PROVE  WakeComing(w, q)'
BY ZenonT(30) DEF WakeComing, Called

\* A wakeup that is coming is still coming.
LEMMA WakeKept ==
    ASSUME NEW w, NEW q, WakeComing(w, q), Called(w) => Called(w)',
           \A p \in Publisher :
               pub[p] = [queue |-> q, step |-> "wake"] /\ w \in waiters[q] =>
                   Called(w)' \/ (pub'[p] = pub[p] /\ w \in waiters'[q])
    PROVE  WakeComing(w, q)'
<1>1. CASE Called(w)  BY <1>1, CalledComes, ZenonT(30)
<1>2. ASSUME NEW p \in Publisher, pub[p] = [queue |-> q, step |-> "wake"], w \in waiters[q]
      PROVE  WakeComing(w, q)'
  <2>1. CASE Called(w)'  BY <2>1, CalledComes, ZenonT(30)
  <2>2. CASE pub'[p] = pub[p] /\ w \in waiters'[q]
    <3>1. pub'[p] = [queue |-> q, step |-> "wake"] /\ w \in waiters'[q]
      BY <1>2, <2>2, ZenonT(30)
    <3>. QED  BY <3>1, ZenonT(30) DEF WakeComing
  <2>. QED  BY <1>2, <2>1, <2>2, ZenonT(30)
<1>. QED  BY <1>1, <1>2, WakeMeaning, ZenonT(30)

\* It is enough to look at each consumer with a claim.
LEMMA AttendedIf ==
    ASSUME Shape, Shape', setup' = setup,
           \A c \in Consumer, w \in Worker, q \in Queue :
               /\ Home[c] = w /\ cons'[c].queue = q /\ q # NoQueue
               /\ CouldTake(c)' /\ ready'[q] > 0
               => WakeComing(w, q)'
    PROVE  Attended'
<1>. SUFFICES ASSUME NEW c \in Consumer, CouldTake(c)', ready'[cons'[c].queue] > 0
              PROVE  WakeComing(Home[c], cons[c].queue)'
  BY ZenonT(30) DEF Attended
<1>1. PICK w \in Worker : w = Home[c]  BY SetupFacts, ZenonT(30) DEF Shape
<1>2. Home' = Home  BY ZenonT(30) DEF Home
<1>3. cons'[c].queue \in Queue \cup {NoQueue}  BY SMTT(30) DEF Shape, Window
<1>4. PICK q \in Queue : q = cons'[c].queue /\ q # NoQueue  BY <1>3, ZenonT(30) DEF CouldTake
<1>5. WakeComing(w, q)'  BY <1>1, <1>4, ZenonT(30)
<1>. QED  BY <1>1, <1>2, <1>4, <1>5, ZenonT(30) DEF WakeComing

\* Steps that give a claim only to consumers whose worker is called.
LEMMA AttendedKept ==
    ASSUME Shape, Shape', Attended, setup' = setup, WakesStay,
           \A c \in Consumer, w \in Worker : Home[c] = w => Called(w)' \/ NoNewClaim(c)
    PROVE  Attended'
<1>. SUFFICES ASSUME NEW c \in Consumer, NEW w \in Worker, NEW q \in Queue,
                     Home[c] = w, cons'[c].queue = q, CouldTake(c)', ready'[q] > 0
              PROVE  WakeComing(w, q)'
  BY AttendedIf, ZenonT(30)
<1>1. CASE Called(w)'  BY <1>1, CalledComes, ZenonT(30)
<1>2. CASE NoNewClaim(c)
  <2>1. CouldTake(c) /\ cons[c].queue = q /\ ready[q] > 0
    BY <1>2, ZenonT(30) DEF NoNewClaim
  <2>2. WakeComing(w, q)  BY <2>1, ZenonT(30) DEF Attended
  <2>3. ASSUME NEW p \in Publisher, pub[p] = [queue |-> q, step |-> "wake"], w \in waiters[q]
        PROVE  pub'[p] = pub[p] /\ w \in waiters'[q]
    <3>1. pub[p].step = "wake"  BY <2>3, SMTT(30)
    <3>. QED  BY <2>3, <3>1, ZenonT(30) DEF WakesStay
  <2>. QED  BY <2>2, <2>3, WakeKept, ZenonT(30) DEF WakesStay
<1>. QED  BY <1>1, <1>2, ZenonT(30)

\* No claim changes when the consumers and the queues do not.
LEMMA SameClaims ==
    ASSUME UNCHANGED <<setup, cons, paused, ready>>, NEW c
    PROVE  NoNewClaim(c)
BY ZenonT(30) DEF NoNewClaim, CouldTake, HasRoom, NoAck

-----------------------------------------------------------------------------
(* The actions, while every change to a queue wakes whoever can take the   *)
(* message.                                                                *)

\* Phase 1 of broker_route(): nothing is ready yet.
LEMMA RouteOrderly ==
    ASSUME Shape, Shape', Orderly, NEW p \in Publisher, Route(p)
    PROVE  Orderly'
<1>1. UNCHANGED <<queueVars, ready, waiters, pending, loopVars, group, cons, paused, pulled>>
  BY ZenonT(30) DEF Route
<1>2. GroupsStay  BY <1>1, ZenonT(30) DEF GroupsStay, queueVars, loopVars
<1>3. WakesStay
  <2>1. \A r \in Publisher : r # p => pub'[r] = pub[r]  BY ZenonT(30) DEF Shape, Route
  <2>2. pub[p].step # "wake"  BY ZenonT(30) DEF Route
  <2>3. \A r \in Publisher : pub[r].step = "wake" => pub'[r] = pub[r]  BY <2>1, <2>2, ZenonT(30)
  <2>. QED  BY <1>1, <2>3, ZenonT(30) DEF WakesStay, Called, loopVars
<1>4. Attended'
  BY <1>1, <1>3, SameClaims, AttendedKept, ZenonT(30) DEF Orderly, queueVars
<1>. QED  BY <1>1, <1>2, <1>4, GroupsKept, ZenonT(30) DEF Orderly, NonePulled

\* queue_enqueue(): whoever consumes from the queue is among its waiters, or is
\* just becoming one and will look at the backlog.
LEMMA EnqueueOrderly ==
    ASSUME Shape, Shape', Orderly, NEW p \in Publisher, Enqueue(p)
    PROVE  Orderly'
<1>1. UNCHANGED <<queueVars, waiters, pending, loopVars, group, cons, paused, pulled>>
  BY ZenonT(30) DEF Enqueue
<1>2. GroupsStay  BY <1>1, ZenonT(30) DEF GroupsStay, queueVars, loopVars
<1>3. \A r \in Publisher : r # p => pub'[r] = pub[r]  BY ZenonT(30) DEF Shape, Enqueue
<1>4. pub'[p] = [queue |-> pub[p].queue, step |-> "wake"]
  <2>1. pub[p] \in Progress /\ pub' = [pub EXCEPT ![p].step = "wake"]
        /\ pub \in [Publisher -> Progress]
    BY ZenonT(30) DEF Shape, Enqueue
  <2>. QED  BY <2>1, SMTT(30) DEF Progress
<1>5. Attended'
  <2>. SUFFICES ASSUME NEW c \in Consumer, NEW w \in Worker, NEW q \in Queue, q # NoQueue,
                       Home[c] = w, cons'[c].queue = q, CouldTake(c)', ready'[q] > 0
                PROVE  WakeComing(w, q)'
    BY <1>1, AttendedIf, ZenonT(30) DEF queueVars
  <2>1. CouldTake(c) /\ cons[c].queue = q
    BY <1>1, ZenonT(30) DEF CouldTake, HasRoom, NoAck, queueVars
  <2>2. CASE q = pub[p].queue
    <3>1. group[w] = q /\ (loop[w] = "addWaiter" \/ w \in waiters[q])
      BY <2>1, ZenonT(30) DEF Orderly, Grouped
    <3>2. CASE loop[w] = "addWaiter"
      <4>1. Called(w)'  BY <1>1, <3>2, ZenonT(30) DEF Called, loopVars
      <4>. QED  BY <4>1, CalledComes, ZenonT(30)
    <3>3. CASE w \in waiters[q]
      BY <1>1, <1>4, <2>2, <3>3, ZenonT(30) DEF WakeComing
    <3>. QED  BY <3>1, <3>2, <3>3, ZenonT(30)
  <2>3. CASE q # pub[p].queue
    <3>1. ready'[q] = ready[q]  BY <2>3, ZenonT(30) DEF Shape, Enqueue
    <3>2. WakeComing(w, q)  BY <2>1, <3>1, ZenonT(30) DEF Orderly, Attended
    <3>3. ASSUME NEW r \in Publisher, pub[r] = [queue |-> q, step |-> "wake"], w \in waiters[q]
          PROVE  pub'[r] = pub[r] /\ w \in waiters'[q]
      <4>1. pub[r].queue = q  BY <3>3, SMTT(30)
      <4>. QED  BY <1>1, <1>3, <2>3, <3>3, <4>1, ZenonT(30)
    <3>4. Called(w) => Called(w)'  BY <1>1, ZenonT(30) DEF Called, loopVars
    <3>. QED  BY <3>2, <3>3, <3>4, WakeKept, ZenonT(30)
  <2>. QED  BY <2>2, <2>3, ZenonT(30)
<1>. QED  BY <1>1, <1>2, <1>5, GroupsKept, ZenonT(30) DEF Orderly, NonePulled

\* queue_wake_waiters(): every waiter has been called.
LEMMA WakeOrderly ==
    ASSUME Shape, Shape', Orderly, NEW p \in Publisher, Wake(p)
    PROVE  Orderly'
<1>1. UNCHANGED <<queueVars, ready, waiters, loopVars, group, cons, paused, pulled>>
  BY ZenonT(30) DEF Wake
<1>2. GroupsStay  BY <1>1, ZenonT(30) DEF GroupsStay, queueVars, loopVars
<1>3. \A r \in Publisher : r # p => pub'[r] = pub[r]  BY ZenonT(30) DEF Shape, Wake
<1>4. /\ \A w \in Worker : Called(w) => Called(w)'
      /\ \A w \in Worker : w \in waiters[pub[p].queue] => Called(w)'
  <2>1. pending' = Notified(waiters[pub[p].queue], pub[p].queue)  BY ZenonT(30) DEF Wake
  <2>. QED  BY <1>1, <2>1, NotifiedShape, ZenonT(30) DEF Called, loopVars
<1>5. Attended'
  <2>. SUFFICES ASSUME NEW c \in Consumer, NEW w \in Worker, NEW q \in Queue, q # NoQueue,
                       Home[c] = w, cons'[c].queue = q, CouldTake(c)', ready'[q] > 0
                PROVE  WakeComing(w, q)'
    BY <1>1, AttendedIf, ZenonT(30) DEF queueVars
  <2>1. CouldTake(c) /\ cons[c].queue = q /\ ready[q] > 0
    BY <1>1, ZenonT(30) DEF CouldTake, HasRoom, NoAck, queueVars
  <2>2. WakeComing(w, q)  BY <2>1, ZenonT(30) DEF Orderly, Attended
  <2>3. ASSUME NEW r \in Publisher, pub[r] = [queue |-> q, step |-> "wake"], w \in waiters[q]
        PROVE  Called(w)' \/ (pub'[r] = pub[r] /\ w \in waiters'[q])
    <3>1. pub[r].queue = q  BY <2>3, SMTT(30)
    <3>. QED  BY <1>1, <1>3, <1>4, <2>3, <3>1, ZenonT(30)
  <2>. QED  BY <1>4, <2>2, <2>3, WakeKept, ZenonT(30)
<1>. QED  BY <1>1, <1>2, <1>5, GroupsKept, ZenonT(30) DEF Orderly, NonePulled

\* on_async() takes the list and serves it.
LEMMA OnAsyncOrderly ==
    ASSUME Shape, Shape', Orderly, NEW w \in Worker, OnAsync(w)
    PROVE  Orderly'
<1>1. UNCHANGED <<queueVars, left, ready, waiters, pub, cur, group, cons, paused, pulled>>
  BY ZenonT(30) DEF OnAsync
<1>2. /\ loop[w] = "idle" /\ loop'[w] = "service"
      /\ \A v \in Worker : v # w => loop'[v] = loop[v] /\ pending'[v] = pending[v]
  BY ZenonT(30) DEF Shape, OnAsync
<1>3. GroupsStay  BY <1>1, <1>2, ZenonT(30) DEF GroupsStay, queueVars
<1>4. WakesStay  BY <1>1, <1>2, ZenonT(30) DEF WakesStay, Called
<1>5. Attended'
  BY <1>1, <1>4, SameClaims, AttendedKept, ZenonT(30) DEF Orderly, queueVars
<1>. QED  BY <1>1, <1>3, <1>5, GroupsKept, ZenonT(30) DEF Orderly, NonePulled

\* A scan pauses, and never resumes, a consumer.
LEMMA PauseClaims ==
    ASSUME Shape, NEW cs, Pause(cs), UNCHANGED <<setup, cons>>, NEW c \in Consumer
    PROVE  CouldTake(c)' => CouldTake(c) /\ c \notin cs
<1>1. paused'[c] = (c \in cs \/ paused[c])  BY ZenonT(30) DEF Pause
<1>. QED  BY <1>1, ZenonT(30) DEF CouldTake, HasRoom, NoAck

\* service_group() takes a message for one of its consumers.
LEMMA DequeueOrderly ==
    ASSUME Shape, Shape', Orderly, NEW w \in Worker, Dequeue(w)
    PROVE  Orderly'
<1>1. UNCHANGED <<queueVars, left, waiters, pub, pending, group, cons, pulled>>
  BY ZenonT(30) DEF Dequeue
<1>2. /\ loop[w] = "service" /\ loop'[w] = "deliver"
      /\ \A v \in Worker : v # w => loop'[v] = loop[v] /\ cur'[v] = cur[v]
      /\ cur'[w] \in Members(w)
  BY ZenonT(30) DEF Shape, Dequeue
<1>3. GroupsStay  BY <1>1, <1>2, ZenonT(30) DEF GroupsStay, queueVars
<1>4. WakesStay  BY <1>1, <1>2, ZenonT(30) DEF WakesStay, Called
<1>5. \A q \in Queue : ready'[q] > 0 => ready[q] > 0
  <2>1. /\ ready \in [Queue -> Nat] /\ group[w] \in Queue
        /\ ready' = [ready EXCEPT ![group[w]] = @ - 1]
    BY ZenonT(30) DEF Shape, Dequeue
  <2>. QED  BY <2>1, SMTT(30)
<1>6. ASSUME NEW c \in Consumer
      PROVE  NoNewClaim(c)
  <2>1. PICK cs : Pause(cs)  BY ZenonT(30) DEF Dequeue
  <2>2. CouldTake(c)' => CouldTake(c)  BY <1>1, <2>1, PauseClaims, ZenonT(30) DEF queueVars
  <2>3. cons[c].queue \in Queue \cup {NoQueue}  BY SMTT(30) DEF Shape, Window
  <2>. QED  BY <1>1, <1>5, <2>2, <2>3, ZenonT(30) DEF NoNewClaim, CouldTake
<1>7. Attended'  BY <1>1, <1>4, <1>6, AttendedKept, ZenonT(30) DEF Orderly, queueVars
<1>. QED  BY <1>1, <1>3, <1>7, GroupsKept, ZenonT(30) DEF Orderly, NonePulled

\* service_group() ends only when the group is gone, nobody can take a message
\* or there is none, and pauses whom it passed over.
LEMMA ServiceEndsOrderly ==
    ASSUME Shape, Shape', Orderly, NEW w \in Worker, NEW d \in Queue, ServiceEnds(w, d)
    PROVE  Orderly'
<1>1. UNCHANGED <<queueVars, left, ready, waiters, pub, pending, group, cons, pulled>>
  BY ZenonT(30) DEF ServiceEnds
<1>2. /\ loop[w] = "service" /\ loop'[w] \in {"idle", "service"}
      /\ \A v \in Worker : v # w => loop'[v] = loop[v] /\ cur'[v] = cur[v]
  BY ZenonT(30) DEF Shape, ServiceEnds, Serviced
<1>3. GroupsStay  BY <1>1, <1>2, ZenonT(30) DEF GroupsStay, queueVars
<1>4. \A c \in Consumer : CouldTake(c)' => CouldTake(c)
  <2>1. paused' = paused \/ \E cs : Pause(cs)  BY ZenonT(30) DEF ServiceEnds
  <2>2. CASE paused' = paused
    BY <1>1, <2>2, ZenonT(30) DEF CouldTake, HasRoom, NoAck, queueVars
  <2>3. CASE \E cs : Pause(cs)
    BY <1>1, <2>3, PauseClaims, ZenonT(30) DEF queueVars
  <2>. QED  BY <2>1, <2>2, <2>3, ZenonT(30)
<1>5. ASSUME NEW c \in Consumer, Home[c] = w, CouldTake(c)', ready'[cons'[c].queue] > 0
      PROVE  FALSE
  <2>1. CouldTake(c) /\ cons[c].queue # NoQueue  BY <1>4, <1>5, ZenonT(30) DEF CouldTake
  <2>2. c \in Members(w) /\ cons[c].queue = group[w] /\ group[w] # NoQueue
    BY <1>5, <2>1, ZenonT(30) DEF Members, Orderly, Grouped
  <2>3. group[w] \in Queue /\ ready[group[w]] > 0
    BY <1>1, <1>5, <2>2, ZenonT(30) DEF Shape
  <2>4. CASE /\ \A m \in Members(w) : ~Eligible(m)
             /\ Pause(Full(w))
    <3>1. ~Eligible(c)  BY <2>2, <2>4, ZenonT(30)
    <3>2. Stopped(c)  BY <2>1, <3>1, ZenonT(30) DEF Eligible, CouldTake
    <3>3. c \in Full(w)  BY <2>2, <3>2, ZenonT(30) DEF Full
    <3>. QED  BY <1>1, <1>5, <2>4, <3>3, PauseClaims, ZenonT(30) DEF queueVars
  <2>5. CASE ready[group[w]] = 0
    BY <2>3, <2>5, SMTT(30) DEF Shape
  <2>. QED  BY <2>2, <2>4, <2>5, ZenonT(30) DEF ServiceEnds
<1>6. Attended'
  <2>. SUFFICES ASSUME NEW c \in Consumer, NEW v \in Worker, NEW q \in Queue, q # NoQueue,
                       Home[c] = v, cons'[c].queue = q, CouldTake(c)', ready'[q] > 0
                PROVE  WakeComing(v, q)'
    BY <1>1, AttendedIf, ZenonT(30) DEF queueVars
  <2>1. v # w  BY <1>5, ZenonT(30)
  <2>2. CouldTake(c) /\ cons[c].queue = q /\ ready[q] > 0  BY <1>1, <1>4, ZenonT(30)
  <2>3. WakeComing(v, q)  BY <2>2, ZenonT(30) DEF Orderly, Attended
  <2>. QED  BY <1>1, <1>2, <2>1, <2>3, ZenonT(30) DEF WakeComing
<1>. QED  BY <1>1, <1>3, <1>6, GroupsKept, ZenonT(30) DEF Orderly, NonePulled

\* A consumer's fields after one of them changed.
LEMMA WindowFields ==
    ASSUME Shape, NEW c \in Consumer, NEW n,
           cons' = [cons EXCEPT ![c].unacked = n] \/ cons' = [cons EXCEPT ![c].prefetch = n]
    PROVE  /\ \A d \in Consumer : d # c => cons'[d] = cons[d]
           /\ \A d \in Consumer : cons'[d].queue = cons[d].queue
<1>1. cons \in [Consumer -> Window]  BY ZenonT(30) DEF Shape
<1>. QED  BY <1>1, SMTT(30) DEF Window

\* deliver() makes the consumer's window and socket only fuller.
LEMMA DeliverOrderly ==
    ASSUME Shape, Shape', Orderly, NEW w \in Worker, Deliver(w)
    PROVE  Orderly'
<1>1. UNCHANGED <<queueVars, left, ready, waiters, pub, pending, group, paused, pulled>>
  BY ZenonT(30) DEF Deliver
<1>2. /\ loop[w] = "deliver" /\ loop'[w] = "service"
      /\ \A v \in Worker : v # w => loop'[v] = loop[v] /\ cur'[v] = cur[v]
  BY ZenonT(30) DEF Shape, Deliver
<1>3. PICK m \in Consumer : m = cur[w]
  BY <1>2, MembersMeaning, ZenonT(30) DEF Orderly, Grouped
<1>4. cons' = cons \/ cons' = [cons EXCEPT ![m].unacked = cons[m].unacked + 1]
  BY <1>3, ZenonT(30) DEF Deliver
<1>5. /\ \A c \in Consumer : c # m => cons'[c] = cons[c]
      /\ \A c \in Consumer : cons'[c].queue = cons[c].queue
  BY <1>4, WindowFields, ZenonT(30)
<1>6. GroupsStay  BY <1>1, <1>2, <1>5, ZenonT(30) DEF GroupsStay, queueVars
<1>7. WakesStay  BY <1>1, <1>2, ZenonT(30) DEF WakesStay, Called
<1>8. ASSUME NEW c \in Consumer
      PROVE  Called(w)' /\ (c # m => NoNewClaim(c)) /\ (c = m => Home[c] = w)
  <2>1. Called(w)'  BY <1>2, ZenonT(30) DEF Called
  <2>2. c # m => NoNewClaim(c)
    BY <1>1, <1>5, ZenonT(30) DEF NoNewClaim, CouldTake, HasRoom, NoAck, queueVars
  <2>3. Home[m] = w  BY <1>2, <1>3, MembersMeaning, ZenonT(30) DEF Orderly, Grouped
  <2>. QED  BY <2>1, <2>2, <2>3, ZenonT(30)
<1>9. Attended'  BY <1>1, <1>7, <1>8, AttendedKept, ZenonT(30) DEF Orderly, queueVars
<1>. QED  BY <1>1, <1>6, <1>9, GroupsKept, ZenonT(30) DEF Orderly, NonePulled

\* dispatcher_add_consumer() has announced the new group.
LEMMA AddWaiterOrderly ==
    ASSUME Shape, Shape', Orderly, NEW w \in Worker, AddWaiter(w)
    PROVE  Orderly'
<1>1. UNCHANGED <<queueVars, left, ready, pub, pending, cur, group, cons, paused, pulled>>
  BY ZenonT(30) DEF AddWaiter
<1>2. /\ loop[w] = "addWaiter" /\ loop'[w] = "notify"
      /\ \A v \in Worker : v # w => loop'[v] = loop[v]
  BY ZenonT(30) DEF Shape, AddWaiter
<1>3. cons[cur[w]].queue = group[w] /\ group[w] # NoQueue
  <2>1. cur[w] \in Members(w)  BY <1>2, ZenonT(30) DEF Orderly, Grouped
  <2>2. cur[w] \in Consumer /\ Home[cur[w]] = w /\ cons[cur[w]].queue # NoQueue
    BY <2>1, MembersMeaning, ZenonT(30)
  <2>. QED  BY <2>2, ZenonT(30) DEF Orderly, Grouped
<1>4. waiters' = [waiters EXCEPT ![group[w]] = @ \cup {w}] /\ group[w] \in Queue
  BY <1>3, ZenonT(30) DEF Shape, AddWaiter
<1>5. (\A q \in Queue : waiters[q] \subseteq waiters'[q]) /\ w \in waiters'[group[w]]
  BY <1>4, ZenonT(30) DEF Shape
<1>6. Grouped'
  <2>1. \A v \in Worker : Members(v)' = Members(v)
    BY <1>1, ZenonT(30) DEF Members, Home, queueVars
  <2>2. \A v \in Worker : group'[v] # NoQueue => group'[v] = registry' /\ Members(v)' # {}
    BY <1>1, <2>1, ZenonT(30) DEF Orderly, Grouped, queueVars
  <2>3. \A c \in Consumer : cons'[c].queue # NoQueue => cons'[c].queue = group'[Home'[c]]
    BY <1>1, ZenonT(30) DEF Orderly, Grouped, Home, queueVars
  <2>4. ASSUME NEW v \in Worker, group'[v] # NoQueue
        PROVE  loop'[v] = "addWaiter" \/ v \in waiters'[group'[v]]
    <3>1. group'[v] = group[v] /\ group[v] \in Queue  BY <1>1, <2>4, ZenonT(30) DEF Shape
    <3>. QED  BY <1>2, <1>5, <2>4, <3>1, ZenonT(60) DEF Orderly, Grouped
  <2>5. \A v \in Worker :
          loop'[v] \in {"addWaiter", "notify", "deliver"} => cur'[v] \in Members(v)'
    BY <1>1, <1>2, <2>1, ZenonT(30) DEF Orderly, Grouped
  <2>. QED  BY <2>2, <2>3, <2>4, <2>5, ZenonT(30) DEF Grouped
<1>7. Leaving'
  <2>1. \A v \in Worker : loop'[v] = loop[v] \/ loop'[v] = "notify"  BY <1>2, ZenonT(30)
  <2>2. UNCHANGED <<setup, registry, left, group>>  BY <1>1, ZenonT(30) DEF queueVars
  <2>3. Leaving  BY ZenonT(30) DEF Orderly
  <2>. QED  BY <2>1, <2>2, <2>3, ZenonT(30) DEF Leaving, Home
<1>8. WakesStay  BY <1>1, <1>2, <1>5, ZenonT(30) DEF WakesStay, Called
<1>9. Attended'
  BY <1>1, <1>8, SameClaims, AttendedKept, ZenonT(30) DEF Orderly, queueVars
<1>. QED  BY <1>1, <1>6, <1>7, <1>9, ZenonT(30) DEF Orderly, NonePulled

\* dispatcher_add_consumer() has asked for the backlog.
LEMMA NotifyBacklogOrderly ==
    ASSUME Shape, Shape', Orderly, NEW w \in Worker, NotifyBacklog(w)
    PROVE  Orderly'
<1>1. UNCHANGED <<queueVars, left, ready, waiters, pub, group, cons, paused, pulled>>
  BY ZenonT(30) DEF NotifyBacklog
<1>2. /\ loop[w] = "notify" /\ loop'[w] = "idle"
      /\ \A v \in Worker : v # w => loop'[v] = loop[v] /\ cur'[v] = cur[v]
  BY ZenonT(30) DEF Shape, NotifyBacklog
<1>3. GroupsStay  BY <1>1, <1>2, ZenonT(30) DEF GroupsStay, queueVars
<1>4. pending'[w] # {} /\ \A v \in Worker : pending[v] # {} => pending'[v] # {}
  BY NotifiedShape, ZenonT(30) DEF NotifyBacklog
<1>5. WakesStay  BY <1>1, <1>2, <1>4, ZenonT(30) DEF WakesStay, Called
<1>6. Attended'
  BY <1>1, <1>5, SameClaims, AttendedKept, ZenonT(30) DEF Orderly, queueVars
<1>. QED  BY <1>1, <1>3, <1>6, GroupsKept, ZenonT(30) DEF Orderly, NonePulled

\* consumer_destroy() counts the consumers: with none left there is no group.
LEMMA LastConsumerGoneOrderly ==
    ASSUME Shape, Shape', Orderly, NEW w \in Worker, LastConsumerGone(w)
    PROVE  Orderly'
<1>1. UNCHANGED <<queueVars, ready, waiters, pub, pending, cur, group, cons, paused, pulled>>
  BY ZenonT(30) DEF LastConsumerGone
<1>2. /\ loop[w] = "left" /\ loop'[w] \in {"autoDelete", "idle"}
      /\ \A v \in Worker : v # w => loop'[v] = loop[v] /\ left'[v] = left[v]
  BY ZenonT(30) DEF Shape, LastConsumerGone
<1>3. loop'[w] = "autoDelete" => group[w] = NoQueue
  <2>. SUFFICES ASSUME loop'[w] = "autoDelete", group[w] # NoQueue PROVE FALSE
    BY ZenonT(30)
  <2>1. PICK c : c \in Members(w)  BY ZenonT(30) DEF Orderly, Grouped
  <2>2. c \in Consumer /\ cons[c].queue = left[w]
    <3>1. c \in Consumer /\ Home[c] = w /\ cons[c].queue # NoQueue
      BY <2>1, MembersMeaning, ZenonT(30)
    <3>2. cons[c].queue = group[w] /\ group[w] = registry
      BY <3>1, ZenonT(30) DEF Orderly, Grouped
    <3>3. left[w] = registry  BY <1>2, ZenonT(30) DEF Orderly, Leaving
    <3>. QED  BY <3>1, <3>2, <3>3, ZenonT(30)
  <2>3. ConsumerCount(left[w]) = 0  BY ZenonT(30) DEF Shape, LastConsumerGone
  <2>4. IsFiniteSet({d \in Consumer : cons[d].queue = left[w]})
    <3>1. {d \in Consumer : cons[d].queue = left[w]} \subseteq Consumer  BY ZenonT(30)
    <3>. QED  BY <3>1, DispatchAssumption, FS_Subset, ZenonT(30)
  <2>5. {d \in Consumer : cons[d].queue = left[w]} = {}
    BY <2>3, <2>4, FS_EmptySet, ZenonT(30) DEF ConsumerCount
  <2>. QED  BY <2>2, <2>5, ZenonT(30)
<1>4. Grouped'
  <2>1. \A v \in Worker : Members(v)' = Members(v)
    BY <1>1, ZenonT(30) DEF Members, Home, queueVars
  <2>2. \A v \in Worker : group'[v] # NoQueue => group'[v] = registry' /\ Members(v)' # {}
    BY <1>1, <2>1, ZenonT(30) DEF Orderly, Grouped, queueVars
  <2>3. \A c \in Consumer : cons'[c].queue # NoQueue => cons'[c].queue = group'[Home'[c]]
    BY <1>1, ZenonT(30) DEF Orderly, Grouped, Home, queueVars
  <2>4. \A v \in Worker :
          group'[v] # NoQueue => loop'[v] = "addWaiter" \/ v \in waiters'[group'[v]]
    BY <1>1, <1>2, ZenonT(30) DEF Orderly, Grouped
  <2>5. \A v \in Worker :
          loop'[v] \in {"addWaiter", "notify", "deliver"} => cur'[v] \in Members(v)'
    BY <1>1, <1>2, <2>1, ZenonT(30) DEF Orderly, Grouped
  <2>. QED  BY <2>2, <2>3, <2>4, <2>5, ZenonT(30) DEF Grouped
<1>5. Leaving'
  <2>1. UNCHANGED <<setup, registry, group>>  BY <1>1, ZenonT(30) DEF queueVars
  <2>2. Leaving  BY ZenonT(30) DEF Orderly
  <2>. QED  BY <1>2, <1>3, <2>1, <2>2, ZenonT(30) DEF Leaving, Home
<1>6. WakesStay  BY <1>1, <1>2, ZenonT(30) DEF WakesStay, Called
<1>7. Attended'
  BY <1>1, <1>6, SameClaims, AttendedKept, ZenonT(30) DEF Orderly, queueVars
<1>. QED  BY <1>1, <1>4, <1>5, <1>7, ZenonT(30) DEF Orderly, NonePulled

\* While no group is left the registry may change.
LEMMA RegistryFree ==
    ASSUME Orderly, UNCHANGED <<setup, group, cons>>, \A v \in Worker : group[v] = NoQueue,
           \A v \in Worker : loop'[v] \notin {"left", "addWaiter", "notify", "deliver"},
           \A v \in Worker : loop'[v] = "autoDelete" => loop[v] = "autoDelete"
    PROVE  Grouped' /\ Leaving'
<1>1. \A v \in Worker : group'[v] = NoQueue  BY ZenonT(30)
<1>2. \A c \in Consumer : cons'[c].queue # NoQueue => cons'[c].queue = group'[Home'[c]]
  BY ZenonT(30) DEF Orderly, Grouped, Home
<1>3. Grouped'  BY <1>1, <1>2, ZenonT(30) DEF Grouped
<1>4. Leaving  BY ZenonT(30) DEF Orderly
<1>5. Leaving'  BY <1>1, <1>4, ZenonT(30) DEF Leaving, Home
<1>. QED  BY <1>3, <1>5, ZenonT(30)

\* Workers that have begun to serve or to register a consumer have a group.
LEMMA NoGroupNoConsumer ==
    ASSUME Shape, Orderly, NEW v \in Worker, group[v] = NoQueue
    PROVE  Members(v) = {} /\ loop[v] \notin {"addWaiter", "notify", "deliver"}
<1>1. ASSUME NEW c, c \in Members(v) PROVE FALSE
  <2>1. c \in Consumer /\ Home[c] = v /\ cons[c].queue # NoQueue
    BY <1>1, MembersMeaning, ZenonT(30)
  <2>2. cons[c].queue = group[Home[c]]  BY <2>1, ZenonT(30) DEF Orderly, Grouped
  <2>. QED  BY <2>1, <2>2, ZenonT(30)
<1>2. Members(v) = {}  BY <1>1, ZenonT(30)
<1>. QED  BY <1>2, ZenonT(30) DEF Orderly, Grouped

\* consumer_destroy() deletes the queue by name: where that can be a queue in
\* use, another worker has consumers.
LEMMA AutoDeleteOrderly ==
    ASSUME Shape, Shape', Orderly, Notifying, NEW w \in Worker, AutoDelete(w)
    PROVE  Orderly'
<1>1. UNCHANGED <<setup, ready, waiters, pub, pending, cur, left, group, cons, paused, pulled>>
  BY ZenonT(30) DEF AutoDelete
<1>2. /\ loop[w] = "autoDelete" /\ loop'[w] = "idle"
      /\ \A v \in Worker : v # w => loop'[v] = loop[v]
  BY ZenonT(30) DEF Shape, AutoDelete
<1>3. /\ OneWorker /\ group[w] = NoQueue
      /\ \E c \in Consumer : Home[c] = w
  BY <1>2, ZenonT(30) DEF Orderly, Leaving, Notifying
<1>4. \A v \in Worker : v # w => \A c \in Consumer : Home[c] # v
  BY <1>3, ZenonT(30) DEF OneWorker
<1>5. \A v \in Worker : group[v] = NoQueue
  <2>1. \A v \in Worker : v # w => Members(v) = {}  BY <1>4, ZenonT(30) DEF Members
  <2>. QED  BY <1>3, <2>1, ZenonT(30) DEF Orderly, Grouped
<1>6. \A v \in Worker : loop'[v] \notin {"left", "addWaiter", "notify", "deliver"}
  <2>. SUFFICES ASSUME NEW v \in Worker, v # w
                PROVE  loop[v] \notin {"left", "addWaiter", "notify", "deliver"}
    BY <1>2, ZenonT(30)
  <2>1. loop[v] # "left"  BY <1>4, ZenonT(30) DEF Orderly, Leaving
  <2>. QED  BY <1>5, <2>1, NoGroupNoConsumer, ZenonT(30)
<1>7. Grouped' /\ Leaving'  BY <1>1, <1>2, <1>5, <1>6, RegistryFree, ZenonT(30)
<1>8. WakesStay  BY <1>1, <1>2, ZenonT(30) DEF WakesStay, Called
<1>9. Attended'  BY <1>1, <1>8, SameClaims, AttendedKept, ZenonT(30) DEF Orderly
<1>. QED  BY <1>1, <1>7, <1>9, ZenonT(30) DEF Orderly, NonePulled

\* Queue.Declare finds no queue of that name, so no group either.
LEMMA DeclareOrderly ==
    ASSUME Shape, Shape', Orderly, Declare
    PROVE  Orderly'
<1>1. UNCHANGED <<setup, ready, waiters, pub, pending, loopVars, group, cons, paused, pulled>>
  BY ZenonT(30) DEF Declare
<1>2. registry = NoQueue  BY ZenonT(30) DEF Declare
<1>3. \A v \in Worker : group[v] = NoQueue  BY <1>2, ZenonT(30) DEF Orderly, Grouped
<1>4. \A v \in Worker : loop'[v] \notin {"left", "addWaiter", "notify", "deliver"}
  <2>1. \A v \in Worker : loop[v] # "left"  BY <1>2, ZenonT(30) DEF Orderly, Leaving
  <2>. QED  BY <1>1, <1>3, <2>1, NoGroupNoConsumer, ZenonT(30) DEF loopVars
<1>5. Grouped' /\ Leaving'  BY <1>1, <1>3, <1>4, RegistryFree, ZenonT(30) DEF loopVars
<1>6. WakesStay  BY <1>1, ZenonT(30) DEF WakesStay, Called, loopVars
<1>7. Attended'  BY <1>1, <1>6, SameClaims, AttendedKept, ZenonT(30) DEF Orderly
<1>. QED  BY <1>1, <1>5, <1>7, ZenonT(30) DEF Orderly, NonePulled

\* on_write() calls the worker when it resumes a paused connection; a socket that
\* was never paused gives its consumer no new claim.
LEMMA OnWriteOrderly ==
    ASSUME Shape, Shape', Orderly, NEW m \in Consumer, OnWrite(m)
    PROVE  Orderly'
<1>1. UNCHANGED <<queueVars, ready, waiters, pub, loopVars, group, cons, pulled>>
  BY ZenonT(30) DEF OnWrite
<1>2. GroupsStay  BY <1>1, ZenonT(30) DEF GroupsStay, queueVars, loopVars
<1>3. CASE paused' = paused /\ pending' = pending
  <2>1. WakesStay  BY <1>1, <1>3, ZenonT(30) DEF WakesStay, Called, loopVars
  <2>2. Attended'
    BY <1>1, <1>3, <2>1, SameClaims, AttendedKept, ZenonT(30) DEF Orderly, queueVars
  <2>. QED  BY <1>1, <1>2, <2>2, GroupsKept, ZenonT(30) DEF Orderly, NonePulled
<1>4. CASE /\ paused' = [paused EXCEPT ![m] = FALSE]
           /\ pending' = IF cons[m].queue = NoQueue THEN pending
                         ELSE Notified({Home[m]}, cons[m].queue)
  <2>1. /\ \A v \in Worker : pending[v] # {} => pending'[v] # {}
        /\ cons[m].queue # NoQueue /\ Home[m] \in Worker => pending'[Home[m]] # {}
    BY <1>4, NotifiedShape, ZenonT(30)
  <2>2. WakesStay  BY <1>1, <2>1, ZenonT(30) DEF WakesStay, Called, loopVars
  <2>3. ASSUME NEW c \in Consumer, NEW v \in Worker, Home[c] = v
        PROVE  Called(v)' \/ NoNewClaim(c)
    <3>1. CASE c = m /\ cons[c].queue # NoQueue  BY <2>1, <2>3, <3>1, ZenonT(30) DEF Called
    <3>2. CASE cons[c].queue = NoQueue
      BY <1>1, <3>2, ZenonT(30) DEF NoNewClaim, CouldTake
    <3>3. CASE c # m
      <4>1. paused'[c] = paused[c]  BY <1>4, <3>3, ZenonT(30) DEF Shape
      <4>. QED  BY <1>1, <4>1, ZenonT(30) DEF NoNewClaim, CouldTake, HasRoom, NoAck, queueVars
    <3>. QED  BY <3>1, <3>2, <3>3, ZenonT(30)
  <2>4. Attended'  BY <1>1, <2>2, <2>3, AttendedKept, ZenonT(30) DEF Orderly, queueVars
  <2>. QED  BY <1>1, <1>2, <2>4, GroupsKept, ZenonT(30) DEF Orderly, NonePulled
<1>. QED  BY <1>3, <1>4, ZenonT(30) DEF OnWrite

\* dispatcher_notify() of one worker.
LEMMA NotifyCalls ==
    ASSUME NEW w, NEW q, pending' = Notified({w}, q)
    PROVE  /\ \A v \in Worker : pending[v] # {} => pending'[v] # {}
           /\ \A v \in Worker : w = v => pending'[v] # {}
BY NotifiedShape, ZenonT(30)

\* Whatever changes a consumer's window calls its worker: an ack, a new
\* Basic.Qos, and a nack where all consumers are the same worker's.
LEMMA WindowOrderly ==
    ASSUME Shape, Shape', Orderly, NEW m \in Consumer,
           UNCHANGED <<queueVars, waiters, pub, loopVars, group, paused, pulled>>,
           NEW n, cons' = [cons EXCEPT ![m].unacked = n] \/ cons' = [cons EXCEPT ![m].prefetch = n],
           pending' = Notified({Home[m]}, cons[m].queue),
           ready' = ready \/ OneWorker
    PROVE  Orderly'
<1>1. /\ \A c \in Consumer : c # m => cons'[c] = cons[c]
      /\ \A c \in Consumer : cons'[c].queue = cons[c].queue
  BY WindowFields, ZenonT(30)
<1>2. GroupsStay  BY <1>1, ZenonT(30) DEF GroupsStay, queueVars, loopVars
<1>3. /\ \A v \in Worker : pending[v] # {} => pending'[v] # {}
      /\ \A v \in Worker : Home[m] = v => pending'[v] # {}
  BY NotifyCalls, ZenonT(30)
<1>4. WakesStay  BY <1>3, ZenonT(30) DEF WakesStay, Called, loopVars
<1>5. ASSUME NEW c \in Consumer, NEW v \in Worker, Home[c] = v
      PROVE  Called(v)' \/ NoNewClaim(c)
  <2>1. CASE Home[m] = v  BY <1>3, <2>1, ZenonT(30) DEF Called
  <2>2. CASE Home[m] # v
    <3>1. c # m /\ ready' = ready  BY <1>5, <2>2, ZenonT(30) DEF OneWorker
    <3>2. cons'[c] = cons[c]  BY <1>1, <3>1, ZenonT(30)
    <3>. QED  BY <3>1, <3>2, ZenonT(30) DEF NoNewClaim, CouldTake, HasRoom, NoAck, queueVars
  <2>. QED  BY <2>1, <2>2, ZenonT(30)
<1>6. Attended'  BY <1>4, <1>5, AttendedKept, ZenonT(30) DEF Orderly, queueVars
<1>. QED  BY <1>2, <1>6, GroupsKept, ZenonT(30) DEF Orderly, NonePulled

\* settle_unacked() and dispatcher_set_prefetch().
LEMMA SettleOrderly ==
    ASSUME Shape, Shape', Orderly, Notifying, NEW c \in Consumer, NEW n,
           Ack(c, n) \/ Nack(c, n) \/ SetPrefetch(c, n)
    PROVE  Orderly'
<1>1. CASE Ack(c, n)
  <2>1. PICK u : u = cons[c].unacked - n  BY ZenonT(30)
  <2>2. /\ cons' = [cons EXCEPT ![c].unacked = u] /\ ready' = ready
        /\ UNCHANGED <<queueVars, waiters, pub, loopVars, group, paused, pulled>>
        /\ pending' = Notified({Home[c]}, cons[c].queue)
    BY <1>1, <2>1, ZenonT(30) DEF Ack
  <2>. QED  BY <2>2, WindowOrderly, ZenonT(30)
<1>2. CASE Nack(c, n)
  <2>1. PICK u : u = cons[c].unacked - n  BY ZenonT(30)
  <2>2. /\ cons' = [cons EXCEPT ![c].unacked = u]
        /\ UNCHANGED <<queueVars, waiters, pub, loopVars, group, paused, pulled>>
        /\ pending' = Notified({Home[c]}, cons[c].queue)
    BY <1>2, <2>1, ZenonT(30) DEF Nack
  <2>3. OneWorker  BY <1>2, ZenonT(30) DEF Nack, Notifying
  <2>. QED  BY <2>2, <2>3, WindowOrderly, ZenonT(30)
<1>3. CASE SetPrefetch(c, n)
  <2>1. /\ cons' = [cons EXCEPT ![c].prefetch = n] /\ ready' = ready
        /\ UNCHANGED <<queueVars, waiters, pub, loopVars, group, paused, pulled>>
        /\ pending' = Notified({Home[c]}, cons[c].queue)
    BY <1>3, ZenonT(30) DEF SetPrefetch
  <2>. QED  BY <2>1, WindowOrderly, ZenonT(30)
<1>. QED  BY <1>1, <1>2, <1>3, ZenonT(30)

\* dispatcher_add_consumer(): the consumer is in the group of its worker, which
\* is for the registered queue, and the worker is about to look.
LEMMA AddConsumerOrderly ==
    ASSUME Shape, Shape', Orderly, NEW m \in Consumer, NEW n, AddConsumer(m, n)
    PROVE  Orderly'
<1>1. UNCHANGED <<queueVars, left, ready, waiters, pub, pending, paused, pulled>>
  BY ZenonT(30) DEF AddConsumer
<1>2. PICK w \in Worker : w = Home[m]  BY SetupFacts, ZenonT(30) DEF Shape
<1>3. /\ loop[w] = "idle" /\ registry # NoQueue /\ cons[m].queue = NoQueue
      /\ group' = [group EXCEPT ![w] = IF @ = NoQueue THEN registry ELSE @]
      /\ loop' = [loop EXCEPT ![w] = IF group[w] = NoQueue THEN "addWaiter" ELSE "notify"]
      /\ cur' = [cur EXCEPT ![w] = m]
      /\ cons' = [cons EXCEPT ![m] = [queue |-> registry, unacked |-> 0, prefetch |-> n]]
  BY <1>2, ZenonT(30) DEF AddConsumer
<1>4. /\ cons'[m].queue = registry
      /\ \A c \in Consumer : c # m => cons'[c] = cons[c]
  <2>1. cons'[m] = [queue |-> registry, unacked |-> 0, prefetch |-> n]
    BY <1>3, ZenonT(30) DEF Shape
  <2>2. cons'[m].queue = registry  BY <2>1, SMTT(30)
  <2>. QED  BY <1>3, <2>2, ZenonT(30) DEF Shape
<1>5. /\ group'[w] = registry
      /\ \A v \in Worker : v # w => /\ group'[v] = group[v] /\ loop'[v] = loop[v]
                                     /\ cur'[v] = cur[v]
  <2>1. group'[w] = IF group[w] = NoQueue THEN registry ELSE group[w]
    BY <1>3, ZenonT(30) DEF Shape
  <2>2. group'[w] = registry  BY <2>1, ZenonT(30) DEF Orderly, Grouped
  <2>. QED  BY <1>3, <2>2, ZenonT(30) DEF Shape
<1>6. /\ loop'[w] = IF group[w] = NoQueue THEN "addWaiter" ELSE "notify"
      /\ cur'[w] = m
  BY <1>3, ZenonT(30) DEF Shape
<1>7. Home' = Home /\ setup' = setup /\ registry' = registry
  BY <1>1, ZenonT(30) DEF Home, queueVars
<1>8. /\ m \in Members(w)'
      /\ \A v \in Worker : v # w => Members(v)' = Members(v)
  <2>1. m \in Members(w)'  BY <1>2, <1>3, <1>4, <1>7, MembersNext, ZenonT(30)
  <2>2. ASSUME NEW v \in Worker, v # w, NEW c
        PROVE  c \in Members(v)' <=> c \in Members(v)
    <3>1. CASE c = m  BY <1>2, <1>7, <2>2, <3>1, MembersNext, MembersMeaning, ZenonT(30)
    <3>2. CASE c # m  BY <1>4, <1>7, <3>2, MembersNext, MembersMeaning, ZenonT(30)
    <3>. QED  BY <3>1, <3>2, ZenonT(30)
  <2>. QED  BY <2>1, <2>2, ZenonT(30)
<1>9. Grouped'
  <2>1. ASSUME NEW v \in Worker, group'[v] # NoQueue
        PROVE  /\ group'[v] = registry' /\ Members(v)' # {}
               /\ loop'[v] = "addWaiter" \/ v \in waiters'[group'[v]]
    <3>1. CASE v = w
      <4>1. CASE group[w] = NoQueue  BY <1>5, <1>6, <1>7, <1>8, <3>1, <4>1, ZenonT(30)
      <4>2. CASE group[w] # NoQueue
        <5>1. group[w] = registry /\ w \in waiters[registry]
          BY <1>3, <4>2, ZenonT(30) DEF Orderly, Grouped
        <5>. QED  BY <1>1, <1>5, <1>7, <1>8, <3>1, <5>1, ZenonT(30)
      <4>. QED  BY <4>1, <4>2, ZenonT(30)
    <3>2. CASE v # w
      <4>1. group'[v] = group[v] /\ loop'[v] = loop[v] /\ Members(v)' = Members(v)
            /\ waiters' = waiters
        BY <1>1, <1>5, <1>8, <3>2, ZenonT(30)
      <4>. QED  BY <1>7, <2>1, <4>1, ZenonT(30) DEF Orderly, Grouped
    <3>. QED  BY <3>1, <3>2, ZenonT(30)
  <2>2. ASSUME NEW c \in Consumer, cons'[c].queue # NoQueue
        PROVE  cons'[c].queue = group'[Home'[c]]
    <3>1. CASE c = m  BY <1>2, <1>4, <1>5, <1>7, <3>1, ZenonT(30)
    <3>2. CASE c # m
      <4>1. cons'[c] = cons[c]  BY <1>4, <3>2, ZenonT(30)
      <4>2. cons[c].queue = group[Home[c]] /\ group[Home[c]] # NoQueue
        BY <2>2, <4>1, ZenonT(30) DEF Orderly, Grouped
      <4>3. Home[c] \in Worker  BY SetupFacts, ZenonT(30) DEF Shape
      <4>4. group[Home[c]] = registry  BY <4>2, <4>3, ZenonT(30) DEF Orderly, Grouped
      <4>. QED  BY <1>5, <1>7, <4>1, <4>2, <4>3, <4>4, ZenonT(30)
    <3>. QED  BY <3>1, <3>2, ZenonT(30)
  <2>3. ASSUME NEW v \in Worker, loop'[v] \in {"addWaiter", "notify", "deliver"}
        PROVE  cur'[v] \in Members(v)'
    <3>1. CASE v = w  BY <1>6, <1>8, <3>1, ZenonT(30)
    <3>2. CASE v # w  BY <1>5, <1>8, <2>3, <3>2, ZenonT(30) DEF Orderly, Grouped
    <3>. QED  BY <3>1, <3>2, ZenonT(30)
  <2>. QED  BY <2>1, <2>2, <2>3, ZenonT(30) DEF Grouped
<1>10. Leaving'
  <2>1. loop'[w] \notin {"left", "autoDelete"}  BY <1>6, ZenonT(30)
  <2>2. UNCHANGED <<setup, registry, left>>  BY <1>1, ZenonT(30) DEF queueVars
  <2>3. Leaving  BY ZenonT(30) DEF Orderly
  <2>. QED  BY <1>5, <2>1, <2>2, <2>3, ZenonT(30) DEF Leaving, Home
<1>11. Called(w)'  BY <1>6, ZenonT(30) DEF Called
<1>12. WakesStay  BY <1>1, <1>5, <1>11, ZenonT(30) DEF WakesStay, Called
<1>13. ASSUME NEW c \in Consumer, NEW v \in Worker, Home[c] = v
       PROVE  Called(v)' \/ NoNewClaim(c)
  <2>1. CASE v = w  BY <1>11, <2>1, ZenonT(30)
  <2>2. CASE v # w
    <3>1. cons'[c] = cons[c]  BY <1>2, <1>4, <1>13, <2>2, ZenonT(30)
    <3>. QED  BY <1>1, <3>1, ZenonT(30) DEF NoNewClaim, CouldTake, HasRoom, NoAck, queueVars
  <2>. QED  BY <2>1, <2>2, ZenonT(30)
<1>14. Attended'  BY <1>7, <1>12, <1>13, AttendedKept, ZenonT(30) DEF Orderly
<1>. QED  BY <1>1, <1>9, <1>10, <1>14, ZenonT(30) DEF Orderly, NonePulled

\* consumer_destroy(): the group goes with its last consumer; otherwise the
\* worker is called for what the consumer gave back.
LEMMA CancelOrderly ==
    ASSUME Shape, Shape', Orderly, Notifying, NEW m \in Consumer, Cancel(m)
    PROVE  Orderly'
<1>1. UNCHANGED <<queueVars, pub, cur, paused, pulled>>  BY ZenonT(30) DEF Cancel
<1>2. PICK w \in Worker : w = Home[m]  BY SetupFacts, ZenonT(30) DEF Shape
<1>3. Home' = Home /\ setup' = setup /\ registry' = registry
  BY <1>1, ZenonT(30) DEF Home, queueVars
<1>4. \A c \in Consumer : Home[c] = w
  BY <1>2, ZenonT(30) DEF Cancel, Notifying, OneWorker
<1>5. /\ loop[w] = "idle" /\ cons[m].queue # NoQueue
      /\ cons' = [cons EXCEPT ![m] = Off]
      /\ loop' = [loop EXCEPT ![w] = IF "autodelete" \in setup.events THEN "left" ELSE @]
      /\ left' = [left EXCEPT ![w] = IF "autodelete" \in setup.events THEN cons[m].queue ELSE @]
  BY <1>2, ZenonT(30) DEF Cancel
<1>6. /\ cons'[m].queue = NoQueue
      /\ \A c \in Consumer : c # m => cons'[c] = cons[c]
  <2>1. cons'[m] = Off  BY <1>5, ZenonT(30) DEF Shape
  <2>2. cons'[m].queue = NoQueue  BY <2>1, SMTT(30) DEF Off
  <2>. QED  BY <1>5, <2>2, ZenonT(30) DEF Shape
<1>7. /\ \A v \in Worker : v # w => loop'[v] = loop[v]
      /\ \/ loop'[w] = "idle"
         \/ loop'[w] = "left" /\ "autodelete" \in setup.events /\ left'[w] = cons[m].queue
  <2>1. CASE "autodelete" \in setup.events  BY <1>5, <2>1, ZenonT(30) DEF Shape
  <2>2. CASE "autodelete" \notin setup.events  BY <1>5, <2>2, ZenonT(30) DEF Shape
  <2>. QED  BY <2>1, <2>2, ZenonT(30)
<1>8. cons[m].queue = group[w] /\ group[w] = registry /\ registry # NoQueue
  BY <1>2, <1>5, ZenonT(30) DEF Orderly, Grouped
<1>9. \A v \in Worker :
        v # w => /\ group[v] = NoQueue
                 /\ loop[v] \notin {"left", "autoDelete", "addWaiter", "notify", "deliver"}
  <2>. SUFFICES ASSUME NEW v \in Worker, v # w
                PROVE  /\ group[v] = NoQueue
                       /\ loop[v] \notin {"left", "autoDelete", "addWaiter", "notify", "deliver"}
    BY ZenonT(30)
  <2>1. Members(v) = {}  BY <1>4, ZenonT(30) DEF Members
  <2>2. group[v] = NoQueue  BY <2>1, ZenonT(30) DEF Orderly, Grouped
  <2>3. loop[v] \notin {"left", "autoDelete"}  BY <1>4, ZenonT(30) DEF Orderly, Leaving
  <2>. QED  BY <2>2, <2>3, NoGroupNoConsumer, ZenonT(30)
<1>10. \A v \in Worker : loop'[v] \notin {"addWaiter", "notify", "deliver", "autoDelete"}
  BY <1>7, <1>9, ZenonT(30)
<1>11. Leaving'
  <2>1. \A v \in Worker : loop'[v] = "left" => v = w  BY <1>7, <1>9, ZenonT(30)
  <2>2. loop'[w] = "left" => "autodelete" \in setup.events /\ left'[w] = registry
    BY <1>7, <1>8, ZenonT(30)
  <2>3. Home'[m] = w  BY <1>2, <1>3, ZenonT(30)
  <2>. QED  BY <1>3, <1>8, <1>10, <2>1, <2>2, <2>3, ZenonT(30) DEF Leaving
<1>12. CASE Members(w) = {m}
  <2>1. group' = [group EXCEPT ![w] = NoQueue]  BY <1>2, <1>12, ZenonT(30) DEF Cancel
  <2>2. \A v \in Worker : group'[v] = NoQueue  BY <1>9, <2>1, ZenonT(30) DEF Shape
  <2>3. ASSUME NEW c \in Consumer
        PROVE  cons'[c].queue = NoQueue
    <3>1. CASE c = m  BY <1>6, <3>1, ZenonT(30)
    <3>2. CASE c # m
      <4>1. c \notin Members(w)  BY <1>12, <3>2, ZenonT(30)
      <4>2. cons[c].queue = NoQueue  BY <1>4, <4>1, MembersMeaning, ZenonT(30)
      <4>. QED  BY <1>6, <3>2, <4>2, ZenonT(30)
    <3>. QED  BY <3>1, <3>2, ZenonT(30)
  <2>4. Grouped'  BY <1>10, <2>2, <2>3, ZenonT(30) DEF Grouped
  <2>5. Attended'  BY <2>3, ZenonT(30) DEF Attended, CouldTake
  <2>. QED  BY <1>1, <1>11, <2>4, <2>5, ZenonT(30) DEF Orderly, NonePulled
<1>13. CASE Members(w) # {m}
  <2>1. UNCHANGED <<waiters, group>> /\ pending' = Notified({w}, group[w])
    BY <1>2, <1>13, ZenonT(30) DEF Cancel
  <2>2. PICK d : d \in Members(w) /\ d # m
    <3>1. m \in Members(w)  BY <1>2, <1>5, MembersMeaning, ZenonT(30)
    <3>. QED  BY <1>13, <3>1, ZenonT(30)
  <2>3. d \in Members(w)'
    <3>1. d \in Consumer /\ Home[d] = w /\ cons[d].queue # NoQueue
      BY <2>2, MembersMeaning, ZenonT(30)
    <3>2. cons'[d] = cons[d]  BY <1>6, <2>2, <3>1, ZenonT(30)
    <3>. QED  BY <1>3, <3>1, <3>2, MembersNext, ZenonT(30)
  <2>4. ASSUME NEW v \in Worker, group'[v] # NoQueue
        PROVE  /\ group'[v] = registry' /\ Members(v)' # {}
               /\ v \in waiters'[group'[v]]
    <3>1. v = w  BY <1>9, <2>1, <2>4, ZenonT(30)
    <3>2. w \in waiters[group[w]]  BY <1>5, <1>8, ZenonT(30) DEF Orderly, Grouped
    <3>. QED  BY <1>3, <1>8, <2>1, <2>3, <3>1, <3>2, ZenonT(30)
  <2>5. ASSUME NEW c \in Consumer, cons'[c].queue # NoQueue
        PROVE  cons'[c].queue = group'[Home'[c]]
    <3>1. c # m  BY <1>6, <2>5, ZenonT(30)
    <3>2. cons'[c] = cons[c]  BY <1>6, <3>1, ZenonT(30)
    <3>. QED  BY <1>3, <2>1, <2>5, <3>2, ZenonT(30) DEF Orderly, Grouped
  <2>6. Grouped'  BY <1>10, <2>4, <2>5, ZenonT(30) DEF Grouped
  <2>7. Called(w)'  BY <2>1, NotifyCalls, ZenonT(30) DEF Called
  <2>8. Attended'  BY <1>3, <1>4, <2>7, AttendedIf, CalledComes, ZenonT(30)
  <2>. QED  BY <1>1, <1>11, <2>6, <2>8, ZenonT(30) DEF Orderly, NonePulled
<1>. QED  BY <1>12, <1>13, ZenonT(30)

-----------------------------------------------------------------------------
(* The theorem.                                                            *)

\* Initially there are no consumers and no messages.
LEMMA InitWake ==
    ASSUME Init
    PROVE  WakeInv
<1>1. Shape  BY InitShape
<1>2. /\ \A w \in Worker : group[w] = NoQueue /\ loop[w] = "idle"
      /\ \A q \in Queue : pulled[q] = 0
      /\ \A c \in Consumer : cons[c] = Off
  BY ZenonT(30) DEF Init
<1>3. \A c \in Consumer : cons[c].queue = NoQueue  BY <1>2, SMTT(30) DEF Off
<1>4. Grouped  BY <1>2, <1>3, ZenonT(30) DEF Grouped
<1>5. Leaving  BY <1>2, ZenonT(30) DEF Leaving
<1>6. Attended  BY <1>3, ZenonT(30) DEF Attended, CouldTake
<1>. QED  BY <1>1, <1>2, <1>4, <1>5, <1>6, ZenonT(30) DEF WakeInv, Orderly, NonePulled

\* Every step keeps the wakeups in order.
LEMMA StepKeepsWakes ==
    ASSUME WakeInv, [Next]_vars
    PROVE  WakeInv'
<1>1. Shape /\ Shape'  BY StepKeepsShape, ZenonT(30) DEF WakeInv
<1>2. setup' = setup
  <2>1. CASE UNCHANGED vars  BY <2>1, ZenonT(30) DEF vars, queueVars
  <2>2. CASE Next
    BY <2>2, ZenonT(30) DEF Next, Route, Enqueue, Wake, OnAsync, Dequeue, Deliver, AddWaiter,
          NotifyBacklog, LastConsumerGone, AutoDelete, ServiceEnds, DeliverFails, OnWrite,
          Cancel, AddConsumer, SetPrefetch, Ack, Nack, Delete, Declare, Get, GetReturned,
          GetAcked, queueVars
  <2>. QED  BY <2>1, <2>2, ZenonT(30)
<1>3. Notifying' <=> Notifying  BY <1>2, ZenonT(30) DEF Notifying, OneWorker, Home
<1>. SUFFICES ASSUME Notifying, Orderly PROVE Orderly'
  BY <1>1, <1>3, ZenonT(30) DEF WakeInv
<1>4. CASE UNCHANGED vars
  <2>1. UNCHANGED <<setup, registry, ready, waiters, pub, pending, loop, cur, left, group, cons,
                    paused, pulled>>
    BY <1>4, ZenonT(30) DEF vars, queueVars, loopVars
  <2>2. GroupsStay  BY <2>1, ZenonT(30) DEF GroupsStay
  <2>3. WakesStay  BY <2>1, ZenonT(30) DEF WakesStay, Called
  <2>4. Attended'  BY <1>1, <2>1, <2>3, SameClaims, AttendedKept, ZenonT(30) DEF Orderly
  <2>. QED  BY <2>1, <2>2, <2>4, GroupsKept, ZenonT(30) DEF Orderly, NonePulled
<1>5. ASSUME NEW p \in Publisher, Route(p) \/ Enqueue(p) \/ Wake(p)
      PROVE  Orderly'
  BY <1>1, <1>5, RouteOrderly, EnqueueOrderly, WakeOrderly, ZenonT(30)
<1>6. ASSUME NEW w \in Worker,
             \/ OnAsync(w) \/ Dequeue(w) \/ Deliver(w) \/ AddWaiter(w) \/ NotifyBacklog(w)
             \/ LastConsumerGone(w) \/ AutoDelete(w)
      PROVE  Orderly'
  BY <1>1, <1>6, OnAsyncOrderly, DequeueOrderly, DeliverOrderly, AddWaiterOrderly,
     NotifyBacklogOrderly, LastConsumerGoneOrderly, AutoDeleteOrderly, ZenonT(30)
<1>7. ASSUME NEW w \in Worker, NEW q \in Queue, ServiceEnds(w, q) \/ DeliverFails(w, q)
      PROVE  Orderly'
  <2>1. ~DeliverFails(w, q)  BY ZenonT(30) DEF DeliverFails, Notifying
  <2>. QED  BY <1>1, <1>7, <2>1, ServiceEndsOrderly, ZenonT(30)
<1>8. ASSUME NEW c \in Consumer,
             \/ OnWrite(c) \/ Cancel(c)
             \/ \E n \in setup.prefetches : AddConsumer(c, n) \/ SetPrefetch(c, n)
             \/ \E k \in 1..MaxMsgs : Ack(c, k) \/ Nack(c, k)
      PROVE  Orderly'
  BY <1>1, <1>8, OnWriteOrderly, CancelOrderly, AddConsumerOrderly, SettleOrderly, ZenonT(30)
<1>9. CASE Declare  BY <1>1, <1>9, DeclareOrderly, ZenonT(30)
<1>10. ~Delete /\ ~Get  BY ZenonT(30) DEF Delete, Get, Notifying
<1>11. ASSUME NEW q \in Queue
       PROVE  ~GetReturned(q) /\ ~GetAcked(q)
  <2>1. pulled[q] = 0  BY ZenonT(30) DEF Orderly, NonePulled
  <2>2. ~(pulled[q] > 0)  BY <2>1, SMTT(30)
  <2>. QED  BY <2>2, ZenonT(30) DEF GetReturned, GetAcked
<1>. QED  BY <1>4, <1>5, <1>6, <1>7, <1>8, <1>9, <1>10, <1>11, ZenonT(30) DEF Next

\* For any number of workers, consumers, publishing threads and messages: as long
\* as every change to a queue notifies whoever can take the message, a consumer
\* that could take a ready message always has a wakeup on its way
\* (dispatcher_notify(), queue_wake_waiters(), service_group()).
THEOREM WakeupsKept == Spec => []NoLostWakeup
<1>1. Init => WakeInv  BY InitWake
<1>2. WakeInv /\ [Next]_vars => WakeInv'  BY StepKeepsWakes
<1>3. WakeInv => NoLostWakeup
  <2>. SUFFICES ASSUME WakeInv, Notifying, NEW q \in Queue, NEW c \in Consumer,
                       ready[q] > 0, Waiting(c, q)
                PROVE  WakeComing(Home[c], q)
    BY ZenonT(30) DEF NoLostWakeup
  <2>1. q # NoQueue  BY DispatchAssumption, ZenonT(30)
  <2>2. cons[c].queue = q /\ CouldTake(c)
    BY <2>1, ZenonT(30) DEF Waiting, Eligible, Stopped, CouldTake
  <2>. QED  BY <2>2, ZenonT(30) DEF WakeInv, Orderly, Attended
<1>. QED  BY <1>1, <1>2, <1>3, PTL DEF Spec

=============================================================================
