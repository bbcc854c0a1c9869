------------------------------ MODULE Consume -------------------------------
(***************************************************************************)
(* Consume tracking of a replicated queue (src/src/queue.c with its callers *)
(* in dispatch.c and protocol.c): how the node whose clients consume works *)
(* out the watermark below which everything is consumed, replicates it as  *)
(* CL_OP_ACK, and how every node drops what the watermark covers.          *)
(*                                                                         *)
(* A message is its cluster_id, the index of its committed CL_OP_PUBLISH.  *)
(* Each queue operation is one step (it holds the queue's lock); what a    *)
(* worker does between taking a message and recording the delivery is a    *)
(* step of its own, so other workers can act in between.                   *)
(***************************************************************************)
EXTENDS Integers, Sequences, FiniteSets

CONSTANTS
    Worker,      \* worker loops with consumers on the queue
    ClientSets,  \* which clients to explore: sets of <<worker, mode>>
    NoDelivery,  \* a worker that is not in the middle of a delivery
    MaxMsgs,     \* bound: messages published
    MaxRequeues, \* bound: deliveries returned to the queue by their client
    MaxFailures  \* bound: deliveries whose socket write fails

AllModes == {"ack", "noack", "pull", "get"}

ASSUME ConsumeAssumption ==
    /\ \A cs \in ClientSets : cs \subseteq Worker \X AllModes
    /\ MaxMsgs \in Nat /\ MaxRequeues \in Nat /\ MaxFailures \in Nat
    /\ NoDelivery \notin [cid : Nat, mode : AllModes]

VARIABLES
    clients,    \* fixed: through which workers and how clients take messages
    published,  \* the cluster_ids 1..published have been applied
    ready,      \* the queue on this node, oldest first
    hand,       \* per worker: the delivery between dequeue and bookkeeping
    out,        \* deliveries a client has to settle: [cid, mode]
    settled,    \* history: messages acknowledged, auto-acknowledged, rejected
    unacked, deliverHi, consumeReplicated,  \* the tracking state in the queue
    acks,       \* the committed CL_OP_ACK watermarks, in log order
    here, there, \* how many of them this node and the replica have applied
    requeues, failures

tracking == <<unacked, deliverHi>>
vars == <<clients, published, ready, hand, out, settled, tracking, consumeReplicated, acks,
          here, there, requeues, failures>>

Cids(ds) == {d.cid : d \in ds}
InHand == {hand[w].cid : w \in {v \in Worker : hand[v] # NoDelivery}}
ReadySet == {ready[k] : k \in DOMAIN ready}

Higher(a, b) == IF a > b THEN a ELSE b

\* Mutants of IsWatermark: the oldest unacked message itself is covered; the
\* highest delivered one is not although nothing is unacked.
IsWatermarkAtOldest(wm, un, hi) ==
    IF un = {} THEN wm = hi ELSE wm \in un /\ \A c \in un : wm <= c
IsWatermarkBelowHighest(wm, un, hi) ==
    IF un = {} THEN wm = hi - 1 ELSE wm + 1 \in un /\ \A c \in un : wm < c

\* queue_consume_watermark(): just below the oldest unacked id, or the highest
\* delivered one when nothing is unacked.
IsWatermark(wm, un, hi) ==
    IF un = {} THEN wm = hi ELSE wm + 1 \in un /\ \A c \in un : wm < c

\* replicate_watermark(): propose the watermark if it has advanced.
ReplicateWatermark(un, hi) ==
    \E wm \in 0..hi :
        /\ IsWatermark(wm, un, hi)
        /\ IF wm > 0 /\ wm > consumeReplicated
           THEN consumeReplicated' = wm /\ acks' = Append(acks, wm)
           ELSE UNCHANGED <<consumeReplicated, acks>>

-----------------------------------------------------------------------------
Init ==
    /\ clients \in ClientSets
    /\ published = 0
    /\ ready = <<>>
    /\ hand = [w \in Worker |-> NoDelivery]
    /\ out = {} /\ settled = {}
    /\ unacked = {} /\ deliverHi = 0 /\ consumeReplicated = 0
    /\ acks = <<>> /\ here = 0 /\ there = 0
    /\ requeues = 0 /\ failures = 0

\* apply_op(CL_OP_PUBLISH): the message gets its log index and is enqueued.
Publish ==
    /\ published < MaxMsgs
    /\ published' = published + 1
    /\ ready' = Append(ready, published + 1)
    /\ UNCHANGED <<clients, hand, out, settled, tracking, consumeReplicated, acks, here,
                   there, requeues, failures>>

\* queue_dequeue() by service_group() ("ack", "noack") or Basic.Get ("pull",
\* "get").
Take(w, mode) ==
    /\ hand[w] = NoDelivery
    /\ ready # <<>>
    /\ hand' = [hand EXCEPT ![w] = [cid |-> Head(ready), mode |-> mode]]
    /\ ready' = Tail(ready)
    /\ UNCHANGED <<clients, published, out, settled, tracking, consumeReplicated, acks, here,
                   there, requeues, failures>>

\* deliver() to a manual-ack consumer, queue_consume_on_deliver(cid, 0).
DeliverAck(w) ==
    /\ hand[w] # NoDelivery /\ hand[w].mode = "ack"
    /\ out' = out \cup {hand[w]}
    /\ unacked' = unacked \cup {hand[w].cid}
    /\ deliverHi' = Higher(deliverHi, hand[w].cid)
    /\ hand' = [hand EXCEPT ![w] = NoDelivery]
    /\ UNCHANGED <<clients, published, ready, settled, consumeReplicated, acks, here, there,
                   requeues, failures>>

\* deliver() to a no-ack consumer, queue_consume_on_deliver(cid, 1).
DeliverNoAck(w) ==
    /\ hand[w] # NoDelivery /\ hand[w].mode = "noack"
    /\ settled' = settled \cup {hand[w].cid}
    /\ deliverHi' = Higher(deliverHi, hand[w].cid)
    /\ hand' = [hand EXCEPT ![w] = NoDelivery]
    /\ UNCHANGED <<clients, published, ready, out, unacked, consumeReplicated, acks, here, there,
                   requeues, failures>>

\* Basic.Get with no_ack: dispatcher_note_pull().
DeliverPull(w) ==
    /\ hand[w] # NoDelivery /\ hand[w].mode = "pull"
    /\ settled' = settled \cup {hand[w].cid}
    /\ deliverHi' = Higher(deliverHi, hand[w].cid)
    /\ ReplicateWatermark(unacked, Higher(deliverHi, hand[w].cid))
    /\ hand' = [hand EXCEPT ![w] = NoDelivery]
    /\ UNCHANGED <<clients, published, ready, out, unacked, here, there, requeues, failures>>

\* Basic.Get with manual ack: chan_get_unacked_add(); the queue is not told.
DeliverGet(w) ==
    /\ hand[w] # NoDelivery /\ hand[w].mode = "get"
    /\ out' = out \cup {hand[w]}
    /\ hand' = [hand EXCEPT ![w] = NoDelivery]
    /\ UNCHANGED <<clients, published, ready, settled, tracking, consumeReplicated, acks, here,
                   there, requeues, failures>>

\* deliver() fails: service_group() returns the message to the tail.
DeliverFails(w) ==
    /\ hand[w] # NoDelivery /\ hand[w].mode \in {"ack", "noack"}
    /\ failures < MaxFailures
    /\ failures' = failures + 1
    /\ ready' = Append(ready, hand[w].cid)
    /\ hand' = [hand EXCEPT ![w] = NoDelivery]
    /\ UNCHANGED <<clients, published, out, settled, tracking, consumeReplicated, acks, here,
                   there, requeues>>

\* Ack, or reject without requeue: queue_consume_on_ack().
Settle(d) ==
    /\ d \in out
    /\ out' = out \ {d}
    /\ settled' = settled \cup {d.cid}
    /\ unacked' = unacked \ {d.cid}
    /\ UNCHANGED <<clients, published, ready, hand, deliverHi, consumeReplicated, acks, here,
                   there, requeues, failures>>

\* Mutant of Requeue: the id is taken out of the unacked ids as for an ack.
RequeueUntracked(d) ==
    /\ d \in out
    /\ requeues < MaxRequeues
    /\ requeues' = requeues + 1
    /\ out' = out \ {d}
    /\ ready' = Append(ready, d.cid)
    /\ unacked' = unacked \ {d.cid}
    /\ UNCHANGED <<clients, published, hand, settled, deliverHi, consumeReplicated, acks, here,
                   there, failures>>

\* Nack with requeue, cancel, channel or connection close: back to the tail;
\* the id stays among the unacked ones.
Requeue(d) ==
    /\ d \in out
    /\ requeues < MaxRequeues
    /\ requeues' = requeues + 1
    /\ out' = out \ {d}
    /\ ready' = Append(ready, d.cid)
    /\ UNCHANGED <<clients, published, hand, settled, tracking, consumeReplicated, acks, here,
                   there, failures>>

\* consume_timer_cb(), and consumer_destroy() when a consumer goes away.
ConsumeTimer ==
    /\ ReplicateWatermark(unacked, deliverHi)
    /\ UNCHANGED <<clients, published, ready, hand, out, settled, tracking, here, there, requeues,
                   failures>>

\* apply_op(CL_OP_ACK) on this node: queue_drain_consumed() drops messages
\* from the head for as long as the watermark covers them.
ApplyHere ==
    /\ here < Len(acks)
    /\ here' = here + 1
    /\ \E k \in 0..Len(ready) :
        /\ \A i \in 1..k : ready[i] <= acks[here + 1]
        /\ k < Len(ready) => ready[k + 1] > acks[here + 1]
        /\ ready' = SubSeq(ready, k + 1, Len(ready))
    /\ UNCHANGED <<clients, published, hand, out, settled, tracking, consumeReplicated, acks,
                   there, requeues, failures>>

\* apply_op(CL_OP_ACK) on a replica without consumers.  Its queue is in
\* cluster_id order, so it is left with the ids above the watermark.
ApplyThere ==
    /\ there < Len(acks)
    /\ there' = there + 1
    /\ UNCHANGED <<clients, published, ready, hand, out, settled, tracking, consumeReplicated,
                   acks, here, requeues, failures>>

Next ==
    \/ Publish
    \/ \E w \in Worker :
        \/ \E mode \in AllModes : <<w, mode>> \in clients /\ Take(w, mode)
        \/ DeliverAck(w)
        \/ DeliverNoAck(w)
        \/ DeliverPull(w)
        \/ DeliverGet(w)
        \/ DeliverFails(w)
    \/ \E d \in out : Settle(d) \/ Requeue(d)
    \/ ConsumeTimer
    \/ ApplyHere
    \/ ApplyThere

Spec == Init /\ [][Next]_vars

\* The 50 ms consume timer keeps firing, the cluster loop applies what is
\* committed, and a worker finishes the delivery it has begun.
FairSpec ==
    /\ Spec
    /\ WF_vars(ConsumeTimer) /\ WF_vars(ApplyHere) /\ WF_vars(ApplyThere)
    /\ \A w \in Worker :
        WF_vars(DeliverAck(w) \/ DeliverNoAck(w) \/ DeliverPull(w) \/ DeliverGet(w))

-----------------------------------------------------------------------------
(* Properties.                                                             *)

\* The messages no client has settled, and those this node has in its queue, in
\* a worker's hand or with a client.
Unsettled == (1..published) \ settled
Held == ReadySet \cup InHand \cup Cids(out)

\* Where every delivery is recorded before another one is: one worker takes the
\* messages, none by Basic.Get with manual ack, and no delivery has failed.
Recorded ==
    /\ failures = 0
    /\ \E w \in Worker : clients \subseteq {w} \X {"ack", "noack", "pull"}

\* Every variable has the shape queue.c gives it.
TypeOK ==
    /\ clients \subseteq Worker \X AllModes
    /\ published \in Nat
    /\ ready \in Seq(Nat)
    /\ hand \in [Worker -> [cid : Nat, mode : AllModes] \cup {NoDelivery}]
    /\ out \subseteq [cid : Nat, mode : {"ack", "get"}]
    /\ settled \subseteq Nat
    /\ unacked \subseteq Nat
    /\ deliverHi \in Nat /\ consumeReplicated \in Nat
    /\ acks \in Seq(Nat)
    /\ here \in 0..Len(acks) /\ there \in 0..Len(acks)
    /\ requeues \in Nat /\ failures \in Nat

\* A replica still holds every message no client has settled, so losing this
\* node loses nothing: the watermark is global and never passes a message that
\* is ready, being delivered or unacked (queue_consume_watermark()).
ReplicaKeepsUnsettled ==
    Recorded => \A c \in Unsettled : \A k \in 1..there : acks[k] < c

\* The same whoever takes the messages and however: the watermark never passes
\* an unacked message, as the comment of struct queue says.
ReplicaAlwaysKeepsUnsettled ==
    \A c \in Unsettled : \A k \in 1..there : acks[k] < c

\* This node loses no message either: an unsettled message is in the queue, in
\* a worker's hand or with a client, so applying its own CL_OP_ACK never drops
\* one (queue_drain_consumed() on the consumer node).
NothingLost == Recorded => Unsettled \subseteq Held

\* Every message taken is one to acknowledge.
Acknowledged == \A t \in clients : t[2] = "ack"

\* Once every message is settled the replica's copies are all dropped in the
\* end (consume_timer_cb, apply_op(CL_OP_ACK)).
ReplicasDrain ==
    (Recorded /\ Acknowledged /\ published = MaxMsgs /\ Unsettled = {})
        ~> (\E k \in 1..there : acks[k] = MaxMsgs)

=============================================================================
