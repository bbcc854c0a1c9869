-------------------------------- MODULE Queue -------------------------------
(***************************************************************************)
(* One queue of src/src/queue.c: the ring buffer that grows by doubling,   *)
(* the length and byte limits with their overflow policies, the counters,  *)
(* and the congestion flag behind the flow alarm.  Every operation holds   *)
(* the queue's lock, so it is one step; publishers, dispatchers, the       *)
(* cluster's apply loop and the management thread take the steps in any    *)
(* order.  A message is its identity; its length is BodyLen[m].            *)
(***************************************************************************)
EXTENDS Integers, Sequences, FiniteSets

CONSTANTS
    Msg,         \* the messages ever published
    Null,        \* an empty slot
    BodyLen,     \* body_len of each message
    InitialCap,  \* QUEUE_INITIAL_CAP
    Limits,      \* the policies a declare may ask for: [len, bytes, dropHead]
    HasDlx,      \* a dead-letter exchange is configured
    MaxRequeues, \* bound: messages returned to the queue
    MaxOoms      \* bound: failing allocations

ASSUME QueueAssumption ==
    /\ Null \notin Msg
    /\ BodyLen \in [Msg -> Nat]
    /\ InitialCap \in Nat \ {0}
    /\ Limits \subseteq [len : Nat, bytes : Nat, dropHead : BOOLEAN]
    /\ HasDlx \in BOOLEAN
    /\ MaxRequeues \in Nat /\ MaxOoms \in Nat

VARIABLES
    slots, cap, head, tail, count,  \* the ring
    totalBytes,
    limit,        \* max_length, max_bytes (0 = none) and overflow policy
    configured,   \* the declarer has called queue_set_limits()
    congested,
    enqueued, dequeued, dropped, rejected,  \* lifetime counters
    fate,         \* history: where each message is
    requeues, ooms

ring     == <<slots, cap, head, tail, count>>
counters == <<enqueued, dequeued, dropped, rejected>>
vars == <<ring, totalBytes, limit, configured, congested, counters, fate, requeues, ooms>>

Fates == {"unpublished", "ready", "out", "rejected", "dropped", "dead", "consumed"}

Unlimited == [len |-> 0, bytes |-> 0, dropHead |-> FALSE]

-----------------------------------------------------------------------------
\* The messages in the ring, oldest first.
Contents == [i \in 1..count |-> slots[(head + i - 1) % cap]]

\* The sum of the first k elements of a sequence of numbers.
SumOfFirst(s, k) == LET sum[i \in Nat] == IF i = 0 THEN 0 ELSE sum[i - 1] + s[i] IN sum[k]

\* Body bytes of the messages in the ring, oldest first.
Lengths == [i \in 1..count |-> BodyLen[Contents[i]]]

\* Body bytes of the k oldest messages.
BytesOfFirst(k) == SumOfFirst(Lengths, k)

\* queue_would_overflow() for a queue of n messages and b bytes.
WouldOverflow(n, b, m) ==
    \/ limit.len # 0 /\ n + 1 > limit.len
    \/ limit.bytes # 0 /\ b + BodyLen[m] > limit.bytes

OverHigh(n, b) ==
    \/ limit.len # 0 /\ n >= limit.len - limit.len \div 10
    \/ limit.bytes # 0 /\ b >= limit.bytes - limit.bytes \div 10

UnderLow(n, b) ==
    /\ limit.len = 0 \/ n <= limit.len - limit.len \div 4
    /\ limit.bytes = 0 \/ b <= limit.bytes - limit.bytes \div 4

\* queue_update_congestion() once the queue has n messages and b bytes.
UpdateCongestion(n, b) ==
    congested' = IF ~congested /\ OverHigh(n, b) THEN TRUE
                 ELSE IF congested /\ UnderLow(n, b) THEN FALSE
                 ELSE congested

\* Mutant of Grown: the slots are copied without re-linearizing them.
GrownInPlace == [i \in 0..(2 * cap - 1) |-> IF i < cap THEN slots[i] ELSE Null]

\* queue_grow(): twice the slots, live messages moved to the front.
Grown == [i \in 0..(2 * cap - 1) |-> IF i < count THEN slots[(head + i) % cap] ELSE Null]

\* A message is stored at the tail of a ring with slots sl, capacity c, head h
\* and n messages before it.
StoreAtTail(sl, c, h, n, m) ==
    LET t == (h + n) % c
    IN /\ slots' = [sl EXCEPT ![t] = m]
       /\ cap' = c
       /\ head' = h
       /\ tail' = (t + 1) % c
       /\ count' = n + 1

\* The slots once the k oldest messages have been taken out.
SlotsWithout(k) ==
    [s \in DOMAIN slots |-> IF \E i \in 0..(k - 1) : s = (head + i) % cap THEN Null ELSE slots[s]]

\* The k oldest messages leave the ring.
RemoveFirst(k) ==
    /\ slots' = SlotsWithout(k)
    /\ head' = (head + k) % cap
    /\ count' = count - k
    /\ UNCHANGED <<cap, tail>>

Move(ms, to) == fate' = [m \in Msg |-> IF m \in ms THEN to ELSE fate[m]]

Oldest(k) == {Contents[i] : i \in 1..k}

-----------------------------------------------------------------------------
Init ==
    /\ slots = [i \in 0..(InitialCap - 1) |-> Null]
    /\ cap = InitialCap
    /\ head = 0 /\ tail = 0 /\ count = 0
    /\ totalBytes = 0
    /\ limit = Unlimited
    /\ configured = FALSE
    /\ congested = FALSE
    /\ enqueued = 0 /\ dequeued = 0 /\ dropped = 0 /\ rejected = 0
    /\ fate = [m \in Msg |-> "unpublished"]
    /\ requeues = 0 /\ ooms = 0

\* queue_set_limits(), called once by the connection that created the queue;
\* by then other connections may already publish to it.
SetLimits(l) ==
    /\ ~configured
    /\ configured' = TRUE
    /\ limit' = l
    /\ UNCHANGED <<ring, totalBytes, congested, counters, fate, requeues, ooms>>

\* queue_enqueue() into a full queue with overflow = reject-publish.
RejectPublish(m) ==
    /\ fate[m] = "unpublished"
    /\ WouldOverflow(count, totalBytes, m)
    /\ ~limit.dropHead
    /\ rejected' = rejected + 1
    /\ Move({m}, "rejected")
    /\ UNCHANGED <<ring, totalBytes, limit, configured, congested, enqueued, dequeued,
                   dropped, requeues, ooms>>

\* queue_enqueue() of a message that fits.
Enqueue(m) ==
    /\ fate[m] = "unpublished"
    /\ ~WouldOverflow(count, totalBytes, m)
    /\ IF count = cap THEN StoreAtTail(Grown, 2 * cap, 0, count, m)
                      ELSE StoreAtTail(slots, cap, head, count, m)
    /\ totalBytes' = totalBytes + BodyLen[m]
    /\ enqueued' = enqueued + 1
    /\ UpdateCongestion(count + 1, totalBytes + BodyLen[m])
    /\ Move({m}, "ready")
    /\ UNCHANGED <<limit, configured, dequeued, dropped, rejected, requeues, ooms>>

\* How many of the oldest messages drop-head evicts to make room for m.
Evicted(m) ==
    CHOOSE k \in 0..count :
        /\ k = count \/ ~WouldOverflow(count - k, totalBytes - BytesOfFirst(k), m)
        /\ \A j \in 0..(k - 1) : WouldOverflow(count - j, totalBytes - BytesOfFirst(j), m)

\* queue_enqueue() into a full queue with overflow = drop-head: evict, then
\* append.  A message larger than the byte limit is admitted to an empty
\* queue.  The evicted messages are dead-lettered once the lock is released.
EnqueueDropHead(m) ==
    /\ fate[m] = "unpublished"
    /\ WouldOverflow(count, totalBytes, m)
    /\ limit.dropHead
    /\ LET k == Evicted(m)
           bytes == totalBytes - BytesOfFirst(k) + BodyLen[m]
           gone == Oldest(k)
       IN /\ StoreAtTail(SlotsWithout(k), cap, (head + k) % cap, count - k, m)
          /\ totalBytes' = bytes
          /\ dropped' = dropped + k
          /\ UpdateCongestion(count - k + 1, bytes)
          /\ fate' = [x \in Msg |-> IF x = m THEN "ready"
                                    ELSE IF x \in gone THEN IF HasDlx THEN "dead" ELSE "dropped"
                                    ELSE fate[x]]
    /\ enqueued' = enqueued + 1
    /\ UNCHANGED <<limit, configured, dequeued, rejected, requeues, ooms>>

\* queue_enqueue() when the ring is full and cannot grow: the publish fails.
EnqueueOom(m) ==
    /\ fate[m] = "unpublished"
    /\ ~WouldOverflow(count, totalBytes, m)
    /\ count = cap
    /\ ooms < MaxOoms
    /\ ooms' = ooms + 1
    /\ Move({m}, "rejected")
    /\ UNCHANGED <<ring, totalBytes, limit, configured, congested, counters, requeues>>

\* queue_requeue_internal(): back to the tail, whatever the limits say.
Requeue(m) ==
    /\ fate[m] = "out"
    /\ requeues < MaxRequeues
    /\ requeues' = requeues + 1
    /\ IF count = cap THEN StoreAtTail(Grown, 2 * cap, 0, count, m)
                      ELSE StoreAtTail(slots, cap, head, count, m)
    /\ totalBytes' = totalBytes + BodyLen[m]
    /\ enqueued' = enqueued + 1
    /\ UpdateCongestion(count + 1, totalBytes + BodyLen[m])
    /\ Move({m}, "ready")
    /\ UNCHANGED <<limit, configured, dequeued, dropped, rejected, ooms>>

\* queue_requeue_internal() when the ring is full and cannot grow: the caller
\* logs it and drops the message.
RequeueOom(m) ==
    /\ fate[m] = "out"
    /\ count = cap
    /\ ooms < MaxOoms
    /\ ooms' = ooms + 1
    /\ Move({m}, "dropped")
    /\ UNCHANGED <<ring, totalBytes, limit, configured, congested, counters, requeues>>

\* queue_dequeue(): the reference passes to the caller.
Dequeue ==
    /\ count > 0
    /\ LET m == slots[head]
       IN /\ totalBytes' = totalBytes - BodyLen[m]
          /\ UpdateCongestion(count - 1, totalBytes - BodyLen[m])
          /\ Move({m}, "out")
    /\ RemoveFirst(1)
    /\ dequeued' = dequeued + 1
    /\ UNCHANGED <<limit, configured, enqueued, dropped, rejected, requeues, ooms>>

\* The consumer acknowledges, or rejects without requeue (dead-lettered when
\* the queue has a dead-letter exchange).
Settle(m, to) ==
    /\ fate[m] = "out"
    /\ to = "dead" => HasDlx
    /\ Move({m}, to)
    /\ UNCHANGED <<ring, totalBytes, limit, configured, congested, counters, requeues, ooms>>

\* Mutant of RemoveConsumed: the drained bytes are not taken off the total.
RemoveConsumedKeepingBytes(k) ==
    /\ RemoveFirst(k)
    /\ dequeued' = dequeued + k
    /\ Move(Oldest(k), "consumed")
    /\ UpdateCongestion(count - k, totalBytes)
    /\ UNCHANGED <<totalBytes, limit, configured, enqueued, dropped, rejected, requeues, ooms>>

\* The k oldest messages are released under one lock hold.
RemoveConsumed(k) ==
    /\ RemoveFirst(k)
    /\ totalBytes' = totalBytes - BytesOfFirst(k)
    /\ dequeued' = dequeued + k
    /\ Move(Oldest(k), "consumed")
    /\ UpdateCongestion(count - k, totalBytes - BytesOfFirst(k))
    /\ UNCHANGED <<limit, configured, enqueued, dropped, rejected, requeues, ooms>>

\* queue_drain_consumed(): a replicated watermark covers the k > 0 oldest.
DrainConsumed == \E k \in 1..count : RemoveConsumed(k)

\* queue_purge(): everything goes.
Purge == RemoveConsumed(count)

Next ==
    \/ \E l \in Limits : SetLimits(l)
    \/ \E m \in Msg :
        \/ RejectPublish(m)
        \/ Enqueue(m)
        \/ EnqueueDropHead(m)
        \/ EnqueueOom(m)
        \/ Requeue(m)
        \/ RequeueOom(m)
        \/ \E to \in {"consumed", "dead"} : Settle(m, to)
    \/ Dequeue
    \/ DrainConsumed
    \/ Purge

Spec == Init /\ [][Next]_vars

-----------------------------------------------------------------------------
(* Properties.                                                             *)

\* The ring indices stay inside the buffer and name the live region.
TypeOK ==
    /\ cap \in Nat \ {0}
    /\ slots \in [0..(cap - 1) -> Msg \cup {Null}]
    /\ head \in 0..(cap - 1) /\ tail \in 0..(cap - 1) /\ count \in 0..cap
    /\ tail = (head + count) % cap
    /\ totalBytes \in Int
    /\ limit \in Limits \cup {Unlimited}
    /\ configured \in BOOLEAN /\ congested \in BOOLEAN
    /\ {enqueued, dequeued, dropped, rejected, requeues, ooms} \subseteq Nat
    /\ fate \in [Msg -> Fates]

\* Over any mix of growth, wrap-around, eviction and requeue, the ring is a
\* FIFO queue: it implements Fifo.
fifo == INSTANCE Fifo WITH contents <- Contents
FifoOrder == fifo!FifoSpec

\* total_bytes is the sum of the queued bodies at every unlock: queue_enqueue,
\* _requeue_internal, _dequeue, _drain_consumed, _purge and drop-head each
\* adjust it on their own.
BytesExact == totalBytes = BytesOfFirst(count)

=============================================================================
