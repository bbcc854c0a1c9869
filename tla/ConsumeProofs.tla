---------------------------- MODULE ConsumeProofs ----------------------------
(***************************************************************************)
(* Proofs about Consume: as long as one worker loop takes the messages,    *)
(* none by a manual-ack Basic.Get, and no delivery has failed, the         *)
(* replicated watermark never covers a message no client has settled, and  *)
(* applying it never drops one, for any number of messages and requeues.   *)
(***************************************************************************)
EXTENDS Consume, TLAPS

\* Recorded, with its worker named.
Alone(w) ==
    /\ w \in Worker
    /\ failures = 0
    /\ clients \subseteq {w} \X {"ack", "noack", "pull"}

AllHeld == \A c \in Unsettled : c \in ReadySet \cup InHand \cup Cids(out)

\* c is tracked as unacked, or was never delivered.
Guarded(c) == c \in unacked \/ c > deliverHi

\* Messages never delivered are met in cluster_id order: c comes before d.
Before(c, d) == c # d /\ (c \in unacked \/ d \in unacked \/ c < d)

\* What is tracked has been delivered, what was delivered has been published.
TrackingInRange ==
    /\ deliverHi <= published
    /\ \A c \in unacked : 1 <= c /\ c <= deliverHi

\* The queue: published, guarded, nobody else's, in order where undelivered.
ReadyInOrder ==
    /\ \A k \in DOMAIN ready :
        ready[k] \in 1..published /\ Guarded(ready[k]) /\ ready[k] \notin Cids(out)
    /\ \A j, k \in DOMAIN ready : j < k => Before(ready[j], ready[k])

\* The message in the worker's hand came from the head of that queue, and no
\* other worker is in the middle of a delivery.
HandFirst(w) ==
    /\ \A v \in Worker : v # w => hand[v] = NoDelivery
    /\ hand[w] # NoDelivery =>
        /\ hand[w].mode # "get"
        /\ hand[w].cid \in 1..published
        /\ Guarded(hand[w].cid)
        /\ hand[w].cid \notin Cids(out)
        /\ \A k \in DOMAIN ready : Before(hand[w].cid, ready[k])

\* What a client holds is tracked.
OutTracked == \A d \in out : d.cid \in unacked /\ d.mode = "ack"

\* No watermark, applied or not, covers an unsettled message or one that was
\* never delivered.
AcksBelowUnsettled ==
    \A k \in DOMAIN acks : acks[k] <= deliverHi /\ \A c \in Unsettled : acks[k] < c

\* The inductive invariant.
IInv(w) ==
    /\ TypeOK
    /\ TrackingInRange
    /\ ReadyInOrder
    /\ HandFirst(w)
    /\ OutTracked
    /\ AllHeld
    /\ AcksBelowUnsettled

-----------------------------------------------------------------------------
\* What a message joining the tail of a queue leaves and adds.
LEMMA Appended ==
    ASSUME NEW s \in Seq(Nat), NEW c \in Nat, NEW t, t = Append(s, c)
    PROVE  /\ t \in Seq(Nat) /\ Len(t) = Len(s) + 1
           /\ DOMAIN t = DOMAIN s \cup {Len(s) + 1}
           /\ \A k \in DOMAIN s : k \in 1..Len(s) /\ t[k] = s[k]
           /\ t[Len(s) + 1] = c
<1>1. /\ t \in Seq(Nat) /\ Len(t) = Len(s) + 1
      /\ \A k \in 1..Len(s) : t[k] = s[k]
      /\ t[Len(s) + 1] = c
  OBVIOUS
<1>2. DOMAIN s = 1..Len(s) /\ DOMAIN t = 1..Len(t) /\ Len(s) \in Nat
  BY <1>1
<1>3. 1..Len(t) = 1..Len(s) \cup {Len(s) + 1}
  BY <1>1, <1>2
<1> QED
  BY <1>1, <1>2, <1>3

\* What dropping k messages from the head of a queue leaves.
LEMMA Dropped ==
    ASSUME NEW s \in Seq(Nat), NEW k \in 0..Len(s), NEW t, t = SubSeq(s, k + 1, Len(s))
    PROVE  /\ t \in Seq(Nat) /\ Len(t) = Len(s) - k
           /\ \A i \in 1..(Len(s) - k) : t[i] = s[k + i]
<1>1. k \in Nat /\ Len(s) \in Nat /\ k <= Len(s)
  OBVIOUS
<1>2. t = [i \in 1..(Len(s) - k) |-> s[k + i]]
  BY <1>1
<1>3. ASSUME NEW i \in 1..(Len(s) - k) PROVE s[k + i] \in Nat
  <2>1. k + i \in 1..Len(s)
    BY <1>1
  <2> QED
    BY <2>1, SMTT(30)
<1> QED
  BY <1>1, <1>2, <1>3, SMTT(30)

\* What taking the message at the head of a queue leaves.
LEMMA Taken ==
    ASSUME NEW s \in Seq(Nat), s # <<>>, NEW t, t = Tail(s)
    PROVE  /\ t \in Seq(Nat) /\ Len(s) \in Nat /\ Len(t) = Len(s) - 1
           /\ DOMAIN s = 1..Len(s) /\ DOMAIN t = 1..Len(t)
           /\ 1 \in DOMAIN s /\ Head(s) = s[1] /\ s[1] \in Nat
           /\ \A k \in DOMAIN t :
                k \in Nat /\ k + 1 \in DOMAIN s /\ 1 < k + 1 /\ t[k] = s[k + 1]
           /\ \A k \in DOMAIN s : k # 1 => k - 1 \in DOMAIN t /\ t[k - 1] = s[k]
<1>1. Len(s) \in Nat /\ Len(s) > 0 /\ DOMAIN s = 1..Len(s)
  OBVIOUS
<1>2. t \in Seq(Nat) /\ Len(t) = Len(s) - 1 /\ DOMAIN t = 1..Len(t)
  BY <1>1
<1>3. 1 \in DOMAIN s /\ Head(s) = s[1] /\ s[1] \in Nat
  BY <1>1
<1>4. ASSUME NEW k \in 1..Len(t)
      PROVE  k \in Nat /\ k + 1 \in 1..Len(s) /\ 1 < k + 1 /\ t[k] = s[k + 1]
  BY <1>1, <1>2
<1>5. ASSUME NEW k \in 1..Len(s), k # 1 PROVE k - 1 \in 1..Len(t) /\ t[k - 1] = s[k]
  <2>1. k - 1 \in 1..Len(t) /\ (k - 1) + 1 = k
    BY <1>1, <1>2, <1>5
  <2> QED
    BY <1>4, <2>1
<1> QED
  BY <1>1, <1>2, <1>3, <1>4, <1>5, ZenonT(30)

\* A delivery in progress is not the idle worker's NoDelivery.
LEMMA NoDeliveryNotRecord ==
    ASSUME NEW c \in Nat, NEW m \in AllModes
    PROVE  [cid |-> c, mode |-> m] # NoDelivery
BY ConsumeAssumption

\* Each member of InHand is the message of a busy worker (dispatch.c deliver()).
LEMMA HandOf ==
    ASSUME NEW w \in Worker, HandFirst(w)
    PROVE  InHand = IF hand[w] = NoDelivery THEN {} ELSE {hand[w].cid}
BY DEF InHand, HandFirst

\* The message in hand is one that was published.
LEMMA HandTyped ==
    ASSUME NEW w \in Worker, TypeOK, HandFirst(w), hand[w] # NoDelivery
    PROVE  hand[w].cid \in Nat
<1>1. published \in Nat
  BY DEF TypeOK
<1>2. hand[w].cid \in 1..published
  BY DEF HandFirst
<1> QED
  BY <1>1, <1>2

\* The initial state of a fresh queue (queue_new()) satisfies the invariant.
LEMMA InitInv ==
    ASSUME NEW w \in Worker, Alone(w), Init
    PROVE  IInv(w)
<1> USE ConsumeAssumption DEF Alone, Init
<1>1. TypeOK
  BY DEF TypeOK
<1>2. TrackingInRange /\ ReadyInOrder /\ HandFirst(w) /\ OutTracked /\ AcksBelowUnsettled
  BY DEF TrackingInRange, ReadyInOrder, HandFirst, OutTracked, AcksBelowUnsettled
<1>3. AllHeld
  BY DEF AllHeld, Unsettled
<1> QED
  BY <1>1, <1>2, <1>3 DEF IInv

\* An unsettled message is guarded, wherever it is.
LEMMA UnsettledGuarded ==
    ASSUME NEW w \in Worker, Alone(w), IInv(w), NEW c \in Unsettled
    PROVE  Guarded(c)
<1>1. CASE c \in ReadySet
  BY <1>1 DEF IInv, ReadyInOrder, ReadySet
<1>2. CASE c \in InHand
  BY <1>2, HandOf DEF IInv, HandFirst
<1>3. CASE c \in Cids(out)
  BY <1>3 DEF IInv, OutTracked, Cids, Guarded
<1> QED
  BY <1>1, <1>2, <1>3 DEF IInv, AllHeld

\* A watermark is below whatever is tracked and below whatever was never
\* delivered (queue_consume_watermark()).
LEMMA WatermarkBelow ==
    ASSUME NEW un \in SUBSET Nat, NEW hi \in Nat, NEW wm \in 0..hi,
           IsWatermark(wm, un, hi), \A d \in un : d <= hi,
           NEW c \in Nat, c \in un \/ c > hi
    PROVE  wm < c
BY DEF IsWatermark

\* Replicating the watermark keeps the log of watermarks well typed.
LEMMA ReplicateType ==
    ASSUME TypeOK, NEW un \in SUBSET Nat, NEW hi \in Nat, ReplicateWatermark(un, hi)
    PROVE  /\ acks' \in Seq(Nat) /\ consumeReplicated' \in Nat
           /\ Len(acks') >= Len(acks)
           /\ \A k \in DOMAIN acks' :
                \/ k \in DOMAIN acks /\ acks'[k] = acks[k]
                \/ acks'[k] \in 0..hi /\ IsWatermark(acks'[k], un, hi)
<1>1. PICK wm \in 0..hi :
        /\ IsWatermark(wm, un, hi)
        /\ IF wm > 0 /\ wm > consumeReplicated
           THEN consumeReplicated' = wm /\ acks' = Append(acks, wm)
           ELSE UNCHANGED <<consumeReplicated, acks>>
  BY DEF ReplicateWatermark
<1>2. acks \in Seq(Nat) /\ consumeReplicated \in Nat
  BY DEF TypeOK
<1>3. CASE wm > 0 /\ wm > consumeReplicated
  <2>1. acks' = Append(acks, wm) /\ consumeReplicated' = wm
    BY <1>1, <1>3
  <2>2. /\ acks' \in Seq(Nat) /\ Len(acks') = Len(acks) + 1
        /\ \A k \in 1..Len(acks) : acks'[k] = acks[k]
        /\ acks'[Len(acks) + 1] = wm
    BY <1>2, <2>1
  <2> QED
    BY <1>1, <1>2, <2>1, <2>2
<1>4. CASE ~(wm > 0 /\ wm > consumeReplicated)
  BY <1>1, <1>2, <1>4
<1> QED
  BY <1>3, <1>4

\* What a node has applied of a log that only grows is still part of it.
LEMMA LongerLog ==
    ASSUME TypeOK, acks' \in Seq(Nat), Len(acks') >= Len(acks), here' = here, there' = there
    PROVE  here' \in 0..Len(acks') /\ there' \in 0..Len(acks')
<1>1. here \in 0..Len(acks) /\ there \in 0..Len(acks) /\ acks \in Seq(Nat)
  BY DEF TypeOK
<1>2. Len(acks) \in Nat /\ Len(acks') \in Nat
  BY <1>1
<1> QED
  BY <1>1, <1>2

\* A step that touches neither the queue nor the tracking leaves the order of
\* the queue and the message in hand alone.
LEMMA SameQueue ==
    ASSUME NEW w \in Worker, ReadyInOrder, HandFirst(w),
           published' = published, ready' = ready, hand' = hand, out' = out,
           unacked' = unacked, deliverHi' = deliverHi
    PROVE  ReadyInOrder' /\ HandFirst(w)'
<1>1. ASSUME NEW k \in DOMAIN ready'
      PROVE  ready'[k] \in 1..published' /\ Guarded(ready[k])' /\ ready'[k] \notin Cids(out')
  BY DEF ReadyInOrder, Guarded
<1>2. ASSUME NEW j \in DOMAIN ready', NEW k \in DOMAIN ready', j < k
      PROVE  Before(ready[j], ready[k])'
  BY <1>2 DEF ReadyInOrder, Before
<1>3. ReadyInOrder'
  BY <1>1, <1>2 DEF ReadyInOrder
<1>4. HandFirst(w)'
  BY DEF HandFirst, Guarded, Before
<1> QED
  BY <1>3, <1>4

\* Every other unsettled message stays guarded once the one in the worker's
\* hand counts as delivered.
LEMMA GuardedBehindHand ==
    ASSUME NEW w \in Worker, Alone(w), IInv(w), hand[w] # NoDelivery,
           NEW c \in Unsettled, c # hand[w].cid
    PROVE  c \in unacked \/ c > Higher(deliverHi, hand[w].cid)
<1>0. deliverHi \in Nat /\ hand[w].cid \in Nat /\ c \in Nat
  BY DEF IInv, TypeOK, HandFirst, Unsettled
<1>1. Guarded(c)
  BY UnsettledGuarded
<1>2. CASE c \in ReadySet
  <2>1. PICK k \in DOMAIN ready : c = ready[k]
    BY <1>2 DEF ReadySet
  <2>2. Before(hand[w].cid, c)
    BY <2>1 DEF IInv, HandFirst
  <2>3. CASE hand[w].cid \in unacked
    BY <1>0, <1>1, <2>3 DEF IInv, TrackingInRange, Guarded, Higher
  <2> QED
    BY <1>0, <1>1, <2>2, <2>3 DEF Before, Guarded, Higher
<1>3. CASE c \in InHand
  BY <1>3, HandOf DEF IInv
<1>4. CASE c \in Cids(out)
  BY <1>4 DEF IInv, OutTracked, Cids
<1> QED
  BY <1>2, <1>3, <1>4 DEF IInv, AllHeld

-----------------------------------------------------------------------------
(* One lemma per action.                                                   *)

\* A published message gets a fresh id and joins the tail.
LEMMA PublishInv ==
    ASSUME NEW w \in Worker, Alone(w), IInv(w), Publish
    PROVE  IInv(w)'
<1> USE DEF IInv
<1>0. /\ published \in Nat /\ published' = published + 1 /\ ready \in Seq(Nat)
      /\ ready' \in Seq(Nat) /\ DOMAIN ready' = DOMAIN ready \cup {Len(ready) + 1}
      /\ \A k \in DOMAIN ready : k \in 1..Len(ready) /\ ready'[k] = ready[k]
      /\ ready'[Len(ready) + 1] = published + 1
      /\ ReadySet' = ReadySet \cup {published + 1}
  <2>1. /\ published \in Nat /\ published' = published + 1 /\ ready \in Seq(Nat)
        /\ ready' = Append(ready, published + 1) /\ published + 1 \in Nat
    BY DEF Publish, TypeOK
  <2>2. /\ ready' \in Seq(Nat) /\ DOMAIN ready' = DOMAIN ready \cup {Len(ready) + 1}
        /\ \A k \in DOMAIN ready : k \in 1..Len(ready) /\ ready'[k] = ready[k]
        /\ ready'[Len(ready) + 1] = published + 1
    BY <2>1, Appended
  <2>3. ReadySet' = ReadySet \cup {published + 1}
    BY <2>2, ZenonT(30) DEF ReadySet
  <2> QED
    BY <2>1, <2>2, <2>3
<1>1. TypeOK'
  BY <1>0 DEF TypeOK, Publish, tracking
<1>2. TrackingInRange'
  BY <1>0 DEF TrackingInRange, Publish, tracking, TypeOK
<1>3. ReadyInOrder'
  <2>1. \A d \in Cids(out) : d <= published
    BY <1>0, SMTT(30) DEF OutTracked, TrackingInRange, Cids, TypeOK
  <2>2. /\ out' = out /\ unacked' = unacked /\ deliverHi' = deliverHi
        /\ deliverHi \in Nat /\ unacked \subseteq Nat
    BY DEF Publish, tracking, TypeOK
  <2>3. ASSUME NEW k \in DOMAIN ready'
        PROVE  ready'[k] \in 1..published' /\ Guarded(ready[k])' /\ ready'[k] \notin Cids(out')
    BY <1>0, <2>1, <2>2 DEF ReadyInOrder, Guarded, TrackingInRange
  <2>4. ASSUME NEW j \in DOMAIN ready', NEW k \in DOMAIN ready', j < k
        PROVE  Before(ready[j], ready[k])'
    BY <1>0, <2>2, <2>4, SMTT(30) DEF ReadyInOrder, Before
  <2> QED
    BY <2>3, <2>4, <2>2 DEF ReadyInOrder
<1>4. HandFirst(w)'
  <2>1. /\ hand' = hand /\ out' = out /\ unacked' = unacked /\ deliverHi' = deliverHi
    BY DEF Publish, tracking
  <2> SUFFICES ASSUME hand[w] # NoDelivery
               PROVE  /\ hand[w].mode # "get" /\ hand[w].cid \in 1..published'
                      /\ Guarded(hand[w].cid) /\ hand[w].cid \notin Cids(out)
                      /\ \A k \in DOMAIN ready' : Before(hand[w].cid, ready'[k])
    BY <2>1 DEF HandFirst, Guarded, Before
  <2>2. hand[w].cid \in 1..published
    BY DEF HandFirst
  <2>3. ASSUME NEW k \in DOMAIN ready' PROVE Before(hand[w].cid, ready'[k])
    BY <1>0, <2>2 DEF HandFirst, Before
  <2> QED
    BY <1>0, <2>2, <2>3 DEF HandFirst
<1>5. OutTracked'
  BY DEF OutTracked, Publish, tracking
<1>6. AllHeld'
  <2>2. Unsettled' \subseteq Unsettled \cup {published + 1}
    BY <1>0 DEF Unsettled, Publish
  <2>3. InHand' = InHand /\ Cids(out)' = Cids(out)
    BY DEF InHand, Publish, Cids
  <2> QED
    BY <1>0, <2>2, <2>3 DEF AllHeld
<1>7. AcksBelowUnsettled'
  BY <1>0, SMTT(30) DEF AcksBelowUnsettled, Publish, Unsettled, TypeOK, TrackingInRange, tracking
<1> QED
  BY <1>1, <1>2, <1>3, <1>4, <1>5, <1>6, <1>7

\* service_group() or Basic.Get takes the message at the head.
LEMMA TakeInv ==
    ASSUME NEW w \in Worker, Alone(w), IInv(w), NEW mode \in {"ack", "noack", "pull"}, Take(w, mode)
    PROVE  IInv(w)'
<1>0. /\ ready \in Seq(Nat) /\ ready' \in Seq(Nat)
      /\ Len(ready) \in Nat /\ Len(ready') = Len(ready) - 1
      /\ DOMAIN ready = 1..Len(ready) /\ DOMAIN ready' = 1..Len(ready')
      /\ 1 \in DOMAIN ready /\ Head(ready) = ready[1] /\ ready[1] \in Nat
  <2>1. ready \in Seq(Nat) /\ ready # <<>> /\ ready' = Tail(ready)
    BY DEF IInv, Take, TypeOK
  <2> QED
    BY <2>1, Taken
<1>t. ready \in Seq(Nat) /\ ready # <<>> /\ ready' = Tail(ready)
  BY DEF IInv, Take, TypeOK
<1>a. ASSUME NEW k \in DOMAIN ready'
      PROVE  k \in Nat /\ k + 1 \in DOMAIN ready /\ 1 < k + 1 /\ ready'[k] = ready[k + 1]
  BY <1>t, Taken
<1>b. ASSUME NEW k \in DOMAIN ready, k # 1
      PROVE  k - 1 \in DOMAIN ready' /\ ready'[k - 1] = ready[k]
  BY <1>t, <1>b, Taken
<1> USE DEF IInv
<1>1. hand' = [hand EXCEPT ![w] = [cid |-> ready[1], mode |-> mode]] /\ hand[w] = NoDelivery
  BY <1>0 DEF Take
<1>2. /\ published' = published /\ out' = out /\ settled' = settled /\ unacked' = unacked
      /\ deliverHi' = deliverHi /\ acks' = acks
  BY DEF Take, tracking
<1>3. TypeOK'
  <2>1. [cid |-> ready[1], mode |-> mode] \in [cid : Nat, mode : AllModes]
    BY <1>0 DEF AllModes
  <2>2. hand' \in [Worker -> [cid : Nat, mode : AllModes] \cup {NoDelivery}]
    BY <1>1, <2>1 DEF TypeOK
  <2> QED
    BY <1>0, <1>2, <2>2, SMTT(30) DEF TypeOK, Take, tracking
<1>4. hand'[w] = [cid |-> ready[1], mode |-> mode] /\ hand'[w].cid = ready[1] /\ hand'[w].mode = mode
  BY <1>1 DEF TypeOK
<1>5. TrackingInRange'
  BY <1>2 DEF TrackingInRange
<1>6. ReadyInOrder'
  <2>1. ASSUME NEW k \in DOMAIN ready'
        PROVE  ready'[k] \in 1..published' /\ Guarded(ready[k])' /\ ready'[k] \notin Cids(out')
    BY <1>2, <1>a DEF ReadyInOrder, Guarded
  <2>2. ASSUME NEW j \in DOMAIN ready', NEW k \in DOMAIN ready', j < k
        PROVE  Before(ready[j], ready[k])'
    <3>1. /\ k + 1 \in DOMAIN ready /\ ready'[k] = ready[k + 1]
          /\ j + 1 \in DOMAIN ready /\ ready'[j] = ready[j + 1]
          /\ j + 1 < k + 1
      BY <1>a, <2>2, SMTT(30)
    <3> QED
      BY <1>2, <3>1 DEF ReadyInOrder, Before
  <2> QED
    BY <2>1, <2>2 DEF ReadyInOrder
<1>7. HandFirst(w)'
  <2>1. ready[1] \in 1..published /\ Guarded(ready[1]) /\ ready[1] \notin Cids(out)
    BY <1>0, ZenonT(30) DEF ReadyInOrder
  <2>2. ASSUME NEW k \in DOMAIN ready'
        PROVE  Before(ready[1], ready'[k])
    BY <1>0, <1>a, ZenonT(30) DEF ReadyInOrder
  <2> QED
    BY <1>1, <1>2, <1>4, <2>1, <2>2 DEF HandFirst, Guarded, Before, TypeOK
<1>8. OutTracked'
  BY <1>2 DEF OutTracked
<1>9. AllHeld'
  <2>1. ReadySet \subseteq ReadySet' \cup {ready[1]}
    <3> SUFFICES ASSUME NEW k \in DOMAIN ready, k # 1
                 PROVE  ready[k] \in ReadySet'
      BY DEF ReadySet
    <3> QED
      BY <1>b DEF ReadySet
  <2>2. InHand = {}
    BY <1>1, HandOf
  <2>3. ready[1] \in InHand'
    <3>1. hand'[w] # NoDelivery
      BY <1>0, <1>4, NoDeliveryNotRecord DEF AllModes
    <3> QED
      BY <1>4, <3>1 DEF InHand
  <2> QED
    BY <1>2, <2>1, <2>2, <2>3 DEF AllHeld, Unsettled
<1>10. AcksBelowUnsettled'
  BY <1>2 DEF AcksBelowUnsettled, Unsettled
<1> QED
  BY <1>3, <1>5, <1>6, <1>7, <1>8, <1>9, <1>10

\* After a delivery is recorded the worker's hand is empty and the messages in
\* the queue are guarded by the new highest delivered id, whether the delivered
\* id un is tracked (un = {cid}) or not (un = {}).
LEMMA HandReleased ==
    ASSUME NEW w \in Worker, Alone(w), IInv(w), hand[w] # NoDelivery,
           hand' = [hand EXCEPT ![w] = NoDelivery],
           deliverHi' = Higher(deliverHi, hand[w].cid),
           unacked' = unacked \/ unacked' = unacked \cup {hand[w].cid},
           ready' = ready, published' = published,
           \A c : c \in Cids(out') => c \in Cids(out) \/ c = hand[w].cid
    PROVE  /\ hand' \in [Worker -> [cid : Nat, mode : AllModes] \cup {NoDelivery}]
           /\ deliverHi' \in Nat /\ deliverHi <= deliverHi' /\ unacked' \subseteq Nat
           /\ unacked \subseteq unacked'
           /\ TrackingInRange' /\ ReadyInOrder' /\ HandFirst(w)' /\ InHand' = {}
<1>0. /\ deliverHi \in Nat /\ published \in Nat /\ hand[w].cid \in 1..published
      /\ unacked \subseteq Nat /\ ready \in Seq(Nat) /\ hand[w].cid \in Nat
  BY SMTT(30) DEF IInv, TypeOK, HandFirst
<1>1. /\ deliverHi' \in Nat /\ deliverHi <= deliverHi' /\ hand[w].cid <= deliverHi'
      /\ deliverHi' <= published
      /\ deliverHi' = deliverHi \/ deliverHi' = hand[w].cid
  BY <1>0, SMTT(20) DEF Higher, IInv, TrackingInRange
<1>2. unacked' \subseteq Nat /\ unacked \subseteq unacked'
  BY <1>0, ZenonT(30)
<1>3. /\ hand' \in [Worker -> [cid : Nat, mode : AllModes] \cup {NoDelivery}]
      /\ \A v \in Worker : hand'[v] = NoDelivery
  BY DEF IInv, TypeOK, HandFirst
<1>4. TrackingInRange'
  <2>1. ASSUME NEW c \in unacked' PROVE 1 <= c /\ c <= deliverHi'
    <3>1. CASE c \in unacked
      <4>1. c \in Nat /\ 1 <= c /\ c <= deliverHi
        BY <1>0, <3>1, ZenonT(30) DEF TrackingInRange, IInv
      <4> QED
        BY <1>0, <1>1, <4>1
    <3>2. CASE c = hand[w].cid
      BY <1>0, <1>1, <3>2, SMTT(30)
    <3> QED
      BY <2>1, <3>1, <3>2, SMTT(30)
  <2> QED
    BY <1>1, <2>1 DEF TrackingInRange
<1>5. ReadyInOrder'
  <2>1. ASSUME NEW k \in DOMAIN ready
        PROVE  ready[k] \in 1..published /\ Guarded(ready[k])' /\ ready[k] \notin Cids(out')
    <3>1. /\ ready[k] \in 1..published /\ Guarded(ready[k]) /\ ready[k] \notin Cids(out)
          /\ Before(hand[w].cid, ready[k])
      BY DEF IInv, ReadyInOrder, HandFirst
    <3>2. CASE hand[w].cid \in unacked
      BY <1>0, <1>1, <1>2, <3>1, <3>2, SMTT(30) DEF Guarded, Before, IInv, TrackingInRange
    <3>3. CASE hand[w].cid \notin unacked
      BY <1>0, <1>1, <1>2, <3>1, <3>3, ZenonT(30) DEF Guarded, Before
    <3> QED
      BY <3>2, <3>3, ZenonT(30)
  <2>2. ASSUME NEW j \in DOMAIN ready, NEW k \in DOMAIN ready, j < k
        PROVE  Before(ready[j], ready[k])'
    BY <1>2, <2>2, ZenonT(30) DEF Before, IInv, ReadyInOrder
  <2> QED
    BY <2>1, <2>2 DEF ReadyInOrder
<1>6. HandFirst(w)' /\ InHand' = {}
  BY <1>3 DEF HandFirst, InHand
<1> QED
  BY <1>1, <1>2, <1>3, <1>4, <1>5, <1>6

\* A delivery to a manual-ack consumer.
LEMMA DeliverAckInv ==
    ASSUME NEW w \in Worker, Alone(w), IInv(w), DeliverAck(w)
    PROVE  IInv(w)'
<1>0. /\ hand[w] # NoDelivery /\ hand[w].mode = "ack" /\ out' = out \cup {hand[w]}
      /\ unacked' = unacked \cup {hand[w].cid}
      /\ settled' = settled /\ published' = published /\ acks' = acks /\ ready' = ready
  BY DEF DeliverAck
<1>1. Cids(out') = Cids(out) \cup {hand[w].cid}
  BY <1>0, SMTT(30) DEF Cids
<1>2. /\ hand' \in [Worker -> [cid : Nat, mode : AllModes] \cup {NoDelivery}]
      /\ deliverHi' \in Nat /\ deliverHi <= deliverHi' /\ unacked' \subseteq Nat
      /\ TrackingInRange' /\ ReadyInOrder' /\ HandFirst(w)' /\ InHand' = {}
  BY <1>0, <1>1, HandReleased, ZenonT(30) DEF DeliverAck
<1>3. TypeOK'
  <2>1. hand[w] \in [cid : Nat, mode : AllModes]
    BY <1>0 DEF IInv, TypeOK
  <2>2. hand[w] \in [cid : Nat, mode : {"ack", "get"}]
    BY <1>0, <2>1
  <2> QED
    BY <1>0, <1>2, <2>2 DEF IInv, TypeOK, DeliverAck
<1>4. OutTracked'
  BY <1>0 DEF IInv, OutTracked
<1>5. AllHeld'
  <2>1. InHand = {hand[w].cid} /\ ReadySet' = ReadySet /\ Unsettled' = Unsettled
    BY <1>0, HandOf DEF IInv, ReadySet, Unsettled
  <2> QED
    BY <1>0, <1>1, <2>1, ZenonT(30) DEF IInv, AllHeld
<1>6. AcksBelowUnsettled'
  BY <1>0, <1>2, SMTT(30) DEF IInv, AcksBelowUnsettled, Unsettled, TypeOK
<1> QED
  BY <1>2, <1>3, <1>4, <1>5, <1>6 DEF IInv

\* A delivery to a no-ack consumer.
LEMMA DeliverNoAckInv ==
    ASSUME NEW w \in Worker, Alone(w), IInv(w), DeliverNoAck(w)
    PROVE  IInv(w)'
<1>0. /\ hand[w] # NoDelivery /\ out' = out /\ unacked' = unacked
      /\ settled' = settled \cup {hand[w].cid} /\ published' = published /\ acks' = acks
      /\ ready' = ready /\ hand[w].cid \in Nat
  <2>1. /\ hand[w] # NoDelivery /\ out' = out /\ unacked' = unacked
        /\ settled' = settled \cup {hand[w].cid} /\ published' = published /\ acks' = acks
        /\ ready' = ready
    BY DEF DeliverNoAck
  <2>2. hand[w].cid \in Nat
    BY <2>1, HandTyped, SMTT(30) DEF IInv
  <2> QED
    BY <2>1, <2>2
<1>2. /\ hand' \in [Worker -> [cid : Nat, mode : AllModes] \cup {NoDelivery}]
      /\ deliverHi' \in Nat /\ deliverHi <= deliverHi' /\ unacked' \subseteq Nat
      /\ TrackingInRange' /\ ReadyInOrder' /\ HandFirst(w)' /\ InHand' = {}
  BY <1>0, HandReleased, ZenonT(30) DEF DeliverNoAck
<1>3. TypeOK'
  BY <1>0, <1>2, ZenonT(30) DEF IInv, TypeOK, DeliverNoAck
<1>4. OutTracked'
  BY <1>0 DEF IInv, OutTracked
<1>5. AllHeld'
  <2>1. InHand = {hand[w].cid} /\ ReadySet' = ReadySet /\ Unsettled' = Unsettled \ {hand[w].cid}
    BY <1>0, HandOf DEF IInv, ReadySet, Unsettled
  <2> QED
    BY <1>0, <2>1, ZenonT(30) DEF IInv, AllHeld
<1>6. AcksBelowUnsettled'
  BY <1>0, <1>2, SMTT(30) DEF IInv, AcksBelowUnsettled, Unsettled, TypeOK
<1> QED
  BY <1>2, <1>3, <1>4, <1>5, <1>6 DEF IInv

\* An auto-acknowledged Basic.Get, which replicates the watermark at once.
LEMMA DeliverPullInv ==
    ASSUME NEW w \in Worker, Alone(w), IInv(w), DeliverPull(w)
    PROVE  IInv(w)'
<1>0. /\ hand[w] # NoDelivery /\ out' = out /\ unacked' = unacked
      /\ settled' = settled \cup {hand[w].cid} /\ published' = published
      /\ ready' = ready /\ hand[w].cid \in Nat
      /\ ReplicateWatermark(unacked, deliverHi') /\ deliverHi' = Higher(deliverHi, hand[w].cid)
      /\ here' = here /\ there' = there
  <2>1. /\ hand[w] # NoDelivery /\ out' = out /\ unacked' = unacked
        /\ settled' = settled \cup {hand[w].cid} /\ published' = published
        /\ ready' = ready /\ here' = here /\ there' = there
        /\ deliverHi' = Higher(deliverHi, hand[w].cid)
        /\ ReplicateWatermark(unacked, Higher(deliverHi, hand[w].cid))
    BY ZenonT(30) DEF DeliverPull
  <2>2. hand[w].cid \in Nat
    BY <2>1, HandTyped, SMTT(30) DEF IInv
  <2> QED
    BY <2>1, <2>2, ZenonT(30)
<1>2. /\ hand' \in [Worker -> [cid : Nat, mode : AllModes] \cup {NoDelivery}]
      /\ deliverHi' \in Nat /\ deliverHi <= deliverHi' /\ unacked' \subseteq Nat
      /\ TrackingInRange' /\ ReadyInOrder' /\ HandFirst(w)' /\ InHand' = {}
  BY <1>0, HandReleased, ZenonT(30) DEF DeliverPull
<1>3. /\ acks' \in Seq(Nat) /\ consumeReplicated' \in Nat /\ Len(acks') >= Len(acks)
      /\ \A k \in DOMAIN acks' :
            \/ k \in DOMAIN acks /\ acks'[k] = acks[k]
            \/ acks'[k] \in 0..deliverHi' /\ IsWatermark(acks'[k], unacked, deliverHi')
  BY <1>0, <1>2, ReplicateType, ZenonT(30) DEF IInv, TypeOK
<1>4. TypeOK'
  <2>1. here' \in 0..Len(acks') /\ there' \in 0..Len(acks')
    BY <1>0, <1>3, LongerLog, ZenonT(30) DEF IInv
  <2> QED
    BY <1>0, <1>2, <1>3, <2>1, ZenonT(30) DEF IInv, TypeOK, DeliverPull
<1>5. OutTracked'
  BY <1>0, ZenonT(30) DEF IInv, OutTracked
<1>6. Unsettled' = Unsettled \ {hand[w].cid}
  BY <1>0, ZenonT(30) DEF Unsettled
<1>7. AllHeld'
  <2>1. InHand = {hand[w].cid} /\ ReadySet' = ReadySet
    BY <1>0, HandOf DEF IInv, ReadySet
  <2> QED
    BY <1>0, <1>6, <2>1, ZenonT(30) DEF IInv, AllHeld
<1>8. AcksBelowUnsettled'
  <2>1. ASSUME NEW k \in DOMAIN acks'
        PROVE  acks'[k] <= deliverHi' /\ \A c \in Unsettled' : acks'[k] < c
    <3>1. CASE k \in DOMAIN acks /\ acks'[k] = acks[k]
      BY <1>2, <1>6, <3>1, SMTT(30) DEF IInv, AcksBelowUnsettled, TypeOK
    <3>2. CASE acks'[k] \in 0..deliverHi' /\ IsWatermark(acks'[k], unacked, deliverHi')
      <4>1. ASSUME NEW c \in Unsettled' PROVE c \in Nat /\ (c \in unacked \/ c > deliverHi')
        <5>1. c \in Unsettled /\ c # hand[w].cid
          BY <1>6, <4>1
        <5>2. c \in Nat
          BY <5>1, SMTT(30) DEF Unsettled, IInv, TypeOK
        <5> QED
          BY <1>0, <5>1, <5>2, GuardedBehindHand
      <4>2. \A d \in unacked : d <= deliverHi'
        BY <1>0, <1>2, ZenonT(30) DEF TrackingInRange
      <4>3. unacked \in SUBSET Nat /\ deliverHi' \in Nat
        BY <1>0, <1>2
      <4>4. ASSUME NEW c \in Unsettled' PROVE acks'[k] < c
        BY <3>2, <4>1, <4>2, <4>3, WatermarkBelow
      <4>5. acks'[k] <= deliverHi'
        BY <3>2, <4>3
      <4> QED
        BY <4>4, <4>5
    <3> QED
      BY <1>3, <3>1, <3>2, SMTT(30)
  <2> QED
    BY <2>1, ZenonT(30) DEF AcksBelowUnsettled
<1> QED
  BY <1>2, <1>4, <1>5, <1>7, <1>8 DEF IInv

\* An ack or a reject: the id is released everywhere at once.
LEMMA SettleInv ==
    ASSUME NEW w \in Worker, Alone(w), IInv(w), NEW d \in out, Settle(d)
    PROVE  IInv(w)'
<1>0. /\ out' = out \ {d} /\ settled' = settled \cup {d.cid} /\ unacked' = unacked \ {d.cid}
      /\ published' = published /\ ready' = ready /\ hand' = hand
      /\ deliverHi' = deliverHi /\ acks' = acks
      /\ d \in [cid : Nat, mode : {"ack", "get"}] /\ d.cid \in Nat /\ d.cid \in Cids(out)
  BY DEF Settle, IInv, TypeOK, Cids
<1>1. TypeOK'
  BY <1>0, ZenonT(30) DEF IInv, TypeOK, Settle
<1>2. TrackingInRange'
  BY <1>0 DEF IInv, TrackingInRange
<1>3. Cids(out') \subseteq Cids(out)
  BY <1>0 DEF Cids
<1>4. ReadyInOrder'
  BY <1>0, <1>3, ZenonT(30) DEF IInv, ReadyInOrder, Guarded, Before
<1>5. HandFirst(w)'
  BY <1>0, <1>3, ZenonT(30) DEF IInv, HandFirst, ReadyInOrder, Guarded, Before
<1>6. ASSUME NEW e \in out, e # d
      PROVE  e.cid # d.cid
  <2>1. e \in [cid : Nat, mode : {"ack", "get"}] /\ e.mode = "ack" /\ d.mode = "ack"
    BY DEF IInv, TypeOK, OutTracked
  <2> QED
    BY <1>0, <1>6, <2>1
<1>7. OutTracked'
  BY <1>0, <1>6 DEF IInv, OutTracked
<1>8. AllHeld'
  <2>1. ReadySet' = ReadySet /\ InHand' = InHand /\ Unsettled' = Unsettled \ {d.cid}
    BY <1>0 DEF ReadySet, InHand, Unsettled
  <2>2. Cids(out) \ {d.cid} \subseteq Cids(out')
    BY <1>0 DEF Cids
  <2> QED
    BY <2>1, <2>2 DEF IInv, AllHeld
<1>9. AcksBelowUnsettled'
  BY <1>0 DEF IInv, AcksBelowUnsettled, Unsettled
<1> QED
  BY <1>1, <1>2, <1>4, <1>5, <1>7, <1>8, <1>9, ZenonT(30) DEF IInv

\* A requeue: the message joins the tail and stays tracked.
LEMMA RequeueInv ==
    ASSUME NEW w \in Worker, Alone(w), IInv(w), NEW d \in out, Requeue(d)
    PROVE  IInv(w)'
<1>0. /\ out' = out \ {d} /\ settled' = settled /\ unacked' = unacked
      /\ published' = published /\ hand' = hand /\ deliverHi' = deliverHi /\ acks' = acks
      /\ d \in [cid : Nat, mode : {"ack", "get"}] /\ d.cid \in Nat /\ d.cid \in Cids(out)
      /\ d.cid \in unacked /\ ready \in Seq(Nat) /\ ready' = Append(ready, d.cid)
      /\ d.cid \in 1..published
  <2>1. /\ out' = out \ {d} /\ settled' = settled /\ unacked' = unacked
        /\ published' = published /\ hand' = hand /\ deliverHi' = deliverHi /\ acks' = acks
        /\ ready' = Append(ready, d.cid)
    BY DEF Requeue, tracking
  <2>2. /\ d \in [cid : Nat, mode : {"ack", "get"}] /\ d.cid \in Nat /\ ready \in Seq(Nat)
        /\ published \in Nat /\ deliverHi \in Nat
    BY ZenonT(30) DEF IInv, TypeOK
  <2>3. d.cid \in Cids(out) /\ d.cid \in unacked
    BY DEF IInv, Cids, OutTracked
  <2>4. d.cid \in 1..published
    BY <2>2, <2>3 DEF IInv, TrackingInRange
  <2> QED
    BY <2>1, <2>2, <2>3, <2>4
<1>1. /\ ready' \in Seq(Nat) /\ DOMAIN ready' = DOMAIN ready \cup {Len(ready) + 1}
      /\ \A k \in DOMAIN ready : k \in 1..Len(ready) /\ ready'[k] = ready[k]
      /\ ready'[Len(ready) + 1] = d.cid
  BY <1>0, Appended, SMTT(30)
<1>2. TypeOK'
  BY <1>0, <1>1, SMTT(30) DEF IInv, TypeOK, Requeue
<1>3. TrackingInRange'
  BY <1>0 DEF IInv, TrackingInRange
<1>4. Cids(out') \subseteq Cids(out) /\ Cids(out) \ {d.cid} \subseteq Cids(out')
  BY <1>0 DEF Cids
<1>5. d.cid \notin Cids(out')
  <2>1. ASSUME NEW e \in out, e # d PROVE e.cid # d.cid
    <3>1. e \in [cid : Nat, mode : {"ack", "get"}] /\ e.mode = "ack" /\ d.mode = "ack"
      BY DEF IInv, TypeOK, OutTracked
    <3> QED
      BY <1>0, <2>1, <3>1
  <2> QED
    BY <1>0, <2>1 DEF Cids
<1>6. \A k \in DOMAIN ready : ready[k] # d.cid
  BY <1>0 DEF IInv, ReadyInOrder
<1>7. ReadyInOrder'
  <2>1. ASSUME NEW k \in DOMAIN ready'
        PROVE  ready'[k] \in 1..published' /\ Guarded(ready[k])' /\ ready'[k] \notin Cids(out')
    BY <1>0, <1>1, <1>4, <1>5, ZenonT(30) DEF IInv, ReadyInOrder, Guarded
  <2>2. ASSUME NEW j \in DOMAIN ready', NEW k \in DOMAIN ready', j < k
        PROVE  Before(ready[j], ready[k])'
    BY <1>0, <1>1, <1>6, <2>2, SMTT(30) DEF IInv, ReadyInOrder, Before
  <2> QED
    BY <2>1, <2>2 DEF ReadyInOrder
<1>8. HandFirst(w)'
  BY <1>0, <1>1, <1>4, ZenonT(30) DEF IInv, HandFirst, Guarded, Before
<1>9. OutTracked'
  BY <1>0 DEF IInv, OutTracked
<1>10. AllHeld'
  <2>1. ReadySet' = ReadySet \cup {d.cid}
    BY <1>1, ZenonT(30) DEF ReadySet
  <2>2. InHand' = InHand /\ Unsettled' = Unsettled
    BY <1>0 DEF InHand, Unsettled
  <2> QED
    BY <1>4, <2>1, <2>2 DEF IInv, AllHeld
<1>11. AcksBelowUnsettled'
  BY <1>0 DEF IInv, AcksBelowUnsettled, Unsettled
<1> QED
  BY <1>2, <1>3, <1>7, <1>8, <1>9, <1>10, <1>11 DEF IInv

\* The consume timer replicates the watermark.
LEMMA ConsumeTimerInv ==
    ASSUME NEW w \in Worker, Alone(w), IInv(w), ConsumeTimer
    PROVE  IInv(w)'
<1>0. /\ ReplicateWatermark(unacked, deliverHi) /\ unacked \in SUBSET Nat /\ deliverHi \in Nat
      /\ published' = published /\ ready' = ready /\ hand' = hand /\ out' = out
      /\ settled' = settled /\ unacked' = unacked /\ deliverHi' = deliverHi
  BY DEF ConsumeTimer, tracking, IInv, TypeOK
<1>1. /\ acks' \in Seq(Nat) /\ consumeReplicated' \in Nat /\ Len(acks') >= Len(acks)
      /\ \A k \in DOMAIN acks' :
            \/ k \in DOMAIN acks /\ acks'[k] = acks[k]
            \/ acks'[k] \in 0..deliverHi /\ IsWatermark(acks'[k], unacked, deliverHi)
  BY <1>0, ReplicateType, ZenonT(30) DEF IInv
<1>2. TypeOK'
  <2>1. here' = here /\ there' = there
    BY DEF ConsumeTimer
  <2>2. here' \in 0..Len(acks') /\ there' \in 0..Len(acks')
    BY <1>1, <2>1, LongerLog DEF IInv
  <2> QED
    BY <1>0, <1>1, <2>2, ZenonT(30) DEF IInv, TypeOK, ConsumeTimer
<1>3. TrackingInRange' /\ OutTracked'
  BY <1>0 DEF IInv, TrackingInRange, OutTracked
<1>4. ReadyInOrder' /\ HandFirst(w)'
  BY <1>0, SameQueue DEF IInv
<1>5. AllHeld'
  BY <1>0 DEF IInv, AllHeld, Unsettled, ReadySet, InHand
<1>6. AcksBelowUnsettled'
  <2>1. ASSUME NEW k \in DOMAIN acks'
        PROVE  acks'[k] <= deliverHi /\ \A c \in Unsettled : acks'[k] < c
    <3>1. CASE k \in DOMAIN acks /\ acks'[k] = acks[k]
      BY <3>1 DEF IInv, AcksBelowUnsettled
    <3>2. CASE acks'[k] \in 0..deliverHi /\ IsWatermark(acks'[k], unacked, deliverHi)
      <4>1. ASSUME NEW c \in Unsettled PROVE c \in Nat /\ (c \in unacked \/ c > deliverHi)
        <5>1. Guarded(c)
          BY UnsettledGuarded
        <5> QED
          BY <5>1 DEF Guarded, Unsettled, IInv, TypeOK
      <4>2. \A d \in unacked : d <= deliverHi
        BY DEF IInv, TrackingInRange
      <4> QED
        BY <1>0, <3>2, <4>1, <4>2, WatermarkBelow
    <3> QED
      BY <1>1, <3>1, <3>2, ZenonT(30)
  <2>2. Unsettled' = Unsettled
    BY <1>0 DEF Unsettled
  <2> QED
    BY <1>0, <2>1, <2>2, ZenonT(30) DEF AcksBelowUnsettled
<1> QED
  BY <1>2, <1>3, <1>4, <1>5, <1>6 DEF IInv

\* This node applies a watermark: what it drops from the head was settled.
LEMMA ApplyHereInv ==
    ASSUME NEW w \in Worker, Alone(w), IInv(w), ApplyHere
    PROVE  IInv(w)'
<1>0. /\ published' = published /\ hand' = hand /\ out' = out /\ settled' = settled
      /\ unacked' = unacked /\ deliverHi' = deliverHi /\ acks' = acks
      /\ ready \in Seq(Nat) /\ here + 1 \in DOMAIN acks
      /\ DOMAIN ready = 1..Len(ready) /\ Len(ready) \in Nat
  BY DEF ApplyHere, tracking, IInv, TypeOK
<1>1. PICK k \in 0..Len(ready) :
        /\ \A i \in 1..k : ready[i] <= acks[here + 1]
        /\ ready' = SubSeq(ready, k + 1, Len(ready))
  BY ZenonT(30) DEF ApplyHere
<1>2. /\ ready' \in Seq(Nat) /\ Len(ready') = Len(ready) - k
      /\ DOMAIN ready' = 1..(Len(ready) - k)
      /\ \A i \in 1..(Len(ready) - k) : ready'[i] = ready[k + i]
  <2>1. ready \in Seq(Nat)
    BY <1>0
  <2>2. ready' = SubSeq(ready, k + 1, Len(ready))
    BY <1>1
  <2>3. /\ ready' \in Seq(Nat) /\ Len(ready') = Len(ready) - k
        /\ \A i \in 1..(Len(ready) - k) : ready'[i] = ready[k + i]
    BY ONLY <2>1, <2>2, k \in 0..Len(ready), Dropped, ZenonT(30)
  <2>4. DOMAIN ready' = 1..Len(ready')
    BY <2>3, SMTT(30)
  <2> QED
    BY <2>3, <2>4
<1>3. ASSUME NEW i \in DOMAIN ready'
      PROVE  i \in Nat /\ k + i \in DOMAIN ready /\ ready'[i] = ready[k + i]
  <2>1. k \in Nat /\ i \in 1..(Len(ready) - k)
    BY <1>1, <1>2
  <2>2. k + i \in 1..Len(ready) /\ i \in Nat
    BY <1>0, <2>1, SMTT(30)
  <2> QED
    BY <1>0, <1>2, <2>1, <2>2
<1>4. TypeOK'
  <2>1. here' \in 0..Len(acks') /\ there' \in 0..Len(acks')
    BY <1>0, SMTT(20) DEF IInv, TypeOK, ApplyHere
  <2> QED
    BY <1>0, <1>2, <2>1, ZenonT(30) DEF IInv, TypeOK, ApplyHere
<1>5. TrackingInRange' /\ OutTracked' /\ AcksBelowUnsettled'
  BY <1>0, ZenonT(30) DEF IInv, TrackingInRange, OutTracked, AcksBelowUnsettled, Unsettled
<1>6. ReadyInOrder'
  <2>1. ASSUME NEW i \in DOMAIN ready'
        PROVE  ready'[i] \in 1..published' /\ Guarded(ready[i])' /\ ready'[i] \notin Cids(out')
    BY <1>0, <1>3, ZenonT(30) DEF IInv, ReadyInOrder, Guarded
  <2>2. ASSUME NEW i \in DOMAIN ready', NEW j \in DOMAIN ready', i < j
        PROVE  Before(ready[i], ready[j])'
    <3>1. /\ k + i \in DOMAIN ready /\ ready'[i] = ready[k + i]
          /\ k + j \in DOMAIN ready /\ ready'[j] = ready[k + j]
          /\ k + i < k + j
      <4>1. i \in Nat /\ j \in Nat
        BY <1>3
      <4>2. k \in Nat
        BY <1>0, SMTT(30)
      <4> QED
        BY <1>3, <2>2, <4>1, <4>2, SMTT(30)
    <3> QED
      BY <1>0, <3>1, ZenonT(30) DEF IInv, ReadyInOrder, Before
  <2> QED
    BY <2>1, <2>2, ZenonT(30) DEF ReadyInOrder
<1>7. HandFirst(w)'
  BY <1>0, <1>3 DEF IInv, HandFirst, Guarded, Before
<1>8. AllHeld'
  <2>1. ASSUME NEW c \in Unsettled, c \in ReadySet
        PROVE  c \in ReadySet'
    <3>1. PICK j \in DOMAIN ready : c = ready[j]
      BY <2>1 DEF ReadySet
    <3>2. acks[here + 1] < c
      BY <1>0 DEF IInv, AcksBelowUnsettled
    <3>3. c \in Nat /\ acks[here + 1] \in Nat /\ j \in 1..Len(ready)
      BY <1>0, <3>1, SMTT(30) DEF IInv, TypeOK
    <3>4. j \notin 1..k
      BY <1>1, <3>1, <3>2, <3>3
    <3>5. j - k \in DOMAIN ready' /\ k + (j - k) = j
      BY <1>1, <1>2, <3>3, <3>4, SMTT(30)
    <3> QED
      BY <1>3, <3>1, <3>5 DEF ReadySet
  <2>2. InHand' = InHand /\ Unsettled' = Unsettled
    BY <1>0 DEF InHand, Unsettled
  <2> QED
    BY <1>0, <2>1, <2>2 DEF IInv, AllHeld
<1> QED
  BY <1>4, <1>5, <1>6, <1>7, <1>8, ZenonT(30) DEF IInv

\* A step that changes nothing the invariant speaks of, or only what the
\* replica has applied, preserves it.
LEMMA FrameInv ==
    ASSUME NEW w \in Worker, Alone(w), IInv(w), ApplyThere \/ UNCHANGED vars
    PROVE  IInv(w)'
<1>0. /\ published' = published /\ hand' = hand /\ out' = out /\ settled' = settled
      /\ unacked' = unacked /\ deliverHi' = deliverHi /\ acks' = acks /\ ready' = ready
      /\ consumeReplicated' = consumeReplicated /\ here' = here
      /\ requeues' = requeues /\ failures' = failures /\ clients' = clients
  BY DEF ApplyThere, tracking, vars
<1>1. TypeOK'
  <2>1. there' \in 0..Len(acks')
    BY <1>0 DEF IInv, TypeOK, ApplyThere, vars
  <2> QED
    BY <1>0, <2>1, ZenonT(30) DEF IInv, TypeOK
<1>2. TrackingInRange' /\ OutTracked' /\ AcksBelowUnsettled'
  BY <1>0 DEF IInv, TrackingInRange, OutTracked, AcksBelowUnsettled, Unsettled
<1>3. ReadyInOrder' /\ HandFirst(w)'
  BY <1>0, SameQueue, ZenonT(30) DEF IInv
<1>4. AllHeld'
  BY <1>0, ZenonT(30) DEF IInv, AllHeld, Unsettled, ReadySet, InHand
<1> QED
  BY <1>1, <1>2, <1>3, <1>4 DEF IInv

\* A step that takes a message goes through the one worker; one that records or
\* returns a delivery is by the worker that has one in hand.
LEMMA OnlyWorker ==
    ASSUME NEW w \in Worker, Alone(w), IInv(w), NEW v \in Worker
    PROVE  /\ \A mode \in AllModes :
                <<v, mode>> \in clients => v = w /\ mode \in {"ack", "noack", "pull"}
           /\ hand[v] # NoDelivery => v = w
BY DEF Alone, IInv, HandFirst

\* Every step of the queue, its consumers and the cluster that leaves the
\* deliveries recorded preserves the invariant.
LEMMA StepInv ==
    ASSUME NEW w \in Worker, Alone(w), IInv(w), [Next]_vars, failures' = 0
    PROVE  IInv(w)'
<1>1. CASE Publish
  BY <1>1, PublishInv
<1>2. ASSUME NEW v \in Worker, NEW mode \in AllModes, <<v, mode>> \in clients, Take(v, mode)
      PROVE  IInv(w)'
  BY <1>2, OnlyWorker, TakeInv
<1>3. ASSUME NEW v \in Worker, DeliverAck(v)
      PROVE  IInv(w)'
  <2>1. v = w
    BY <1>3, OnlyWorker, ZenonT(30) DEF DeliverAck
  <2> QED
    BY <1>3, <2>1, DeliverAckInv, ZenonT(30)
<1>4. ASSUME NEW v \in Worker, DeliverNoAck(v)
      PROVE  IInv(w)'
  <2>1. v = w
    BY <1>4, OnlyWorker, ZenonT(30) DEF DeliverNoAck
  <2> QED
    BY <1>4, <2>1, DeliverNoAckInv
<1>5. ASSUME NEW v \in Worker, DeliverPull(v)
      PROVE  IInv(w)'
  <2>1. v = w
    BY <1>5, OnlyWorker, ZenonT(30) DEF DeliverPull
  <2> QED
    BY <1>5, <2>1, DeliverPullInv
<1>6. ASSUME NEW v \in Worker, DeliverGet(v)
      PROVE  FALSE
  BY <1>6, OnlyWorker DEF DeliverGet, IInv, HandFirst
<1>7. ASSUME NEW v \in Worker, DeliverFails(v)
      PROVE  FALSE
  <2>1. failures' = failures + 1
    BY <1>7, ZenonT(30) DEF DeliverFails
  <2> QED
    BY <2>1, SMTT(30) DEF Alone
<1>8. ASSUME NEW d \in out, Settle(d) \/ Requeue(d) PROVE IInv(w)'
  BY <1>8, SettleInv, RequeueInv
<1>9. CASE ConsumeTimer
  BY <1>9, ConsumeTimerInv
<1>10. CASE ApplyHere
  BY <1>10, ApplyHereInv
<1>11. CASE ApplyThere \/ UNCHANGED vars
  BY <1>11, FrameInv
<1> QED
  BY <1>1, <1>2, <1>3, <1>4, <1>5, <1>6, <1>7, <1>8, <1>9, <1>10, <1>11, ZenonT(30) DEF Next

\* The invariant holds for the one worker for as long as deliveries are recorded.
RecordedInv == failures \in Nat /\ \A w \in Worker : Alone(w) => IInv(w)

\* No step changes who the clients are or takes back a failure.
LEMMA Monotone ==
    ASSUME failures \in Nat, [Next]_vars
    PROVE  clients' = clients /\ failures' \in Nat /\ (failures' = 0 => failures = 0)
<1>1. CASE UNCHANGED vars
  BY <1>1, ZenonT(30) DEF vars
<1>2. CASE Publish \/ ConsumeTimer \/ ApplyHere \/ ApplyThere
  BY <1>2 DEF Publish, ConsumeTimer, ApplyHere, ApplyThere
<1>3. ASSUME NEW w \in Worker,
             \/ \E mode \in AllModes : Take(w, mode)
             \/ DeliverAck(w) \/ DeliverNoAck(w) \/ DeliverPull(w) \/ DeliverGet(w)
             \/ DeliverFails(w)
      PROVE  clients' = clients /\ failures' \in Nat /\ (failures' = 0 => failures = 0)
  <2>1. ASSUME NEW mode \in AllModes, Take(w, mode)
        PROVE  clients' = clients /\ failures' = failures
    BY <2>1, ZenonT(30) DEF Take
  <2>2. CASE DeliverAck(w) \/ DeliverNoAck(w)
    BY <2>2, ZenonT(30) DEF DeliverAck, DeliverNoAck
  <2>3. CASE DeliverPull(w) \/ DeliverGet(w)
    BY <2>3, ZenonT(30) DEF DeliverPull, DeliverGet
  <2>4. CASE DeliverFails(w)
    <3>1. clients' = clients /\ failures' = failures + 1
      BY <2>4, ZenonT(30) DEF DeliverFails
    <3> QED
      BY <3>1
  <2> QED
    BY <1>3, <2>1, <2>2, <2>3, <2>4, ZenonT(30)
<1>4. ASSUME NEW d \in out, Settle(d) \/ Requeue(d)
      PROVE  clients' = clients /\ failures' \in Nat /\ (failures' = 0 => failures = 0)
  BY <1>4 DEF Settle, Requeue
<1> QED
  BY <1>1, <1>2, <1>3, <1>4, ZenonT(30) DEF Next

\* The invariant is inductive.
LEMMA Inductive ==
    Spec => []RecordedInv
<1>1. Init => RecordedInv
  BY InitInv DEF RecordedInv, Init
<1>2. RecordedInv /\ [Next]_vars => RecordedInv'
  <2> SUFFICES ASSUME RecordedInv, [Next]_vars
               PROVE  RecordedInv'
    OBVIOUS
  <2>1. clients' = clients /\ failures' \in Nat /\ (failures' = 0 => failures = 0)
    BY Monotone DEF RecordedInv
  <2>2. ASSUME NEW w \in Worker, Alone(w)'
        PROVE  IInv(w)'
    <3>1. Alone(w) /\ failures' = 0
      BY <2>1, <2>2 DEF Alone
    <3> QED
      BY <3>1, StepInv DEF RecordedInv
  <2> QED
    BY <2>1, <2>2 DEF RecordedInv
<1> QED
  BY <1>1, <1>2, PTL DEF Spec

\* As long as one worker takes the messages, none by a manual-ack Basic.Get, and
\* no delivery has failed, a replica keeps every message no client has settled,
\* whatever is published, delivered, requeued and acknowledged in whatever order
\* (queue_consume_watermark(), apply_op(CL_OP_ACK)).
THEOREM WatermarkSafe ==
    Spec => []ReplicaKeepsUnsettled
<1>1. RecordedInv => ReplicaKeepsUnsettled
  <2> SUFFICES ASSUME RecordedInv, Recorded, NEW c \in Unsettled, NEW k \in 1..there
               PROVE  acks[k] < c
    BY DEF ReplicaKeepsUnsettled
  <2>1. PICK w \in Worker : IInv(w)
    BY DEF RecordedInv, Recorded, Alone
  <2>2. k \in DOMAIN acks
    BY <2>1 DEF IInv, TypeOK
  <2> QED
    BY <2>1, <2>2 DEF IInv, AcksBelowUnsettled
<1> QED
  BY <1>1, Inductive, PTL

\* In the same circumstances no message is lost on the consuming node when it
\* applies its own watermarks (queue_drain_consumed()).
THEOREM ConsumerLosesNothing ==
    Spec => []NothingLost
<1>1. RecordedInv => NothingLost
  <2> SUFFICES ASSUME RecordedInv, Recorded
               PROVE  Unsettled \subseteq Held
    BY DEF NothingLost
  <2>1. PICK w \in Worker : IInv(w)
    BY DEF RecordedInv, Recorded, Alone
  <2> QED
    BY <2>1 DEF IInv, AllHeld, Held
<1> QED
  BY <1>1, Inductive, PTL
=============================================================================
