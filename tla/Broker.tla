------------------------------- MODULE Broker -------------------------------
(***************************************************************************)
(* The registry of queues and exchanges and the routing of messages        *)
(* (src/src/broker.c, src/src/exchange.c): declarations, bindings, topic   *)
(* patterns, deletion, the two phases of a route and dead-lettering, by    *)
(* several threads.                                                        *)
(*                                                                         *)
(* Everything under the registry lock is one step.  A route collects       *)
(* referenced queues under the lock and enqueues without it, one queue per *)
(* step; a message evicted on the way is routed in turn, inside the call   *)
(* that evicted it.  Queues are limited by length only (module Queue has   *)
(* the rest), names stand for names in one virtual host, allocations       *)
(* succeed, and no consumer is registered (module Dispatch has those).     *)
(***************************************************************************)
EXTENDS Integers, SequencesExt

CONSTANTS
    Thread, QName, ExName,
    NoEx,        \* a queue without dead-letter exchange; the default exchange
    MaxHops,     \* BROKER_DL_MAX_HOPS
    Scenarios    \* the circumstances to explore, see Scenario

Events == {"declare", "delete", "bind", "publish", "take"}

\* The number of messages a queue may hold (0: any), what a full one does, and
\* its dead-letter exchange and routing key (<<>>: the message's own).
Policy == [max : Nat, dropHead : BOOLEAN, dlx : ExName \cup {NoEx}, dlkey : Seq(STRING)]

\* The type of each exchange and the policy of each queue, the bindings of the
\* queues that exist at first, the keys used later, and how often things happen.
Scenario(s) ==
    /\ s.type \in [ExName -> {"direct", "fanout", "topic"}]
    /\ s.policy \in [QName -> Policy]
    /\ s.queues \in Seq(QName)
    /\ DOMAIN s.bound = ExName
    /\ s.may \in [Events -> Nat]

ASSUME BrokerAssumption ==
    /\ NoEx \notin ExName /\ MaxHops \in Nat
    /\ \A s \in Scenarios : Scenario(s)

VARIABLES
    setup,      \* fixed: one of Scenarios
    happened,   \* how often each event has happened
    queue,      \* the queue objects, in order of creation
    registry,   \* b->queues: the object of each name, or 0
    exchanges,  \* b->exchanges: those declared
    bindings,   \* the bindings of each exchange, <<key, object>>
    stack,      \* the calls of broker_route() in progress, per thread
    accepted,   \* messages that were reported as routed
    consumed    \* messages that a consumer took

vars == <<setup, happened, queue, registry, exchanges, bindings, stack, accepted, consumed>>

Spend(e) == happened[e] < setup.may[e] /\ happened' = [happened EXCEPT ![e] = @ + 1]

\* The places in bs, bindings by exchange, that lead to queue k.
BoundAt(bs, k) ==
    UNION {{<<ex, i>> : i \in {i \in DOMAIN bs[ex] : bs[ex][i][2] = k}} : ex \in ExName}

NewQueue(n) == [name |-> n, refs |-> 1, slots |-> <<>>]

-----------------------------------------------------------------------------
(* References.                                                             *)

Ref(qs, K) ==
    [k \in DOMAIN qs |-> IF k \in K THEN [qs[k] EXCEPT !.refs = @ + 1] ELSE qs[k]]

\* queue_unref(), n times; the last one drops what is still buffered.
Unref(qs, k, n) ==
    [qs EXCEPT ![k].refs = @ - n, ![k].slots = IF qs[k].refs = n THEN <<>> ELSE @]

-----------------------------------------------------------------------------
(* Which queues a message goes to.                                         *)

\* Mutant of MatchTokens: '#' takes at least one word.
MatchTokensOneOrMore(pat, key) ==
    LET match[pi \in 1..(Len(pat) + 1), ki \in 1..(Len(key) + 1)] ==
          CASE pi > Len(pat) -> ki > Len(key)
            [] pi <= Len(pat) /\ pat[pi] = "#" ->
                 \E k \in (ki + 1)..(Len(key) + 1) : match[pi + 1, k]
            [] OTHER -> /\ ki <= Len(key) /\ pat[pi] \in {"*", key[ki]}
                        /\ match[pi + 1, ki + 1]
    IN  match[1, 1]

\* match_tokens(): from word pi of the pattern and word ki of the key on.
MatchTokens(pat, key) ==
    LET match[pi \in 1..(Len(pat) + 1), ki \in 1..(Len(key) + 1)] ==
          CASE pi > Len(pat) -> ki > Len(key)
            [] pi <= Len(pat) /\ pat[pi] = "#" ->
                 \E k \in ki..(Len(key) + 1) : match[pi + 1, k]
            [] OTHER -> /\ ki <= Len(key) /\ pat[pi] \in {"*", key[ki]}
                        /\ match[pi + 1, ki + 1]
    IN  match[1, 1]

BindingMatches(ex, b, key) ==
    CASE setup.type[ex] = "fanout" -> TRUE
      [] setup.type[ex] = "direct" -> b[1] = key
      [] setup.type[ex] = "topic" -> MatchTokens(b[1], key)

\* exchange_route(): the queues of the matching bindings, each of them once.
ExchangeRoute(ex, key) ==
    LET Collect(targets, b) ==
            IF BindingMatches(ex, b, key) /\ b[2] \notin ToSet(targets)
            THEN Append(targets, b[2]) ELSE targets
    IN  FoldLeft(Collect, <<>>, bindings[ex])

\* broker_route(), phase 1.
Targets(ex, key) ==
    IF ex = NoEx
    THEN IF Len(key) = 1 /\ key[1] \in QName /\ registry[key[1]] # 0
         THEN <<registry[key[1]]>> ELSE <<>>
    ELSE IF ex \in exchanges THEN ExchangeRoute(ex, key) ELSE <<>>

\* A call of broker_route() for message m begins on top of the calls in rest.
Enter(t, ex, m, rest) ==
    LET targets == Targets(ex, m.key)
    IN  /\ stack' = [stack EXCEPT ![t] =
              <<[msg |-> m, targets |-> targets, in |-> FALSE, dead |-> <<>>,
                 routed |-> 0]>> \o rest]
        /\ queue' = Ref(queue, ToSet(targets))

-----------------------------------------------------------------------------
Init ==
    /\ setup \in Scenarios
    /\ happened = [e \in Events |-> 0]
    /\ exchanges = {ex \in ExName : setup.bound[ex] # <<>>}
    /\ registry = [n \in QName |-> IF \E k \in DOMAIN setup.queues : setup.queues[k] = n
                                  THEN CHOOSE k \in DOMAIN setup.queues : setup.queues[k] = n
                                  ELSE 0]
    /\ bindings = [ex \in ExName |->
            [i \in DOMAIN setup.bound[ex] |->
                <<setup.bound[ex][i][1], registry[setup.bound[ex][i][2]]>>]]
    /\ queue = [k \in DOMAIN setup.queues |->
            [NewQueue(setup.queues[k]) EXCEPT !.refs = 1 + Cardinality(BoundAt(bindings, k))]]
    /\ stack = [t \in Thread |-> <<>>]
    /\ accepted = {} /\ consumed = {}

-----------------------------------------------------------------------------
(* The registry, under its write lock.                                     *)

\* broker_declare_queue() of a name that does not exist.
DeclareQueue(n) ==
    /\ registry[n] = 0
    /\ Spend("declare")
    /\ queue' = Append(queue, NewQueue(n))
    /\ registry' = [registry EXCEPT ![n] = Len(queue) + 1]
    /\ UNCHANGED <<setup, exchanges, bindings, stack, accepted, consumed>>

\* broker_declare_exchange() of a name that does not exist.
DeclareExchange(ex) ==
    /\ ex \notin exchanges
    /\ Spend("declare")
    /\ exchanges' = exchanges \cup {ex}
    /\ UNCHANGED <<setup, queue, registry, bindings, stack, accepted, consumed>>

\* Mutant of Bind: a repeated binding takes another reference.
BindCountingTwice(n, ex, key) ==
    /\ ex \in exchanges /\ registry[n] # 0
    /\ Spend("bind")
    /\ queue' = Ref(queue, {registry[n]})
    /\ bindings' = IF <<key, registry[n]>> \in ToSet(bindings[ex]) THEN bindings
                   ELSE [bindings EXCEPT ![ex] = Append(@, <<key, registry[n]>>)]
    /\ UNCHANGED <<setup, registry, exchanges, stack, accepted, consumed>>

\* broker_bind(), exchange_bind(): idempotent.
Bind(n, ex, key) ==
    /\ ex \in exchanges /\ registry[n] # 0
    /\ Spend("bind")
    /\ IF <<key, registry[n]>> \in ToSet(bindings[ex])
       THEN UNCHANGED <<queue, bindings>>
       ELSE /\ bindings' = [bindings EXCEPT ![ex] = Append(@, <<key, registry[n]>>)]
            /\ queue' = Ref(queue, {registry[n]})
    /\ UNCHANGED <<setup, registry, exchanges, stack, accepted, consumed>>

\* exchange_unbind_queue(): what is left of the bindings, in whatever order.
Unbound(bs, k) ==
    LET Other(b) == b[2] # k IN SelectSeq(bs, Other)

\* broker_delete_queue(): drop its bindings, then the registry's reference.
DeleteQueue(n, ifEmpty) ==
    LET k == registry[n]
    IN  /\ k # 0
        /\ ifEmpty => queue[k].slots = <<>>
        /\ Spend("delete")
        /\ bindings' = [ex \in ExName |-> Unbound(bindings[ex], k)]
        /\ registry' = [registry EXCEPT ![n] = 0]
        /\ queue' = Unref(queue, k, 1 + Cardinality(BoundAt(bindings, k))
                                       - Cardinality(BoundAt(bindings', k)))
        /\ UNCHANGED <<setup, exchanges, stack, accepted, consumed>>

-----------------------------------------------------------------------------
(* Routes.                                                                 *)

\* broker_route() called for a client.
Publish(t, ex, key) ==
    /\ stack[t] = <<>>
    /\ Spend("publish")
    /\ Enter(t, ex, [id |-> happened'["publish"], key |-> key, hops |-> 0], <<>>)
    /\ UNCHANGED <<setup, registry, exchanges, bindings, accepted, consumed>>

Top(t) == Head(stack[t])
Replace(t, f) == [stack EXCEPT ![t] = <<f>> \o Tail(@)]
PolicyOf(k) == setup.policy[queue[k].name]

Overflows(k) == PolicyOf(k).max # 0 /\ Len(queue[k].slots) >= PolicyOf(k).max

\* Mutant of Evicted: a full queue drops the oldest message on the floor.
EvictedDropped(k, n) == <<>>

\* The evicted messages that queue_enqueue() keeps for dead-lettering.
Evicted(k, n) == IF PolicyOf(k).dlx # NoEx THEN SubSeq(queue[k].slots, 1, n) ELSE <<>>

\* queue_enqueue() of the top call's message, under the lock of its next target.
Enqueue(t) ==
    /\ stack[t] # <<>> /\ Top(t).targets # <<>> /\ ~Top(t).in
    /\ LET f == Top(t)
           k == Head(f.targets)
           n == IF Overflows(k) THEN Len(queue[k].slots) + 1 - PolicyOf(k).max ELSE 0
       IN  IF Overflows(k) /\ ~PolicyOf(k).dropHead
           THEN /\ queue' = Unref(queue, k, 1)
                /\ stack' = Replace(t, [f EXCEPT !.targets = Tail(@)])
           ELSE /\ queue' = [queue EXCEPT ![k].slots =
                                Append(SubSeq(@, n + 1, Len(@)), f.msg)]
                /\ stack' = Replace(t, [f EXCEPT !.in = TRUE, !.dead = Evicted(k, n)])
    /\ UNCHANGED <<setup, happened, registry, exchanges, bindings, accepted, consumed>>

HopsExhausted(m) == m.hops >= MaxHops

\* The copy of m that queue k dead-letters.
Hopped(k, m) ==
    [m EXCEPT !.hops = @ + 1, !.key = IF PolicyOf(k).dlkey = <<>> THEN @ ELSE PolicyOf(k).dlkey]

\* Mutant of AfterDrop: the message that is given up stays in the list.
AfterDropStuck(f) == f

\* The call whose next evicted message is given up.
AfterDrop(f) == [f EXCEPT !.dead = Tail(@)]

\* broker_dead_letter_cb() for the next message that the top call evicted.
DeadLetter(t) ==
    /\ stack[t] # <<>> /\ Top(t).in /\ Top(t).dead # <<>>
    /\ LET f == [Top(t) EXCEPT !.dead = Tail(@)]
           m == Head(Top(t).dead)
           k == Head(f.targets)
           rest == <<f>> \o Tail(stack[t])
       IN  IF HopsExhausted(m)
           THEN stack' = Replace(t, AfterDrop(Top(t))) /\ UNCHANGED queue
           ELSE Enter(t, PolicyOf(k).dlx, Hopped(k, m), rest)
    /\ UNCHANGED <<setup, happened, registry, exchanges, bindings, accepted, consumed>>

\* The top call is done with its target: wake the waiters, drop the reference.
Finish(t) ==
    /\ stack[t] # <<>> /\ Top(t).in /\ Top(t).dead = <<>>
    /\ queue' = Unref(queue, Head(Top(t).targets), 1)
    /\ stack' = Replace(t, [Top(t) EXCEPT !.targets = Tail(@), !.in = FALSE, !.routed = @ + 1])
    /\ UNCHANGED <<setup, happened, registry, exchanges, bindings, accepted, consumed>>

\* The top call returns; a client learns whether its message was routed.
Return(t) ==
    /\ stack[t] # <<>> /\ Top(t).targets = <<>>
    /\ stack' = [stack EXCEPT ![t] = Tail(@)]
    /\ accepted' = IF Len(stack[t]) = 1 /\ Top(t).routed > 0
                   THEN accepted \cup {Top(t).msg.id} ELSE accepted
    /\ UNCHANGED <<setup, happened, queue, registry, exchanges, bindings, consumed>>

\* A consumer settles the message at the head of a queue.
Take(k) ==
    /\ queue[k].slots # <<>>
    /\ Spend("take")
    /\ queue' = [queue EXCEPT ![k].slots = Tail(@)]
    /\ consumed' = consumed \cup {Head(queue[k].slots).id}
    /\ UNCHANGED <<setup, registry, exchanges, bindings, stack, accepted>>

\* A consumer, holding a reference, rejects it: queue_dead_letter().
Reject(t, k) ==
    /\ stack[t] = <<>> /\ queue[k].slots # <<>> /\ PolicyOf(k).dlx # NoEx
    /\ Spend("take")
    /\ LET m == Head(queue[k].slots)
       IN  /\ queue' = [queue EXCEPT ![k].slots = Tail(@), ![k].refs = @ + 1]
           /\ stack' = [stack EXCEPT ![t] =
                <<[msg |-> m, targets |-> <<k>>, in |-> TRUE, dead |-> <<m>>, routed |-> 0]>>]
    /\ UNCHANGED <<setup, registry, exchanges, bindings, accepted, consumed>>

-----------------------------------------------------------------------------
Continue(t) == Enqueue(t) \/ DeadLetter(t) \/ Finish(t) \/ Return(t)

Next ==
    \/ \E n \in QName : DeclareQueue(n) \/ \E e \in BOOLEAN : DeleteQueue(n, e)
    \/ \E ex \in ExName : DeclareExchange(ex)
    \/ \E n \in QName, ex \in ExName, key \in setup.patterns : Bind(n, ex, key)
    \/ \E t \in Thread, ex \in ExName \cup {NoEx}, key \in setup.keys : Publish(t, ex, key)
    \/ \E t \in Thread : Continue(t)
    \/ \E k \in DOMAIN queue : Take(k) \/ \E t \in Thread : Reject(t, k)

Spec == Init /\ [][Next]_vars

\* A thread in broker_route() goes on.
FairSpec == Spec /\ \A t \in Thread : WF_vars(Continue(t))

-----------------------------------------------------------------------------
(* Properties.                                                             *)

Message ==
    [id : Nat, key : setup.keys \cup {setup.policy[n].dlkey : n \in QName}, hops : 0..MaxHops]

\* Every variable is in its range: messages carry a hop count within its limit.
TypeOK ==
    /\ setup \in Scenarios /\ happened \in [Events -> Nat]
    /\ queue \in Seq([name : QName, refs : Nat, slots : Seq(Message)])
    /\ registry \in [QName -> {0} \cup DOMAIN queue]
    /\ exchanges \subseteq ExName
    /\ \A ex \in ExName :
        bindings[ex] \in Seq((setup.patterns \cup setup.keys) \X DOMAIN queue)
    /\ \A t \in Thread : stack[t] \in
        Seq([msg : Message, targets : Seq(DOMAIN queue), in : BOOLEAN,
             dead : Seq(Message), routed : Nat])
    /\ accepted \cup consumed \subseteq 1..happened["publish"]

\* The number of places that hold a reference to queue k.
Holders(k) ==
    Cardinality({n \in QName : registry[n] = k})
    + Cardinality(BoundAt(bindings, k))
    + Cardinality(UNION {UNION {{<<t, d, i>> :
                    i \in {i \in DOMAIN stack[t][d].targets : stack[t][d].targets[i] = k}} :
                d \in DOMAIN stack[t]} : t \in Thread})

\* The reference count of a queue is the number of its holders, through
\* deletions, repeated bindings and routes in flight: it is not freed under a
\* route and does not stay for ever (queue_ref(), queue_unref()).
RefsCountHolders == \A k \in DOMAIN queue : queue[k].refs = Holders(k)

\* What a topic pattern means: the words of the key are given to the words of
\* the pattern in order, exactly one to each that is not '#'.
Covers(pat, key) ==
    \E at \in [DOMAIN key -> DOMAIN pat] :
        /\ \A i, j \in DOMAIN key : i < j => at[i] <= at[j]
        /\ \A p \in DOMAIN pat : pat[p] # "#" =>
            \E i \in DOMAIN key :
                /\ \A j \in DOMAIN key : at[j] = p <=> j = i
                /\ pat[p] \in {"*", key[i]}

\* The bindings through which exchange ex sends key to queue k.
Leads(ex, key, k) ==
    {b \in ToSet(bindings[ex]) :
        /\ b[2] = k
        /\ CASE setup.type[ex] = "fanout" -> TRUE
             [] setup.type[ex] = "direct" -> b[1] = key
             [] setup.type[ex] = "topic" -> Covers(b[1], key)}

\* A message for an exchange is routed to the queues whose bindings cover its
\* key, once to each however many of them do (exchange_route(), match_tokens()).
RoutedByMeaning ==
    [][\A t \in Thread, ex \in ExName, key \in setup.keys :
        (Publish(t, ex, key) /\ ex \in exchanges) =>
            LET targets == stack'[t][1].targets
            IN  /\ ToSet(targets) = {k \in DOMAIN queue : Leads(ex, key, k) # {}}
                /\ Len(targets) = Cardinality(ToSet(targets))]_vars

Carried(f) ==
    {f.dead[i].id : i \in DOMAIN f.dead}
    \cup (IF f.in \/ f.targets = <<>> THEN {} ELSE {f.msg.id})

Held ==
    UNION {{queue[k].slots[i].id : i \in DOMAIN queue[k].slots} : k \in DOMAIN queue}
    \cup UNION {UNION {Carried(stack[t][d]) : d \in DOMAIN stack[t]} : t \in Thread}

\* A full queue never refuses or drops: what it evicts goes, through an exchange
\* bound to it, to a queue that takes everything; and no queue was deleted.
Sheltered ==
    /\ happened["delete"] = 0
    /\ \A n \in QName : setup.policy[n].max # 0 =>
        /\ setup.policy[n].dropHead /\ setup.policy[n].dlx # NoEx
        /\ setup.type[setup.policy[n].dlx] = "fanout"
        /\ \E i \in DOMAIN setup.bound[setup.policy[n].dlx] :
            setup.policy[setup.bound[setup.policy[n].dlx][i][2]].max = 0

\* In such a broker a message that was reported as routed stays until a consumer
\* takes it, whichever way eviction and rejection send it (queue_enqueue(),
\* broker_dead_letter_cb()).
KeptUntilConsumed == Sheltered => accepted \subseteq Held \cup consumed

\* Every route returns, even if dead-letter exchanges lead in circles
\* (BROKER_DL_MAX_HOPS).
RoutesReturn == \A t \in Thread : (stack[t] # <<>>) ~> (stack[t] = <<>>)

=============================================================================
