------------------------------ MODULE Session ------------------------------
(***************************************************************************)
(* One AMQP connection (src/src/protocol.c): login with the password       *)
(* verified off the loop, channels, content assembly, publisher confirms,  *)
(* requests whose answer waits for the cluster, channel exceptions and     *)
(* teardown, against a client that keeps to the protocol.                  *)
(*                                                                         *)
(* The client sends a request and waits for its answer on that channel,    *)
(* but pipelines publishes, as all clients do.  What a request does to the *)
(* broker's tables is module Broker's subject; here it is refused, done at *)
(* once, or proposed to the cluster and answered after the commit.         *)
(* A read takes some of the frames that have arrived, and dispatches them  *)
(* to the last one before anything else happens on the loop; the cluster   *)
(* commits a proposal at any time or never (module Forwarding is about     *)
(* how).  While the cluster is congested or memory is short, a publish     *)
(* stops the reading of its connection.                                    *)
(***************************************************************************)
EXTENDS Integers, Sequences, FiniteSets

CONSTANTS
    Chan,        \* channel numbers
    Scenarios,   \* the circumstances to explore, see Scenario
    MaxEvents    \* bound: events of a kind

Events == {"open", "select", "request", "publish", "close", "hangup",
           "refuse", "full", "unroutable", "deny", "pressure"}

\* Why publishers are slowed down: cluster_should_throttle(), and the memory
\* alarm.
Pressures == {"cluster", "memory"}

Requests == {"exchange.declare", "queue.declare", "queue.bind", "queue.delete"}
Ok == [m \in Requests |-> CASE m = "exchange.declare" -> "exchange.declare-ok"
                            [] m = "queue.declare" -> "queue.declare-ok"
                            [] m = "queue.bind" -> "queue.bind-ok"
                            [] m = "queue.delete" -> "queue.delete-ok"]
Oks == {"select-ok"} \cup {Ok[m] : m \in Requests}

\* Whether the client is logged in already, whether the broker is in a cluster
\* (publishes are persistent then), the requests it makes, the body frames of a
\* message, whether messages are mandatory, what may slow publishers down, and how
\* often things happen.
Scenario == [loggedIn : BOOLEAN, cluster : BOOLEAN, requests : SUBSET Requests, frames : Nat,
             mandatory : BOOLEAN, pressures : SUBSET Pressures, may : [Events -> 0..MaxEvents]]

ASSUME SessionAssumption ==
    /\ IsFiniteSet(Chan) /\ 0 \notin Chan
    /\ MaxEvents \in Nat /\ Scenarios \subseteq Scenario

VARIABLES
    setup,        \* fixed: one of Scenarios
    happened,     \* how often each event has happened
    toServer, toClient,  \* frames on their way
    fetched,      \* how many of toServer are read and still to be dispatched
    pressure,     \* what slows publishers down at present
    paused,       \* read_paused
    blocked,      \* conn_blocked: the client was told so
    \* the broker's side: beaver_proto
    header,       \* header_received
    auth,         \* pending_auth: none, running, detached, done
    connOpen,     \* connection_open
    closing,      \* no, yes (handles closing), freed
    fatal,        \* proto_fatal() was called
    chan,         \* channels: open, confirm_mode, confirm_seq
    pub,          \* the publish being assembled
    ops,          \* pending_ops
    outcome,      \* what became of each proposal and each local publish
    \* the client's side
    login,        \* no, asked, yes, refused
    ch,           \* closed, opening, open, closing
    waiting,      \* the answer it waits for on a channel
    mode,         \* it has put the channel in confirm mode
    sent,         \* the publishes of a channel in confirm mode, by tag
    unconfirmed   \* the tags without an answer

authVars == <<header, auth, connOpen>>
brokerVars == <<chan, pub, ops, outcome>>
flowVars == <<pressure, paused, blocked>>
clientVars == <<login, ch, waiting, mode, sent, unconfirmed>>
vars == <<setup, happened, toServer, toClient, fetched, authVars, closing, fatal,
          brokerVars, flowVars, clientVars>>

ClosedChan == [open |-> FALSE, confirm |-> FALSE, seq |-> 0]
FreshChan == [open |-> TRUE, confirm |-> FALSE, seq |-> 0]
NoPub == [active |-> FALSE, have |-> FALSE, c |-> 0, id |-> 0, size |-> 0, got |-> 0]

\* A frame: method or frame type m, channel c, and a number: what is published
\* or requested, a delivery tag, or a body size.
Frame(m, c, n) == [m |-> m, c |-> c, n |-> n]

Spend(e) ==
    /\ happened[e] < setup.may[e]
    /\ happened' = [happened EXCEPT ![e] = @ + 1]

\* The next publish or request.
NextId == happened["publish"] + happened["request"] + 1

Ids == 1..(2 * MaxEvents)

Init ==
    /\ setup \in Scenarios
    /\ happened = [e \in Events |-> 0]
    /\ toServer = IF setup.loggedIn THEN <<>> ELSE <<Frame("header", 0, 0)>>
    /\ toClient = <<>> /\ fetched = 0
    /\ pressure = {} /\ paused = FALSE /\ blocked = FALSE
    /\ header = setup.loggedIn /\ connOpen = setup.loggedIn
    /\ auth = IF setup.loggedIn THEN "done" ELSE "none"
    /\ closing = "no" /\ fatal = FALSE
    /\ chan = [c \in Chan |-> ClosedChan] /\ pub = NoPub /\ ops = {}
    /\ outcome = [i \in Ids |-> "none"]
    /\ login = IF setup.loggedIn THEN "yes" ELSE "asked"
    /\ ch = [c \in Chan |-> "closed"] /\ waiting = [c \in Chan |-> "nothing"]
    /\ mode = [c \in Chan |-> FALSE] /\ sent = [c \in Chan |-> <<>>]
    /\ unconfirmed = [c \in Chan |-> {}]

-----------------------------------------------------------------------------
(* The client's requests.                                                  *)

ClientSends(frames) ==
    /\ toServer' = toServer \o frames
    /\ UNCHANGED <<setup, toClient, fetched, authVars, closing, fatal, brokerVars, flowVars,
                   login>>

Free(c) == login = "yes" /\ ch[c] = "open" /\ waiting[c] = "nothing"

ClientOpens(c) ==
    /\ login = "yes" /\ ch[c] = "closed" /\ Spend("open")
    /\ ch' = [ch EXCEPT ![c] = "opening"]
    /\ ClientSends(<<Frame("channel.open", c, 0)>>)
    /\ UNCHANGED <<waiting, mode, sent, unconfirmed>>

ClientSelects(c) ==
    /\ Free(c) /\ ~mode[c] /\ Spend("select")
    /\ waiting' = [waiting EXCEPT ![c] = "select-ok"]
    /\ ClientSends(<<Frame("confirm.select", c, 0)>>)
    /\ UNCHANGED <<ch, mode, sent, unconfirmed>>

ClientRequests(c) ==
    /\ Free(c) /\ Spend("request")
    /\ \E m \in setup.requests :
        /\ waiting' = [waiting EXCEPT ![c] = Ok[m]]
        /\ ClientSends(<<Frame(m, c, NextId)>>)
    /\ UNCHANGED <<ch, mode, sent, unconfirmed>>

\* Basic.Publish, the content header and the body frames.
ClientPublishes(c) ==
    /\ Free(c) /\ Spend("publish")
    /\ sent' = [sent EXCEPT ![c] = IF mode[c] THEN Append(@, NextId) ELSE @]
    /\ unconfirmed' = [unconfirmed EXCEPT ![c] = IF mode[c] THEN @ \cup {Len(sent'[c])} ELSE @]
    /\ ClientSends(<<Frame("publish", c, NextId), Frame("content", c, setup.frames)>> \o
                   [k \in 1..setup.frames |-> Frame("body", c, 0)])
    /\ UNCHANGED <<ch, waiting, mode>>

ClientCloses(c) ==
    /\ Free(c) /\ Spend("close")
    /\ ch' = [ch EXCEPT ![c] = "closing"]
    /\ ClientSends(<<Frame("channel.close", c, 0)>>)
    /\ UNCHANGED <<waiting, mode, sent, unconfirmed>>

\* The client's process ends, or it closes the connection.
ClientLeaves ==
    /\ Spend("hangup")
    /\ ClientSends(<<Frame("eof", 0, 0)>>)
    /\ UNCHANGED <<ch, waiting, mode, sent, unconfirmed>>

-----------------------------------------------------------------------------
(* What the broker's handlers are made of.                                 *)

\* send_method(): nothing is sent on a connection that is closing.
Reply(frames) == toClient' = IF closing = "no" THEN toClient \o frames ELSE toClient

\* The loop is between two callbacks.
Idle == fetched = 0

\* proto_close(), proto_fatal().
Shut(isFatal) ==
    /\ closing' = IF closing = "no" THEN "yes" ELSE closing
    /\ fatal' = (fatal \/ isFatal)

\* Mutant of OpsAfterCancel: the timers of a closed channel keep polling.
OpsAfterCancelNone(c) == ops

\* cancel_pending_ops() of one channel.
OpsAfterCancel(c) == {o \in ops : o.c # c}

\* Mutant of ChanAfterException: the channel stays registered.
ChanAfterExceptionKept(c) == chan

\* channel_remove() in send_channel_close().
ChanAfterException(c) == [chan EXCEPT ![c] = ClosedChan]

\* send_channel_close(): the channel is closed here and now.
ChannelException(c) ==
    /\ Reply(<<Frame("channel.close", c, 0)>>)
    /\ ops' = OpsAfterCancel(c)
    /\ chan' = ChanAfterException(c)

\* send_publish_confirm().
Confirm(c, tag, nack) == Frame(IF nack THEN "nack" ELSE "ack", c, tag)

Fatal ==
    /\ Shut(TRUE)
    /\ UNCHANGED <<toClient, authVars, brokerVars, paused, blocked, happened>>

-----------------------------------------------------------------------------
(* Login and teardown.                                                     *)

\* send_connection_close(): the login is refused, or throttled (authlimit), or
\* the virtual host is.
Deny ==
    /\ Reply(<<Frame("connection.close", 0, 0)>>)
    /\ Shut(FALSE)

\* handle_connection(); a frame is refused while a password is being verified.
HandleConnection(f) ==
    IF f.m # "header" /\ auth = "running" THEN Fatal
    ELSE /\ UNCHANGED <<brokerVars, paused, blocked>>
         /\ \/ /\ f.m = "header" /\ header' = TRUE
               /\ Reply(<<Frame("start", 0, 0)>>)
               /\ UNCHANGED <<happened, auth, connOpen, closing, fatal>>
            \/ /\ f.m = "start-ok" /\ auth' = "running"
               /\ UNCHANGED <<happened, toClient, header, connOpen, closing, fatal>>
            \/ /\ f.m = "tune-ok"
               /\ UNCHANGED <<happened, toClient, authVars, closing, fatal>>
            \/ /\ f.m = "connection.open" /\ connOpen' = TRUE
               /\ Reply(<<Frame("connection.open-ok", 0, 0)>>)
               /\ UNCHANGED <<happened, header, auth, closing, fatal>>
            \/ /\ f.m \in {"start-ok", "connection.open"} /\ Spend("deny")
               /\ Deny
               /\ UNCHANGED authVars

\* auth_work_after_cb(): the verification has ended, well or not.
AuthWorkDone ==
    /\ Idle /\ auth \in {"running", "detached"} /\ auth' = "done"
    /\ \/ /\ auth = "running" /\ Reply(<<Frame("tune", 0, 0)>>)
          /\ UNCHANGED <<happened, closing, fatal>>
       \/ auth = "running" /\ Spend("deny") /\ Deny
       \/ auth = "detached" /\ UNCHANGED <<happened, toClient, closing, fatal>>
    /\ UNCHANGED <<setup, toServer, fetched, header, connOpen, brokerVars, flowVars,
                   clientVars>>

\* protocol_conn_free(): the running verification forgets the connection.
DetachAuth == IF auth = "running" THEN "detached" ELSE auth

\* protocol_conn_free(), once the handles are closed.
ConnFree ==
    /\ closing = "yes" /\ Idle /\ closing' = "freed"
    /\ auth' = DetachAuth
    /\ ops' = {}
    /\ chan' = [c \in Chan |-> ClosedChan] /\ pub' = NoPub
    /\ UNCHANGED <<setup, happened, toServer, toClient, fetched, header, connOpen, fatal,
                   outcome, flowVars, clientVars>>

-----------------------------------------------------------------------------
(* Channels and requests.                                                  *)

\* handle_channel().
HandleChannel(f) ==
    \/ (~connOpen \/ (f.m = "channel.open" /\ chan[f.c].open)) /\ Fatal
    \/ /\ connOpen /\ f.m = "channel.open" /\ ~chan[f.c].open
       /\ chan' = [chan EXCEPT ![f.c] = FreshChan]
       /\ Reply(<<Frame("channel.open-ok", f.c, 0)>>)
       /\ UNCHANGED <<happened, authVars, closing, fatal, pub, ops, outcome, paused, blocked>>
    \/ /\ connOpen /\ f.m = "channel.close"
       /\ ops' = OpsAfterCancel(f.c)
       /\ chan' = [chan EXCEPT ![f.c] = ClosedChan]
       /\ Reply(<<Frame("channel.close-ok", f.c, 0)>>)
       /\ UNCHANGED <<happened, authVars, closing, fatal, pub, outcome, paused, blocked>>
    \/ /\ connOpen /\ f.m = "channel.close-ok"
       /\ UNCHANGED <<happened, toClient, authVars, closing, fatal, brokerVars, paused, blocked>>

\* handle_confirm().
HandleConfirm(f) ==
    /\ chan' = [chan EXCEPT ![f.c].confirm = TRUE]
    /\ Reply(<<Frame("select-ok", f.c, 0)>>)
    /\ UNCHANGED <<happened, authVars, closing, fatal, pub, ops, outcome, paused, blocked>>

\* One of the checks fails: permission, name, existence, flags, owner, in use.
RefuseRequest(f) ==
    /\ Spend("refuse")
    /\ ChannelException(f.c)
    /\ UNCHANGED <<authVars, closing, fatal, pub, outcome, paused, blocked>>

\* Passive, not durable, or no cluster: done here and answered.
DoRequest(f) ==
    /\ Reply(<<Frame(Ok[f.m], f.c, 0)>>)
    /\ outcome' = [outcome EXCEPT ![f.n] = "done"]
    /\ UNCHANGED <<happened, authVars, closing, fatal, chan, pub, ops, paused, blocked>>

\* await_cluster_commit(): proposed, and answered when it is committed.
ProposeRequest(f) ==
    /\ setup.cluster
    /\ ops' = ops \cup {[kind |-> Ok[f.m], c |-> f.c, id |-> f.n, tag |-> 0]}
    /\ outcome' = [outcome EXCEPT ![f.n] = "pending"]
    /\ UNCHANGED <<happened, toClient, authVars, closing, fatal, chan, pub, paused, blocked>>

\* handle_exchange(), handle_queue(): all four have the three ways.
Serve(f) == RefuseRequest(f) \/ DoRequest(f) \/ ProposeRequest(f)
HandleExchange(f) == f.m = "exchange.declare" /\ Serve(f)
HandleQueueDeclare(f) == f.m = "queue.declare" /\ Serve(f)
HandleQueueBind(f) == f.m = "queue.bind" /\ Serve(f)
HandleQueueDelete(f) == f.m = "queue.delete" /\ Serve(f)

\* handle_basic(), Basic.Publish: its content follows.
HandlePublish(f) ==
    /\ pub' = [NoPub EXCEPT !.active = TRUE, !.c = f.c, !.id = f.n]
    /\ UNCHANGED <<happened, toClient, authVars, closing, fatal, chan, ops, outcome, paused,
                   blocked>>

-----------------------------------------------------------------------------
(* A publish is complete.                                                  *)

\* ++confirm_seq.
NextTag(c) == chan[c].seq + 1

Counted(c, confirm) == IF confirm THEN [chan EXCEPT ![c].seq = NextTag(c)] ELSE chan

\* finalize_publish(), a message with no permission or, in a cluster, no memory to
\* propose it: a channel exception.
RefusePublish ==
    /\ Spend("refuse")
    /\ ChannelException(pub.c)
    /\ UNCHANGED <<outcome, paused, blocked>>

\* finalize_publish(), the end of it: the memory alarm stops a connection without
\* consumers, as this one is, and tells it once; the congested cluster stops one
\* that has just proposed.  frames is what the publish is answered with.
SlowDown(frames) ==
    LET short == "memory" \in pressure
    IN  /\ paused' = (paused \/ short \/ (setup.cluster /\ "cluster" \in pressure))
        /\ blocked' = (blocked \/ short)
        /\ Reply(frames \o IF short /\ ~blocked THEN <<Frame("connection.blocked", 0, 0)>>
                           ELSE <<>>)

\* finalize_publish(), a replicated message: the confirm follows the commit.
ProposePublish(confirm) ==
    /\ setup.cluster
    /\ outcome' = [outcome EXCEPT ![pub.id] = "pending"]
    /\ ops' = IF confirm
              THEN ops \cup {[kind |-> "confirm", c |-> pub.c, id |-> pub.id,
                              tag |-> NextTag(pub.c)]}
              ELSE ops
    /\ chan' = Counted(pub.c, confirm)
    /\ SlowDown(<<>>)
    /\ UNCHANGED happened

\* finalize_publish(), a local message: taken by a queue, refused by full ones, or
\* without a queue to go to.  The last is acknowledged, too, and then handed back
\* if it is mandatory (send_basic_return).
RoutePublish(confirm) ==
    /\ ~setup.cluster
    /\ \E routed \in {"done", "full", "unroutable"} :
        /\ IF routed = "done" THEN UNCHANGED happened ELSE Spend(routed)
        /\ outcome' = [outcome EXCEPT ![pub.id] = routed]
        /\ SlowDown((IF confirm THEN <<Confirm(pub.c, NextTag(pub.c), routed = "full")>>
                                ELSE <<>>) \o
                    (IF routed = "unroutable" /\ setup.mandatory
                     THEN <<Frame("return", pub.c, pub.id)>> ELSE <<>>))
    /\ chan' = Counted(pub.c, confirm)
    /\ UNCHANGED ops

\* finalize_publish().
FinalizePublish ==
    LET confirm == chan[pub.c].open /\ chan[pub.c].confirm
    IN  /\ pub' = NoPub
        /\ RefusePublish \/ ProposePublish(confirm) \/ RoutePublish(confirm)
        /\ UNCHANGED <<authVars, closing, fatal>>

\* handle_content_header(), handle_content_body(); dispatch_frame() takes only
\* the content of the publish being assembled.
HandleContent(f) ==
    LET got == pub.got + 1
    IN  IF f.m # (IF pub.have THEN "body" ELSE "content") \/ f.c # pub.c THEN Fatal
        ELSE IF (IF pub.have THEN got = pub.size ELSE f.n = 0) THEN FinalizePublish
        ELSE /\ pub' = IF pub.have THEN [pub EXCEPT !.got = got]
                       ELSE [pub EXCEPT !.have = TRUE, !.size = f.n]
             /\ UNCHANGED <<happened, toClient, authVars, closing, fatal, chan, ops, outcome,
                            paused, blocked>>

\* require_open(), require_channel().
ChannelIsOpen(f) == connOpen /\ chan[f.c].open

\* on_read(): some of the frames that have arrived, all of which are dispatched.
OnRead ==
    /\ closing = "no" /\ Idle /\ ~paused
    /\ \E n \in 1..Len(toServer) :
        /\ \A k \in 1..n : toServer[k].m # "eof"
        /\ fetched' = n
    /\ UNCHANGED <<setup, happened, toServer, toClient, authVars, closing, fatal, brokerVars,
                   flowVars, clientVars>>

\* on_read() at the end of the stream.
OnEof ==
    /\ closing = "no" /\ Idle /\ ~paused
    /\ toServer # <<>> /\ Head(toServer).m = "eof"
    /\ toServer' = Tail(toServer)
    /\ Shut(FALSE)
    /\ UNCHANGED <<setup, happened, toClient, fetched, authVars, brokerVars, flowVars,
                   clientVars>>

\* protocol_on_data(), dispatch_frame(), handle_method(): also after one of the
\* frames has paused the connection, but not after one that has closed it.
DispatchFrame ==
    LET f == Head(toServer)
    IN  /\ fetched > 0
        /\ toServer' = Tail(toServer)
        /\ UNCHANGED <<setup, pressure, clientVars>>
        /\ \/ pub.active /\ HandleContent(f)
           \/ /\ f.m \in {"header", "start-ok", "tune-ok", "connection.open"} /\ ~pub.active
              /\ HandleConnection(f)
           \/ /\ f.m \in {"channel.open", "channel.close", "channel.close-ok"} /\ ~pub.active
              /\ HandleChannel(f)
           \/ /\ f.m \in Requests \cup {"confirm.select", "publish", "content", "body"}
              /\ ~pub.active
              /\ IF f.m \in {"content", "body"} \/ ~ChannelIsOpen(f) THEN Fatal
                 ELSE \/ f.m = "confirm.select" /\ HandleConfirm(f)
                      \/ HandleExchange(f) \/ HandleQueueDeclare(f)
                      \/ HandleQueueBind(f) \/ HandleQueueDelete(f)
                      \/ f.m = "publish" /\ HandlePublish(f)
        /\ fetched' = IF closing' = "no" THEN fetched - 1 ELSE 0

-----------------------------------------------------------------------------
(* Answers that wait for the cluster.                                      *)

\* resolve_fwd_acks(), resolve_local_fwd_acks(): the cluster thread marks a proposal
\* committed.  It marks none rejected.
Committed(i) ==
    /\ outcome[i] = "pending"
    /\ outcome' = [outcome EXCEPT ![i] = "done"]
    /\ UNCHANGED <<setup, happened, toServer, toClient, fetched, authVars, closing, fatal,
                   chan, pub, ops, flowVars, clientVars>>

\* Mutant of Failed: a proposal is taken to be committed when its time is up.
FailedIfUnknown(o) == outcome[o.id] = "none"

\* st != CL_PROPOSAL_COMMITTED: still pending at the deadline.
Failed(o) == outcome[o.id] # "done"

\* Mutant of OpAnswer: a failed publish is dropped without a word.
OpAnswerSilent(o, failed) == IF failed THEN <<>> ELSE <<Confirm(o.c, o.tag, FALSE)>>

\* The confirm of a publish, in band whatever became of it.
OpAnswer(o, failed) == <<Confirm(o.c, o.tag, failed)>>

\* pending_op_timer_cb(), when the outcome is known or the deadline is over.  A
\* proposal whose slot in the status table was used again by a later one is taken
\* for pending until then (cluster_proposal_status).
OpTimer(o) ==
    /\ o \in ops /\ Idle
    /\ \E failed \in {Failed(o), TRUE} :
       \/ /\ o.kind = "confirm"
          /\ Reply(OpAnswer(o, failed))
          /\ ops' = ops \ {o} /\ UNCHANGED chan
       \/ /\ o.kind # "confirm" /\ ~failed
          /\ Reply(<<Frame(o.kind, o.c, 0)>>)
          /\ ops' = ops \ {o} /\ UNCHANGED chan
       \/ /\ o.kind # "confirm" /\ failed
          /\ Reply(<<Frame("channel.close", o.c, 0)>>)
          /\ ops' = OpsAfterCancel(o.c) \ {o}
          /\ chan' = ChanAfterException(o.c)
    /\ UNCHANGED <<setup, happened, toServer, fetched, authVars, closing, fatal, pub, outcome,
                   flowVars, clientVars>>

-----------------------------------------------------------------------------
(* Flow control.                                                           *)

\* The replication backlog or the memory in use rises over its mark, or falls.
PressureRises(k) ==
    /\ k \in setup.pressures \ pressure /\ Spend("pressure")
    /\ pressure' = pressure \cup {k}
    /\ UNCHANGED <<setup, toServer, toClient, fetched, authVars, closing, fatal, brokerVars,
                   paused, blocked, clientVars>>
PressureFalls(k) ==
    /\ k \in pressure /\ pressure' = pressure \ {k}
    /\ UNCHANGED <<setup, happened, toServer, toClient, fetched, authVars, closing, fatal,
                   brokerVars, paused, blocked, clientVars>>

\* on_throttle_timer(), protocol_conn_unblock(): neither reason is left, and the
\* connection is read again.
OnThrottleTimer ==
    /\ Idle /\ closing = "no" /\ paused /\ pressure = {}
    /\ paused' = FALSE /\ blocked' = FALSE
    /\ Reply(IF blocked THEN <<Frame("connection.unblocked", 0, 0)>> ELSE <<>>)
    /\ UNCHANGED <<setup, happened, toServer, fetched, authVars, closing, fatal, brokerVars,
                   pressure, clientVars>>

-----------------------------------------------------------------------------
(* The client and the broker's answers.                                    *)

\* The channel is closed for the client: it waits for nothing any more.
Forget(c, state) ==
    /\ ch' = [ch EXCEPT ![c] = state]
    /\ waiting' = [waiting EXCEPT ![c] = "nothing"]
    /\ mode' = [mode EXCEPT ![c] = FALSE]
    /\ sent' = [sent EXCEPT ![c] = <<>>]
    /\ unconfirmed' = [unconfirmed EXCEPT ![c] = {}]

\* A channel the client is closing is deaf to all but the end of it.
ClientReads ==
    LET f == Head(toClient)
        deaf == f.c # 0 /\ ch[f.c] = "closing"
    IN  /\ toClient # <<>> /\ toClient' = Tail(toClient)
        /\ UNCHANGED <<setup, happened, fetched, authVars, closing, fatal, brokerVars, flowVars>>
        /\ toServer' = toServer \o
              CASE f.m = "start" -> <<Frame("start-ok", 0, 0)>>
                [] f.m = "tune" -> <<Frame("tune-ok", 0, 0), Frame("connection.open", 0, 0)>>
                [] f.m = "channel.close" -> <<Frame("channel.close-ok", f.c, 0)>>
                [] OTHER -> <<>>
        /\ login' = CASE f.m = "connection.open-ok" -> "yes"
                      [] f.m = "connection.close" -> "refused"
                      [] OTHER -> login
        /\ CASE f.m = "channel.open-ok" ->
                    ch' = [ch EXCEPT ![f.c] = "open"]
                    /\ UNCHANGED <<waiting, mode, sent, unconfirmed>>
             [] f.m = "channel.close" -> Forget(f.c, IF deaf THEN "closing" ELSE "closed")
             [] f.m = "channel.close-ok" -> Forget(f.c, "closed")
             [] f.m \in Oks /\ ~deaf ->
                    /\ waiting' = [waiting EXCEPT ![f.c] = "nothing"]
                    /\ mode' = [mode EXCEPT ![f.c] = @ \/ f.m = "select-ok"]
                    /\ UNCHANGED <<ch, sent, unconfirmed>>
             [] f.m \in {"ack", "nack"} /\ ~deaf ->
                    /\ unconfirmed' = [unconfirmed EXCEPT ![f.c] = @ \ {f.n}]
                    /\ UNCHANGED <<ch, waiting, mode, sent>>
             [] OTHER -> UNCHANGED <<ch, waiting, mode, sent, unconfirmed>>

-----------------------------------------------------------------------------
Next ==
    \/ \E c \in Chan : ClientOpens(c) \/ ClientSelects(c) \/ ClientRequests(c)
                       \/ ClientPublishes(c) \/ ClientCloses(c)
    \/ ClientLeaves \/ ClientReads
    \/ OnRead \/ OnEof \/ DispatchFrame \/ AuthWorkDone \/ ConnFree \/ OnThrottleTimer
    \/ \E i \in Ids : Committed(i)
    \/ \E o \in ops : OpTimer(o)
    \/ \E k \in Pressures : PressureRises(k) \/ PressureFalls(k)

Spec == Init /\ [][Next]_vars

\* The loop reads and runs its timers, also those whose proposal is never
\* decided; the client reads.  Nothing is assumed of the cluster, nor of the
\* pressure.
Fairness ==
    /\ WF_vars(OnRead \/ OnEof) /\ WF_vars(DispatchFrame) /\ WF_vars(AuthWorkDone)
    /\ WF_vars(ConnFree) /\ WF_vars(OnThrottleTimer)
    /\ WF_vars(\E o \in ops : OpTimer(o))
    /\ WF_vars(ClientReads)

FairSpec == Spec /\ Fairness

-----------------------------------------------------------------------------
\* Every variable is in its range; at most one operation waits per publish or
\* request, on a channel that is open.
TypeOK ==
    /\ setup \in Scenarios /\ happened \in [Events -> 0..MaxEvents]
    /\ {header, connOpen, fatal} \subseteq BOOLEAN
    /\ auth \in {"none", "running", "detached", "done"}
    /\ closing \in {"no", "yes", "freed"}
    /\ chan \in [Chan -> [open : BOOLEAN, confirm : BOOLEAN, seq : 0..MaxEvents]]
    /\ pub.c \in Chan \cup {0} /\ pub.got \in 0..setup.frames
    /\ outcome \in [Ids -> {"none", "pending", "done", "full", "unroutable"}]
    /\ fetched \in 0..Len(toServer) /\ pressure \subseteq setup.pressures
    /\ {paused, blocked} \subseteq BOOLEAN /\ (blocked => paused)
    /\ login \in {"asked", "yes", "refused"}
    /\ ch \in [Chan -> {"closed", "opening", "open", "closing"}]
    /\ waiting \in [Chan -> {"nothing"} \cup Oks]
    /\ mode \in [Chan -> BOOLEAN]
    /\ \A c \in Chan : unconfirmed[c] \subseteq DOMAIN sent[c]
    /\ \A o, p \in ops : chan[o.c].open /\ (o.id = p.id => o = p)

\* Every answer that reaches the client is one it waits for: a confirm has a tag
\* of this life of the channel that was not confirmed before, an Ok belongs to
\* the request in progress, a returned message to an open channel.  Nothing of a
\* closed channel reaches a new one of the same number (cancel_pending_ops).
AnswersExpected ==
    toClient # <<>> =>
        LET f == Head(toClient)
        IN  /\ f.m \in {"ack", "nack"} =>
                  ch[f.c] = "closing" \/ (ch[f.c] = "open" /\ f.n \in unconfirmed[f.c])
            /\ f.m \in Oks => ch[f.c] = "closing" \/ waiting[f.c] = f.m
            /\ f.m = "return" => ch[f.c] \in {"open", "closing"}
            /\ f.m = "channel.open-ok" => ch[f.c] = "opening"
            /\ f.m = "channel.close-ok" => ch[f.c] = "closing"

\* A publish the client sees acknowledged has been committed by the cluster, taken by
\* a queue of this broker, or had no queue to go to; no full queue has refused it.
\* The tag is that of this very message, and a timeout is no acknowledgement
\* (pending_op_timer_cb, finalize_publish).
AckedIsDone ==
    (toClient # <<>> /\ Head(toClient).m = "ack") =>
        LET f == Head(toClient)
        IN  ch[f.c] = "open" => f.n \in DOMAIN sent[f.c]
                                 /\ outcome[sent[f.c][f.n]] \in {"done", "unroutable"}

\* A client that keeps to the protocol is never disconnected for a protocol
\* error, as long as no publish is refused: not by channel exceptions, answers
\* that come late, or channels opened again under their old number.
NoProtocolError == (happened["refuse"] = 0 \/ happened["publish"] = 0) => ~fatal

\* What the comment on channel exceptions says: they do not tear down the
\* connection.
ExceptionsSpareConnection == ~fatal

\* The client waits for an answer on the channel, and has all of them.
Asked(c) == ch[c] \in {"opening", "closing"} \/ waiting[c] # "nothing" \/ unconfirmed[c] # {}
Answered(c) == ch[c] \in {"open", "closed"} /\ waiting[c] = "nothing" /\ unconfirmed[c] = {}

\* Whatever the client waits for on a channel arrives, unless the connection ends,
\* in every run in which the congestion and the memory alarm come to an end: every
\* publish is confirmed, every request answered, every channel opened or closed.
\* The cluster may stay silent (pending_op_timer_cb), and the connection may have
\* been paused in between (finalize_publish, on_throttle_timer).
ClientIsAnswered ==
    <>[](pressure = {}) => \A c \in Chan : Asked(c) ~> (Answered(c) \/ closing # "no")

=============================================================================
