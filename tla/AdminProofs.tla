---------------------------- MODULE AdminProofs ----------------------------
(***************************************************************************)
(* Proofs about Admin, for any number of connections, password checks,     *)
(* users, requests and faults: a password check never refers to a          *)
(* connection that was freed, and none starts before the backoff of its    *)
(* key is over; a restart finds the configuration the broker had; and the  *)
(* bootstrap token is of no use once there has been a user.                *)
(***************************************************************************)
EXTENDS Admin, TLAPS

-----------------------------------------------------------------------------
(* Password checks and connections.                                        *)

Fields == DOMAIN NoConn

IsConn(k) == DOMAIN k = Fields /\ k.reading \in BOOLEAN

\* What becomes of a connection as long as it is not freed and no check starts.
Follows(r, k) ==
    /\ IsConn(r)
    /\ r.pending = k.pending
    /\ r.reading = k.reading \/ r.reading = FALSE
    /\ k.st # "none" => r.st # "none"

ConnShape == DOMAIN conns = Conn /\ \A c \in Conn : IsConn(conns[c])

WorkShape ==
    /\ DOMAIN works = WorkId
    /\ \A i \in WorkId : works[i] # None => "who" \in DOMAIN works[i]

\* The connection a check refers to is there, knows of the check, and is not
\* read: no second check can start for it.
Referred ==
    \A i \in WorkId : works[i] # None /\ works[i].who \in Conn =>
        /\ conns[works[i].who].st # "none"
        /\ conns[works[i].who].pending = i
        /\ conns[works[i].who].reading = FALSE

\* The inductive invariant.
WorkInv == ConnShape /\ WorkShape /\ Referred

\* A connection that is not there has the shape of one.
LEMMA NoConnShape == IsConn(NoConn)
BY DEF IsConn, NoConn, Fields

\* Responding, with or without noting it, and closing.
LEMMA AnswerFollows ==
    ASSUME NEW k, IsConn(k)
    PROVE  Follows(Respond(k), k) /\ Follows(Respond401(k), k) /\ Follows(Closed(k), k)
<1>1. Fields = {"request", "st", "reading", "looks", "responded", "writes", "sent", "pending",
                "handles"}
  BY DEF Fields, NoConn
<1>2. Follows(Respond401(k), k)
  BY <1>1 DEF Follows, IsConn, Respond401
<1>3. Follows(Respond(k), k)
  BY <1>1, <1>2 DEF Follows, IsConn, Respond
<1>4. Follows(Closed(k), k)
  BY <1>1 DEF Follows, IsConn, Closed
<1>. QED  BY <1>2, <1>3, <1>4

\* A connection changes without being freed, and no check starts or ends.
LEMMA PutFollows ==
    ASSUME WorkInv, NEW c \in Conn, NEW k, Follows(k, conns[c]), Put(c, k), works' = works
    PROVE  WorkInv'
<1>1. DOMAIN conns' = Conn /\ conns'[c] = k /\ \A d \in Conn : d # c => conns'[d] = conns[d]
  BY DEF WorkInv, ConnShape, Put
<1>2. ConnShape'
  BY <1>1 DEF WorkInv, ConnShape, Follows
<1>3. WorkShape'
  BY DEF WorkInv, WorkShape, WorkId
<1>4. ASSUME NEW i \in WorkId, works[i] # None, works[i].who \in Conn
      PROVE  /\ conns'[works[i].who].st # "none"
             /\ conns'[works[i].who].pending = i
             /\ conns'[works[i].who].reading = FALSE
  <2>1. /\ conns[works[i].who].st # "none"
        /\ conns[works[i].who].pending = i
        /\ conns[works[i].who].reading = FALSE
    BY <1>4 DEF WorkInv, Referred
  <2>2. CASE works[i].who = c  BY <1>1, <2>1, <2>2 DEF Follows
  <2>3. CASE works[i].who # c  BY <1>1, <1>4, <2>1, <2>3
  <2>. QED  BY <2>2, <2>3, ZenonT(30)
<1>5. Referred'
  BY <1>4, ZenonT(30) DEF Referred, WorkId
<1>. QED  BY <1>2, <1>3, <1>5 DEF WorkInv

\* Nothing happens to connections and checks.
LEMMA WorkInvUnchanged ==
    ASSUME WorkInv, UNCHANGED <<conns, works>>
    PROVE  WorkInv'
BY DEF WorkInv, ConnShape, WorkShape, Referred, WorkId

\* mgmt_auth_start() of a connection that is read: a check starts for it, or it
\* is answered.
LEMMA CheckPasswordKeeps ==
    ASSUME WorkInv, NEW c \in Conn, NEW k, IsConn(k), k.st = "open", k.reading = TRUE,
           conns[c].reading = TRUE, k.pending = conns[c].pending, CheckPassword(c, k)
    PROVE  WorkInv'
<1>. DEFINE w == Work("http", c, k.request.key, k.request.cred)
<1>1. CASE Put(c, Respond(k)) /\ works' = works
  <2>1. Follows(Respond(k), conns[c])
    BY AnswerFollows, ZenonT(30) DEF Follows
  <2>. QED  BY <1>1, <2>1, PutFollows
<1>2. CASE Begin(w) /\ Put(c, [k EXCEPT !.pending = FreeWork, !.reading = FALSE])
  <2>1. /\ DOMAIN conns' = Conn /\ \A d \in Conn : d # c => conns'[d] = conns[d]
        /\ conns'[c] = [k EXCEPT !.pending = FreeWork, !.reading = FALSE]
    BY <1>2 DEF WorkInv, ConnShape, Put
  <2>2. /\ IsConn(conns'[c]) /\ conns'[c].st = "open"
        /\ conns'[c].pending = FreeWork /\ conns'[c].reading = FALSE
    BY <2>1 DEF IsConn, Fields, NoConn
  <2>3. ConnShape'
    BY <2>1, <2>2 DEF WorkInv, ConnShape
  <2>4. /\ DOMAIN works' = WorkId
        /\ \A i \in WorkId : works'[i] = IF i = FreeWork THEN w ELSE works[i]
    BY <1>2 DEF WorkInv, WorkShape, Begin
  <2>5. "who" \in DOMAIN w /\ w.who = c
    BY DEF Work
  <2>. HIDE DEF w
  <2>6. WorkShape'
    BY <2>4, <2>5 DEF WorkInv, WorkShape, WorkId
  <2>7. ASSUME NEW i \in WorkId, works'[i] # None, works'[i].who \in Conn
        PROVE  /\ conns'[works'[i].who].st # "none"
               /\ conns'[works'[i].who].pending = i
               /\ conns'[works'[i].who].reading = FALSE
    <3>1. CASE i = FreeWork  BY <2>2, <2>4, <2>5, <3>1
    <3>2. CASE i # FreeWork
      <4>1. works'[i] = works[i]  BY <2>4, <3>2
      <4>2. /\ conns[works[i].who].st # "none"
            /\ conns[works[i].who].pending = i
            /\ conns[works[i].who].reading = FALSE
        BY <2>7, <4>1 DEF WorkInv, Referred
      <4>3. works[i].who # c  BY <4>2
      <4>. QED  BY <2>1, <2>7, <4>1, <4>2, <4>3
    <3>. QED  BY <3>1, <3>2, ZenonT(30)
  <2>8. Referred'
    BY <2>7, ZenonT(30) DEF Referred, WorkId
  <2>. QED  BY <2>3, <2>6, <2>8 DEF WorkInv
<1>3. CASE works' = works /\ \E s \in BOOLEAN : Put(c, [Respond(k) EXCEPT !.reading = ~s])
  <2>1. PICK s \in BOOLEAN : Put(c, [Respond(k) EXCEPT !.reading = ~s])
    BY <1>3
  <2>2. Follows(Respond(k), k)
    BY AnswerFollows
  <2>. DEFINE r == [Respond(k) EXCEPT !.reading = ~s]
  <2>3. IsConn(r) /\ r.pending = k.pending /\ r.reading \in BOOLEAN /\ r.st # "none"
    BY <2>2 DEF Follows, IsConn, Fields, NoConn
  <2>4. Follows(r, conns[c])
    <3>. HIDE DEF r
    <3>. QED  BY <2>3, ZenonT(30) DEF Follows
  <2>. QED  BY <1>3, <2>1, <2>4, PutFollows
<1>. QED
  BY <1>1, <1>2, <1>3 DEF CheckPassword

\* on_http_read() of a whole request.
LEMMA ReadKeeps ==
    ASSUME WorkInv, NEW c \in Conn, Read(c)
    PROVE  WorkInv'
<1>. DEFINE k == [conns[c] EXCEPT !.looks = @ + 1]
<1>1. conns[c].st = "open" /\ conns[c].reading = TRUE /\ IsConn(conns[c])
  BY DEF WorkInv, ConnShape, IsConn, Read
<1>2. /\ IsConn(k) /\ k.st = "open" /\ k.reading = TRUE /\ k.pending = conns[c].pending
      /\ k.request = conns[c].request
  BY <1>1 DEF IsConn, Fields, NoConn
<1>3. HandleRequest(c, k)
  BY DEF Read
<1>. HIDE DEF k
<1>4. /\ Follows(Respond(k), conns[c]) /\ Follows(Respond401(k), conns[c])
      /\ Follows(k, conns[c])
  BY <1>1, <1>2, AnswerFollows, ZenonT(30) DEF Follows
<1>5. CASE works' = works /\ (Put(c, k) \/ Put(c, Respond(k)) \/ Put(c, Respond401(k)))
  BY <1>4, <1>5, PutFollows
<1>6. CASE CheckPassword(c, k)
  BY <1>1, <1>2, <1>6, CheckPasswordKeeps, ZenonT(30)
<1>7. \/ works' = works /\ (Put(c, k) \/ Put(c, Respond(k)) \/ Put(c, Respond401(k)))
      \/ CheckPassword(c, k)
  BY <1>3 DEF HandleRequest, Dispatch, limiter
<1>. QED  BY <1>5, <1>6, <1>7

\* A connection is accepted into a record that is free.
LEMMA AcceptKeeps ==
    ASSUME WorkInv, setup.conns \subseteq Conn, NEW q, Accept(q)
    PROVE  WorkInv'
<1>. DEFINE c == CHOOSE x \in setup.conns : conns[x].st = "none"
            k == [NoConn EXCEPT !.request = q, !.st = "open", !.reading = TRUE, !.handles = 2]
<1>1. c \in Conn /\ conns[c].st = "none"
  BY DEF Accept
<1>2. IsConn(k) /\ IsConn([k EXCEPT !.st = "closing", !.handles = 1])
  BY DEF IsConn, Fields, NoConn
<1>3. \E r : IsConn(r) /\ Put(c, r)
  BY <1>2, ZenonT(30) DEF Accept
<1>4. works' = works
  BY DEF Accept, limiter
<1>. HIDE DEF c, k
<1>5. PICK r : IsConn(r) /\ Put(c, r)
  BY <1>3
<1>6. DOMAIN conns' = Conn /\ conns'[c] = r /\ \A d \in Conn : d # c => conns'[d] = conns[d]
  BY <1>1, <1>5 DEF WorkInv, ConnShape, Put
<1>7. ConnShape'
  BY <1>5, <1>6 DEF WorkInv, ConnShape
<1>8. WorkShape'
  BY <1>4 DEF WorkInv, WorkShape, WorkId
<1>9. Referred'
  BY <1>1, <1>4, <1>6 DEF WorkInv, Referred, WorkId
<1>. QED  BY <1>7, <1>8, <1>9 DEF WorkInv

\* The last handle is closed: the connection is freed, and its check detached.
LEMMA HandleClosedKeeps ==
    ASSUME WorkInv, NEW c \in Conn, HandleClosed(c)
    PROVE  WorkInv'
<1>1. CASE conns[c].handles > 1
  <2>. DEFINE r == [conns[c] EXCEPT !.handles = @ - 1]
  <2>1. Put(c, r) /\ works' = works
    BY <1>1 DEF HandleClosed
  <2>2. Follows(r, conns[c])
    BY DEF WorkInv, ConnShape, Follows, IsConn, Fields, NoConn
  <2>. QED  BY <2>1, <2>2, PutFollows
<1>2. CASE ~(conns[c].handles > 1)
  <2>1. Put(c, NoConn) /\ works' = Detached(c)
    BY <1>2 DEF HandleClosed
  <2>2. DOMAIN conns' = Conn /\ conns'[c] = NoConn
        /\ \A d \in Conn : d # c => conns'[d] = conns[d]
    BY <2>1 DEF WorkInv, ConnShape, Put
  <2>3. ConnShape'
    BY <2>2, NoConnShape DEF WorkInv, ConnShape
  <2>4. /\ DOMAIN works' = WorkId
        /\ \A i \in WorkId :
            works'[i] = IF works[i] # None /\ works[i].who = c
                        THEN [works[i] EXCEPT !.who = None] ELSE works[i]
    BY <2>1 DEF Detached
  <2>5. ASSUME NEW i \in WorkId, works'[i] # None
        PROVE  /\ "who" \in DOMAIN works'[i]
               /\ works'[i].who \in Conn => works'[i] = works[i] /\ works[i].who # c
    <3>1. CASE works[i] # None /\ works[i].who = c
      <4>1. works'[i] = [works[i] EXCEPT !.who = None]
        BY <2>4, <3>1
      <4>2. "who" \in DOMAIN works[i]
        BY <3>1 DEF WorkInv, WorkShape
      <4>3. "who" \in DOMAIN works'[i] /\ works'[i].who = None
        BY <4>1, <4>2
      <4>. QED  BY <4>3, AdminAssumption
    <3>2. CASE ~(works[i] # None /\ works[i].who = c)
      <4>1. works'[i] = works[i]
        BY <2>4, <3>2
      <4>. QED  BY <2>5, <3>2, <4>1 DEF WorkInv, WorkShape
    <3>. QED  BY <3>1, <3>2
  <2>6. WorkShape'
    BY <2>4, <2>5 DEF WorkShape, WorkId
  <2>7. Referred'
    BY <2>2, <2>5 DEF WorkInv, Referred, WorkId
  <2>. QED  BY <2>3, <2>6, <2>7 DEF WorkInv
<1>. QED  BY <1>1, <1>2

\* A check is over: it leaves its slot, and its connection forgets it.
LEMMA WorkDoneKeeps ==
    ASSUME WorkInv, NEW i \in WorkId, WorkDone(i)
    PROVE  WorkInv'
<1>1. /\ DOMAIN works' = WorkId /\ works'[i] = None
      /\ \A j \in WorkId : j # i => works'[j] = works[j]
  BY DEF WorkInv, WorkShape, WorkDone
<1>2. WorkShape'
  BY <1>1 DEF WorkInv, WorkShape, WorkId
<1>3. CASE works[i].who \in Conn
  <2>. DEFINE c == works[i].who
              k == [conns[c] EXCEPT !.pending = None]
  <2>1. works[i] # None /\ Dispatch(c, k, LevelAfter(works[i]), works[i].user)
    BY <1>3 DEF WorkDone
  <2>2. IsConn(conns[c]) /\ conns[c].st # "none" /\ conns[c].pending = i
        /\ conns[c].reading = FALSE
    BY <1>3, <2>1 DEF WorkInv, ConnShape, Referred
  <2>3. IsConn(k)
    BY <2>2 DEF IsConn, Fields, NoConn
  <2>4. Put(c, k) \/ Put(c, Respond(k)) \/ Put(c, Respond401(k))
    <3>. HIDE DEF c, k
    <3>. QED  BY <2>1 DEF Dispatch
  <2>5. IsConn(Respond(k)) /\ IsConn(Respond401(k))
    BY <2>3, AnswerFollows, ZenonT(30) DEF Follows
  <2>. HIDE DEF k
  <2>6. PICK r : IsConn(r) /\ Put(c, r)
    BY <2>3, <2>4, <2>5
  <2>7. DOMAIN conns' = Conn /\ conns'[c] = r /\ \A d \in Conn : d # c => conns'[d] = conns[d]
    BY <1>3, <2>6 DEF WorkInv, ConnShape, Put
  <2>8. ConnShape'
    BY <2>6, <2>7, ZenonT(30) DEF WorkInv, ConnShape
  <2>9. Referred'
    BY <1>1, <2>2, <2>7, SMTT(60) DEF WorkInv, Referred, WorkId
  <2>. QED  BY <1>2, <2>8, <2>9 DEF WorkInv
<1>4. CASE works[i].who \notin Conn
  <2>1. conns' = conns
    BY <1>4 DEF WorkDone
  <2>. QED  BY <1>1, <1>2, <2>1 DEF WorkInv, ConnShape, Referred, WorkId
<1>. QED  BY <1>3, <1>4

\* The steps of one connection other than reading a request.
LEMMA ConnStepKeeps ==
    ASSUME WorkInv, NEW c \in Conn,
           ReadBad(c) \/ ReadEnd(c) \/ ConnTimeout(c) \/ WriteDone(c)
    PROVE  WorkInv'
<1>0. IsConn(conns[c])
  BY DEF WorkInv, ConnShape
<1>1. works' = works
  BY DEF ReadBad, ReadEnd, ConnTimeout, WriteDone, limiter
<1>2. CASE ReadBad(c)
  <2>. DEFINE k == [conns[c] EXCEPT !.looks = setup.looks]
  <2>1. Put(c, Respond(k))
    BY <1>2 DEF ReadBad
  <2>2. Follows(k, conns[c])
    BY <1>0 DEF Follows, IsConn, Fields, NoConn
  <2>. HIDE DEF k
  <2>3. Follows(Respond(k), conns[c])
    BY <2>2, AnswerFollows, ZenonT(30) DEF Follows
  <2>. QED  BY <1>1, <2>1, <2>3, PutFollows
<1>3. CASE ReadEnd(c) \/ ConnTimeout(c)
  <2>1. Put(c, Closed(conns[c]))
    BY <1>3 DEF ReadEnd, ConnTimeout
  <2>. QED  BY <1>0, <1>1, <2>1, AnswerFollows, PutFollows
<1>4. CASE WriteDone(c)
  <2>. DEFINE k == [conns[c] EXCEPT !.writes = @ - 1]
  <2>1. Put(c, Closed(k))
    BY <1>4 DEF WriteDone
  <2>2. Follows(k, conns[c])
    BY <1>0 DEF Follows, IsConn, Fields, NoConn
  <2>. HIDE DEF k
  <2>3. Follows(Closed(k), conns[c])
    BY <2>2, AnswerFollows, ZenonT(30) DEF Follows
  <2>. QED  BY <1>1, <2>1, <2>3, PutFollows
<1>. QED  BY <1>2, <1>3, <1>4

\* handle_mgmt() answers.
LEMMA HandleMgmtKeeps ==
    ASSUME WorkInv, NEW c \in Conn, HandleMgmt(c)
    PROVE  WorkInv'
<1>1. Put(c, Respond(conns[c])) /\ works' = works
  BY ZenonT(30) DEF HandleMgmt, limiter
<1>2. Follows(Respond(conns[c]), conns[c])
  BY AnswerFollows, ZenonT(30) DEF WorkInv, ConnShape
<1>. QED  BY <1>1, <1>2, PutFollows, ZenonT(30)

\* http_server_shutdown() closes all, and frees none.
LEMMA ShutdownKeeps ==
    ASSUME WorkInv, Shutdown
    PROVE  WorkInv'
<1>1. works' = works /\ conns' = [c \in Conn |-> Closed(conns[c])]
  BY DEF Shutdown, limiter
<1>2. DOMAIN conns' = Conn /\ \A c \in Conn : conns'[c] = Closed(conns[c])
  BY <1>1
<1>3. \A c \in Conn : Follows(conns'[c], conns[c])
  BY <1>2, AnswerFollows DEF WorkInv, ConnShape
<1>4. ConnShape'
  BY <1>2, <1>3 DEF ConnShape, Follows
<1>5. WorkShape'
  BY <1>1, ZenonT(30) DEF WorkInv, WorkShape, WorkId
<1>6. Referred'
  BY <1>1, <1>3, SMTT(60) DEF WorkInv, Referred, Follows, WorkId
<1>. QED  BY <1>4, <1>5, <1>6 DEF WorkInv

\* Checks of AMQP logins refer to no connection of the management interface.
LEMMA AmqpKeeps ==
    ASSUME WorkInv, conns' = conns, NEW i, NEW w, "who" \in DOMAIN w, w.who \notin Conn,
           works' = [works EXCEPT ![i] = w]
    PROVE  WorkInv'
<1>1. DOMAIN works' = WorkId /\ \A j \in WorkId : works'[j] = IF j = i THEN w ELSE works[j]
  BY DEF WorkInv, WorkShape
<1>2. WorkShape'
  BY <1>1 DEF WorkInv, WorkShape, WorkId
<1>3. Referred'
  BY <1>1, SMTT(30) DEF WorkInv, Referred, WorkId
<1>. QED  BY <1>2, <1>3 DEF WorkInv, ConnShape

\* The scenario does not change.
LEMMA SetupFixed == [Next]_vars => setup' = setup
BY ZenonT(30)
   DEF Next, Read, ReadBad, ReadEnd, ConnTimeout, WriteDone, HandleClosed, HandleMgmt, Accept,
       AmqpLogin, AmqpGone, WorkDone, LoopTurn, Tick, Shutdown, Damage, Crash, Attach, Commit, ApplyOp,
       LeaderKnown, LeaderLost, BecomeLeader, OnRaft, vars

\* Every step preserves the invariant.
LEMMA WorkInvNext == WorkInv /\ setup \in Scenarios /\ [Next]_vars => WorkInv'
<1>. SUFFICES ASSUME WorkInv, setup \in Scenarios, [Next]_vars PROVE WorkInv'
  OBVIOUS
<1>1. setup' = setup
  BY SetupFixed
<1>2. ASSUME NEW c \in Conn, Read(c) PROVE WorkInv'
  BY <1>2, ReadKeeps
<1>3. ASSUME NEW c \in Conn, ReadBad(c) \/ ReadEnd(c) \/ ConnTimeout(c) \/ WriteDone(c)
      PROVE  WorkInv'
  BY <1>3, ConnStepKeeps
<1>4. ASSUME NEW c \in Conn, HandleClosed(c) PROVE WorkInv'
  BY <1>4, HandleClosedKeeps
<1>5. ASSUME NEW q \in todo, Accept(q) PROVE WorkInv'
  <2>1. setup.conns \subseteq Conn
    BY AdminAssumption
  <2>. QED  BY <1>5, <2>1, AcceptKeeps
<1>6. ASSUME NEW q \in todo, AmqpLogin(q) PROVE WorkInv'
  <2>. DEFINE w == Work("amqp", "amqp", q.key, q.cred)
  <2>1. conns' = conns /\ (works' = works \/ works' = [works EXCEPT ![FreeWork] = w])
    BY <1>6, ZenonT(30) DEF AmqpLogin, Begin, limiter
  <2>2. "who" \in DOMAIN w /\ w.who \notin Conn
    BY AdminAssumption DEF Work
  <2>. HIDE DEF w
  <2>. QED  BY <2>1, <2>2, AmqpKeeps, WorkInvUnchanged
<1>7. ASSUME NEW i \in WorkId, AmqpGone(i) PROVE WorkInv'
  <2>. DEFINE w == [works[i] EXCEPT !.who = None]
  <2>1. conns' = conns /\ works' = [works EXCEPT ![i] = w]
    BY <1>7 DEF AmqpGone
  <2>2. "who" \in DOMAIN works[i]
    BY <1>7 DEF AmqpGone, WorkInv, WorkShape
  <2>3. "who" \in DOMAIN w /\ w.who \notin Conn
    BY <2>2, AdminAssumption
  <2>. HIDE DEF w
  <2>. QED  BY <2>1, <2>3, AmqpKeeps, ZenonT(30)
<1>8. ASSUME NEW i \in WorkId, WorkDone(i) PROVE WorkInv'
  BY <1>8, WorkDoneKeeps
<1>9. CASE Shutdown
  BY <1>1, <1>9, ShutdownKeeps
<1>10. CASE Crash
  BY <1>1, <1>10, NoConnShape DEF Crash, WorkInv, ConnShape, WorkShape, Referred, WorkId
<1>11. CASE \/ Tick \/ Damage \/ Attach \/ Commit \/ ApplyOp \/ LeaderKnown \/ LeaderLost
            \/ BecomeLeader \/ (\E x \in Loop : LoopTurn(x)) \/ UNCHANGED vars
  <2>1. UNCHANGED <<conns, works>>
    BY <1>11 DEF Tick, Damage, Attach, Commit, ApplyOp, LeaderKnown, LeaderLost, BecomeLeader,
                 LoopTurn, OnRaft, limiter, vars
  <2>. QED  BY <1>1, <2>1, WorkInvUnchanged, ZenonT(30)
<1>12. ASSUME NEW c \in Conn, HandleMgmt(c) PROVE WorkInv'
  BY <1>12, HandleMgmtKeeps
<1>. QED
  BY <1>1, <1>2, <1>3, <1>4, <1>5, <1>6, <1>7, <1>8, <1>9, <1>10, <1>11, <1>12 DEF Next

\* It holds when the broker starts.
LEMMA WorkInvInit == Init => WorkInv /\ setup \in Scenarios
BY NoConnShape DEF Init, WorkInv, ConnShape, WorkShape, Referred, WorkId

\* on_http_handle_closed() detaches in time: a password check never refers to a
\* connection that was freed, or to one that does not know of it.
THEOREM WorkSafe == Spec => []WorkRefersToLive
<1>. DEFINE Inv == WorkInv /\ setup \in Scenarios
<1>1. Inv /\ [Next]_vars => Inv'
  BY WorkInvNext, SetupFixed
<1>2. Inv => WorkRefersToLive
  BY DEF WorkInv, Referred, WorkRefersToLive
<1>. QED  BY <1>1, <1>2, WorkInvInit, PTL DEF Spec

-----------------------------------------------------------------------------
(* The limiter.                                                            *)

Times == 0..setup.until

Clocks == time \in Times /\ now \in [Loop -> Times]

\* Whoever asks, and every check under way, has a key of the limiter.
Keyed ==
    /\ todo \subseteq setup.requests
    /\ \A c \in Conn : conns[c].st = "open" => conns[c].request.key \in Key
    /\ \A i \in WorkId : works[i] # None =>
        /\ {"key", "start"} \subseteq DOMAIN works[i]
        /\ works[i].key \in Key /\ works[i].start \in Times

\* The table agrees with the history of each key's failures, as far as that was
\* in the order of time and not evicted.
Tallied ==
    /\ DOMAIN tab = Key
    /\ fails \in [Key -> [n : Nat, last : Times, sound : BOOLEAN]]
    /\ \A k \in Key : tab[k] # None => fails[k].n > 0 /\ tab[k].last = fails[k].last
    /\ \A k \in Key : fails[k].sound = TRUE =>
        tab[k] = IF fails[k].n = 0 THEN None
                 ELSE [failures |-> fails[k].n, last |-> fails[k].last,
                       next |-> fails[k].last + Delay(fails[k].n)]

\* The inductive invariant.
LimitInv == setup \in Scenarios /\ WorkInv /\ Clocks /\ Keyed /\ Tallied

\* A connection stays with its request, and is not opened again.
Same(r, k) == r.request = k.request /\ (r.st = "open" => k.st = "open")

\* Whoever is being served asked before the step or is asking now.
AsRequested ==
    \A c \in Conn : conns'[c].st = "open" =>
        Same(conns'[c], conns[c]) \/ conns'[c].request \in todo

\* Responding and closing.
LEMMA AnswerSame ==
    ASSUME NEW k, IsConn(k)
    PROVE  Same(Respond(k), k) /\ Same(Respond401(k), k) /\ Same(Closed(k), k)
<1>1. Fields = {"request", "st", "reading", "looks", "responded", "writes", "sent", "pending",
                "handles"}
  BY DEF Fields, NoConn
<1>2. Same(Respond401(k), k) /\ IsConn(Respond401(k))
  BY <1>1, SMTT(30) DEF Same, IsConn, Respond401
<1>3. Same(Respond(k), k)
  BY <1>1, <1>2, SMTT(30) DEF Same, IsConn, Respond
<1>4. Same(Closed(k), k)
  BY <1>1, SMTT(30) DEF Same, IsConn, Closed
<1>. QED  BY <1>2, <1>3, <1>4, ZenonT(30)

\* One connection changes and stays with its request.
LEMMA PutSame ==
    ASSUME WorkInv, NEW c \in Conn, NEW r, Same(r, conns[c]), Put(c, r)
    PROVE  AsRequested
<1>1. conns'[c] = r /\ \A d \in Conn : d # c => conns'[d] = conns[d]
  BY SMTT(30) DEF WorkInv, ConnShape, Put
<1>. QED  BY <1>1, SMTT(30) DEF AsRequested, Same

\* mgmt_auth_start() of a connection.
LEMMA CheckPasswordAsRequested ==
    ASSUME WorkInv, NEW c \in Conn, NEW k, IsConn(k), Same(k, conns[c]), CheckPassword(c, k)
    PROVE  AsRequested
<1>1. Same(Respond(k), k) /\ IsConn(Respond(k))
  BY AnswerSame, AnswerFollows, ZenonT(30) DEF Follows
<1>2. \E r : Put(c, r) /\ Same(r, k)
  <2>1. CASE Put(c, Respond(k))
    BY <1>1, <2>1, ZenonT(30)
  <2>2. CASE Put(c, [k EXCEPT !.pending = FreeWork, !.reading = FALSE])
    <3>1. Same([k EXCEPT !.pending = FreeWork, !.reading = FALSE], k)
      BY SMTT(30) DEF Same, IsConn, Fields, NoConn
    <3>. QED  BY <2>2, <3>1, ZenonT(30)
  <2>3. CASE \E s \in BOOLEAN : Put(c, [Respond(k) EXCEPT !.reading = ~s])
    <3>1. PICK s \in BOOLEAN : Put(c, [Respond(k) EXCEPT !.reading = ~s])
      BY <2>3, ZenonT(30)
    <3>2. Same([Respond(k) EXCEPT !.reading = ~s], Respond(k))
      BY <1>1, SMTT(30) DEF Same, IsConn, Fields, NoConn
    <3>3. Same([Respond(k) EXCEPT !.reading = ~s], k)
      BY <1>1, <3>2, ZenonT(30) DEF Same
    <3>. QED  BY <3>1, <3>3, ZenonT(30)
  <2>. QED  BY <2>1, <2>2, <2>3, ZenonT(30) DEF CheckPassword
<1>3. PICK r : Put(c, r) /\ Same(r, k)
  BY <1>2, ZenonT(30)
<1>4. Same(r, conns[c])
  BY <1>3, ZenonT(30) DEF Same
<1>. QED  BY <1>3, <1>4, PutSame, ZenonT(30)

\* on_http_read() of a whole request.
LEMMA ReadAsRequested ==
    ASSUME WorkInv, NEW c \in Conn, Read(c)
    PROVE  AsRequested
<1>. DEFINE k == [conns[c] EXCEPT !.looks = @ + 1]
<1>1. IsConn(conns[c])
  BY ZenonT(30) DEF WorkInv, ConnShape
<1>2. IsConn(k) /\ Same(k, conns[c])
  BY <1>1, SMTT(30) DEF IsConn, Fields, NoConn, Same
<1>3. HandleRequest(c, k)
  BY ZenonT(30) DEF Read
<1>. HIDE DEF k
<1>4. CASE Put(c, k) \/ Put(c, Respond(k)) \/ Put(c, Respond401(k))
  <2>1. Same(Respond(k), conns[c]) /\ Same(Respond401(k), conns[c])
    BY <1>2, AnswerSame, ZenonT(30) DEF Same
  <2>. QED  BY <1>2, <1>4, <2>1, PutSame, ZenonT(30)
<1>5. CASE CheckPassword(c, k)
  BY <1>2, <1>5, CheckPasswordAsRequested, ZenonT(30)
<1>6. Put(c, k) \/ Put(c, Respond(k)) \/ Put(c, Respond401(k)) \/ CheckPassword(c, k)
  BY <1>3, SMTT(30) DEF HandleRequest, Dispatch
<1>. QED  BY <1>4, <1>5, <1>6, ZenonT(30)

\* Every step keeps connections with their requests.
LEMMA RequestStep ==
    ASSUME WorkInv, setup \in Scenarios, Next
    PROVE  AsRequested
<1>1. ASSUME NEW c \in Conn, Read(c) PROVE AsRequested
  BY <1>1, ReadAsRequested, ZenonT(30)
<1>2. ASSUME NEW c \in Conn, ReadBad(c) \/ ReadEnd(c) \/ ConnTimeout(c) \/ WriteDone(c)
      PROVE  AsRequested
  <2>. DEFINE k == [conns[c] EXCEPT !.looks = setup.looks]
              d == [conns[c] EXCEPT !.writes = @ - 1]
  <2>1. IsConn(conns[c])
    BY ZenonT(30) DEF WorkInv, ConnShape
  <2>2. IsConn(k) /\ Same(k, conns[c])
    BY <2>1, SMTT(30) DEF IsConn, Fields, NoConn, Same
  <2>3. IsConn(d) /\ Same(d, conns[c])
    BY <2>1, SMTT(30) DEF IsConn, Fields, NoConn, Same
  <2>4. Put(c, Respond(k)) \/ Put(c, Closed(conns[c])) \/ Put(c, Closed(d))
    BY <1>2, ZenonT(30) DEF ReadBad, ReadEnd, ConnTimeout, WriteDone
  <2>. HIDE DEF k, d
  <2>5. Same(Respond(k), conns[c]) /\ Same(Closed(conns[c]), conns[c]) /\ Same(Closed(d), conns[c])
    BY <2>1, <2>2, <2>3, AnswerSame, ZenonT(30) DEF Same
  <2>. QED  BY <2>4, <2>5, PutSame, ZenonT(30)
<1>3. ASSUME NEW c \in Conn, HandleClosed(c) PROVE AsRequested
  <2>. DEFINE k == [conns[c] EXCEPT !.handles = @ - 1]
  <2>1. Put(c, k) \/ Put(c, NoConn)
    BY <1>3, ZenonT(30) DEF HandleClosed
  <2>2. Same(k, conns[c])
    BY SMTT(30) DEF WorkInv, ConnShape, IsConn, Fields, NoConn, Same
  <2>3. CASE Put(c, NoConn)
    <3>1. conns'[c] = NoConn /\ \A e \in Conn : e # c => conns'[e] = conns[e]
      BY <2>3, SMTT(30) DEF WorkInv, ConnShape, Put
    <3>2. NoConn.st # "open"
      BY SMTT(30) DEF NoConn
    <3>. QED  BY <3>1, <3>2, ZenonT(30) DEF AsRequested, Same
  <2>. HIDE DEF k
  <2>. QED  BY <2>1, <2>2, <2>3, PutSame, ZenonT(30)
<1>4. ASSUME NEW q \in todo, Accept(q) PROVE AsRequested
  <2>. DEFINE c == CHOOSE x \in setup.conns : conns[x].st = "none"
              k == [NoConn EXCEPT !.request = q, !.st = "open", !.reading = TRUE, !.handles = 2]
  <2>1. k.request = q /\ [k EXCEPT !.st = "closing", !.handles = 1].request = q
    BY SMTT(30) DEF NoConn
  <2>2. \E r : r.request = q /\ Put(c, r)
    BY <1>4, <2>1, ZenonT(30) DEF Accept
  <2>. HIDE DEF c, k
  <2>3. PICK r : r.request = q /\ Put(c, r)
    BY <2>2, ZenonT(30)
  <2>4. \A e \in Conn : conns'[e] = r \/ conns'[e] = conns[e]
    BY <2>3, ZenonT(30) DEF WorkInv, ConnShape, Put
  <2>. QED  BY <2>3, <2>4, ZenonT(30) DEF AsRequested, Same
<1>5. ASSUME NEW i \in WorkId, WorkDone(i) PROVE AsRequested
  <2>1. CASE works[i].who \notin Conn
    <3>1. conns' = conns
      BY <1>5, <2>1, ZenonT(30) DEF WorkDone
    <3>. QED  BY <3>1, ZenonT(30) DEF AsRequested, Same
  <2>2. CASE works[i].who \in Conn
    <3>. DEFINE c == works[i].who
                k == [conns[c] EXCEPT !.pending = None]
    <3>1. Dispatch(c, k, LevelAfter(works[i]), works[i].user)
      BY <1>5, <2>2, ZenonT(30) DEF WorkDone
    <3>2. IsConn(k) /\ Same(k, conns[c])
      BY <2>2, SMTT(30) DEF WorkInv, ConnShape, IsConn, Fields, NoConn, Same
    <3>3. Put(c, k) \/ Put(c, Respond(k)) \/ Put(c, Respond401(k))
      <4>. HIDE DEF c, k
      <4>. QED  BY <3>1, SMTT(30) DEF Dispatch
    <3>. HIDE DEF k
    <3>4. Same(Respond(k), conns[c]) /\ Same(Respond401(k), conns[c])
      BY <3>2, AnswerSame, ZenonT(30) DEF Same
    <3>. QED  BY <2>2, <3>2, <3>3, <3>4, PutSame, ZenonT(30)
  <2>. QED  BY <2>1, <2>2, ZenonT(30)
<1>6. CASE Shutdown
  <2>1. \A c \in Conn : conns'[c] = Closed(conns[c]) /\ IsConn(conns[c])
    BY <1>6, ZenonT(30) DEF Shutdown, WorkInv, ConnShape
  <2>. QED  BY <2>1, AnswerSame, ZenonT(30) DEF AsRequested
<1>7. CASE Crash
  <2>1. NoConn.st # "open"
    BY SMTT(30) DEF NoConn
  <2>. QED  BY <1>7, <2>1, ZenonT(30) DEF Crash, AsRequested
<1>8. CASE \/ \E q \in todo : AmqpLogin(q)
           \/ \E i \in WorkId : AmqpGone(i)
           \/ \E x \in Loop : LoopTurn(x)
           \/ Tick \/ Damage \/ Attach \/ Commit \/ ApplyOp \/ LeaderKnown \/ LeaderLost
           \/ BecomeLeader
  <2>1. conns' = conns
    BY <1>8, SMTT(30) DEF AmqpLogin, AmqpGone, LoopTurn, Tick, Damage, Attach, Commit, ApplyOp,
                          LeaderKnown, LeaderLost, BecomeLeader, OnRaft
  <2>. QED  BY <2>1, ZenonT(30) DEF AsRequested, Same
<1>9. ASSUME NEW c \in Conn, HandleMgmt(c) PROVE AsRequested
  <2>1. IsConn(conns[c])
    BY ZenonT(30) DEF WorkInv, ConnShape
  <2>2. Put(c, Respond(conns[c]))
    BY <1>9, ZenonT(30) DEF HandleMgmt
  <2>. QED  BY <2>1, <2>2, AnswerSame, PutSame, ZenonT(30)
<1>. QED
  BY <1>1, <1>2, <1>3, <1>4, <1>5, <1>6, <1>7, <1>8, <1>9, ZenonT(30) DEF Next

\* No password check starts: what is under way was so before.
NoneStarts ==
    \A i \in WorkId : works'[i] # None =>
        /\ works[i] # None /\ {"key", "start"} \subseteq DOMAIN works'[i]
        /\ works'[i].key = works[i].key /\ works'[i].start = works[i].start

\* A check may start for key k at time t, if k need not wait.
MayStart(k, t) ==
    \A i \in WorkId : works'[i] # None =>
        \/ works'[i] = works[i]
        \/ /\ ~MustWait(k, t) /\ {"key", "start"} \subseteq DOMAIN works'[i]
           /\ works'[i].key = k /\ works'[i].start = t

\* Every way in which a step can touch the limiter.
LimiterStep ==
    \/ UNCHANGED <<tab, fails>> /\ NoneStarts
    \/ \E k \in Key, t \in Times :
        tab' = Checked(k, t) /\ fails' = CheckNoted(k, t) /\ MayStart(k, t)
    \/ \E k \in Key, t \in Times : RecordFailure(k, t) /\ NoneStarts
    \/ \E k \in Key : RecordSuccess(k) /\ NoneStarts
    \/ tab' = [k \in Key |-> None] /\ fails' = [k \in Key |-> NoFails] /\ NoneStarts

\* Nothing happens to the checks, or one of them ends.
LEMMA NoneStartsNow ==
    ASSUME WorkInv, Keyed, \A i \in WorkId : works'[i] = works[i] \/ works'[i] = None
    PROVE  NoneStarts
BY ZenonT(30) DEF Keyed, NoneStarts

\* A check begins, or not, for a key that need not wait.
LEMMA BeginMayStart ==
    ASSUME WorkInv, NEW k, NEW loop, NEW who, NEW cred, ~MustWait(k, now[loop]),
           works' = [works EXCEPT ![FreeWork] = Work(loop, who, k, cred)]
    PROVE  MayStart(k, now[loop])
<1>. DEFINE w == Work(loop, who, k, cred)
<1>1. {"key", "start"} \subseteq DOMAIN w /\ w.key = k /\ w.start = now[loop]
  BY SMTT(30) DEF Work
<1>. HIDE DEF w
<1>2. \A i \in WorkId : works'[i] = w \/ works'[i] = works[i]
  BY ZenonT(30) DEF w, WorkInv, WorkShape
<1>. QED  BY <1>1, <1>2, ZenonT(30) DEF MayStart

\* on_http_read() of a whole request.
LEMMA ReadLimited ==
    ASSUME LimitInv, NEW c \in Conn, Read(c)
    PROVE  LimiterStep
<1>. DEFINE k == [conns[c] EXCEPT !.looks = @ + 1]
            t == now["http"]
<1>1. k.request = conns[c].request
  BY SMTT(30) DEF LimitInv, WorkInv, ConnShape, IsConn, Fields, NoConn
<1>2. HandleRequest(c, k) /\ conns[c].st = "open"
  BY ZenonT(30) DEF Read
<1>3. k.request.key \in Key
  <2>. HIDE DEF k
  <2>. QED  BY <1>1, <1>2, ZenonT(30) DEF LimitInv, Keyed
<1>. HIDE DEF k
<1>4. t \in Times
  BY SMTT(30) DEF LimitInv, Clocks, Loop
<1>5. CASE UNCHANGED limiter
  BY <1>5, NoneStartsNow, ZenonT(30) DEF LimitInv, LimiterStep, limiter
<1>6. CASE CheckPassword(c, k)
  <2>1. tab' = Checked(k.request.key, t) /\ fails' = CheckNoted(k.request.key, t)
    BY <1>6, ZenonT(30) DEF CheckPassword
  <2>2. MayStart(k.request.key, t)
    <3>1. CASE works' = works
      BY <3>1, ZenonT(30) DEF MayStart
    <3>2. CASE /\ ~MustWait(k.request.key, t)
               /\ Begin(Work("http", c, k.request.key, k.request.cred))
      BY <3>2, BeginMayStart, ZenonT(30) DEF LimitInv, Begin
    <3>. QED  BY <1>6, <3>1, <3>2, ZenonT(30) DEF CheckPassword
  <2>. QED  BY <1>3, <1>4, <2>1, <2>2, ZenonT(30) DEF LimiterStep
<1>7. UNCHANGED limiter \/ CheckPassword(c, k)
  BY <1>2, ZenonT(30) DEF HandleRequest
<1>. QED  BY <1>5, <1>6, <1>7, ZenonT(30)

\* Connection.StartOk of an AMQP connection.
LEMMA AmqpLoginLimited ==
    ASSUME LimitInv, NEW q \in todo, AmqpLogin(q)
    PROVE  LimiterStep
<1>. DEFINE t == now["amqp"]
<1>1. q.key \in Key
  BY AdminAssumption, ZenonT(30) DEF LimitInv, Keyed
<1>2. t \in Times
  BY SMTT(30) DEF LimitInv, Clocks, Loop
<1>3. CASE UNCHANGED limiter
  BY <1>3, NoneStartsNow, ZenonT(30) DEF LimitInv, LimiterStep, limiter
<1>4. CASE RecordFailure(q.key, t) /\ works' = works
  BY <1>1, <1>2, <1>4, NoneStartsNow, ZenonT(30) DEF LimitInv, LimiterStep
<1>5. CASE /\ tab' = Checked(q.key, t) /\ fails' = CheckNoted(q.key, t)
           /\ \/ works' = works
              \/ ~MustWait(q.key, t) /\ Begin(Work("amqp", "amqp", q.key, q.cred))
  <2>1. MayStart(q.key, t)
    <3>1. CASE works' = works
      BY <3>1, ZenonT(30) DEF MayStart
    <3>2. CASE ~MustWait(q.key, t) /\ Begin(Work("amqp", "amqp", q.key, q.cred))
      BY <3>2, BeginMayStart, ZenonT(30) DEF LimitInv, Begin
    <3>. QED  BY <1>5, <3>1, <3>2, ZenonT(30)
  <2>. QED  BY <1>1, <1>2, <1>5, <2>1, ZenonT(30) DEF LimiterStep
<1>. QED  BY <1>3, <1>4, <1>5, ZenonT(30) DEF AmqpLogin

\* A check is detached from a connection that goes.
LEMMA DetachedStarts ==
    ASSUME Keyed, NEW i \in WorkId, works[i] # None, works'[i] = [works[i] EXCEPT !.who = None]
    PROVE  /\ {"key", "start"} \subseteq DOMAIN works'[i]
           /\ works'[i].key = works[i].key /\ works'[i].start = works[i].start
<1>1. {"key", "start"} \subseteq DOMAIN works[i]
  BY ZenonT(30) DEF Keyed
<1>. QED  BY <1>1, SMTT(30)

\* The classification, for every step.
LEMMA LimiterSteps ==
    ASSUME LimitInv, Next
    PROVE  LimiterStep
<1>0. WorkInv /\ Keyed
  BY ZenonT(30) DEF LimitInv
<1>1. ASSUME NEW c \in Conn, Read(c) PROVE LimiterStep
  BY <1>1, ReadLimited, ZenonT(30)
<1>2. ASSUME NEW q \in todo, AmqpLogin(q) PROVE LimiterStep
  BY <1>2, AmqpLoginLimited, ZenonT(30)
<1>3. ASSUME NEW c \in Conn, HandleClosed(c) PROVE LimiterStep
  <2>1. UNCHANGED <<tab, fails>> /\ (works' = works \/ works' = Detached(c))
    BY <1>3, ZenonT(30) DEF HandleClosed
  <2>2. CASE works' = works
    BY <1>0, <2>1, <2>2, NoneStartsNow, ZenonT(30) DEF LimiterStep
  <2>3. CASE works' = Detached(c)
    <3>1. \A i \in WorkId : works'[i] = IF works[i] # None /\ works[i].who = c
                                        THEN [works[i] EXCEPT !.who = None] ELSE works[i]
      BY <2>3, ZenonT(30) DEF Detached
    <3>2. ASSUME NEW i \in WorkId, works'[i] # None
          PROVE  /\ works[i] # None /\ {"key", "start"} \subseteq DOMAIN works'[i]
                 /\ works'[i].key = works[i].key /\ works'[i].start = works[i].start
      <4>1. CASE works'[i] = works[i]
        BY <1>0, <3>2, <4>1, ZenonT(30) DEF Keyed
      <4>2. CASE works[i] # None /\ works'[i] = [works[i] EXCEPT !.who = None]
        BY <1>0, <4>2, DetachedStarts, ZenonT(30)
      <4>. QED  BY <3>1, <4>1, <4>2, ZenonT(30)
    <3>. QED  BY <2>1, <3>2, ZenonT(30) DEF LimiterStep, NoneStarts
  <2>. QED  BY <2>1, <2>2, <2>3, ZenonT(30)
<1>4. ASSUME NEW i \in WorkId, AmqpGone(i) PROVE LimiterStep
  <2>1. /\ UNCHANGED <<tab, fails>> /\ works[i] # None
        /\ works' = [works EXCEPT ![i] = [works[i] EXCEPT !.who = None]]
    BY <1>4, ZenonT(30) DEF AmqpGone
  <2>2. works'[i] = [works[i] EXCEPT !.who = None] /\ \A j \in WorkId : j # i => works'[j] = works[j]
    BY <1>0, <2>1, ZenonT(30) DEF WorkInv, WorkShape
  <2>3. ASSUME NEW j \in WorkId, works'[j] # None
        PROVE  /\ works[j] # None /\ {"key", "start"} \subseteq DOMAIN works'[j]
               /\ works'[j].key = works[j].key /\ works'[j].start = works[j].start
    <3>1. CASE j = i
      BY <1>0, <2>1, <2>2, <3>1, DetachedStarts, ZenonT(30)
    <3>2. CASE j # i
      BY <1>0, <2>2, <2>3, <3>2, ZenonT(30) DEF Keyed
    <3>. QED  BY <3>1, <3>2, ZenonT(30)
  <2>. QED  BY <2>1, <2>3, ZenonT(30) DEF LimiterStep, NoneStarts
<1>5. ASSUME NEW i \in WorkId, WorkDone(i) PROVE LimiterStep
  <2>1. works[i] # None /\ works' = [works EXCEPT ![i] = None]
    BY <1>5, ZenonT(30) DEF WorkDone
  <2>2. NoneStarts
    <3>1. \A j \in WorkId : works'[j] = works[j] \/ works'[j] = None
      BY <1>0, <2>1, ZenonT(30) DEF WorkInv, WorkShape
    <3>. QED  BY <1>0, <3>1, NoneStartsNow, ZenonT(30)
  <2>3. works[i].key \in Key /\ works[i].start \in Times
    BY <1>0, <2>1, ZenonT(30) DEF Keyed
  <2>4. \/ UNCHANGED <<tab, fails>>
        \/ RecordSuccess(works[i].key) \/ RecordFailure(works[i].key, works[i].start)
    BY <1>5, ZenonT(30) DEF WorkDone
  <2>. QED  BY <2>2, <2>3, <2>4, ZenonT(30) DEF LimiterStep
<1>6. CASE Crash
  BY <1>6, ZenonT(30) DEF Crash, LimiterStep, NoneStarts
<1>7. CASE \/ \E c \in Conn :
                ReadBad(c) \/ ReadEnd(c) \/ ConnTimeout(c) \/ WriteDone(c) \/ HandleMgmt(c)
           \/ \E q \in todo : Accept(q)
           \/ \E x \in Loop : LoopTurn(x)
           \/ Tick \/ Shutdown \/ Damage \/ Attach \/ Commit \/ ApplyOp \/ LeaderKnown
           \/ LeaderLost \/ BecomeLeader
  <2>1. UNCHANGED limiter
    BY <1>7, ZenonT(30)
       DEF ReadBad, ReadEnd, ConnTimeout, WriteDone, HandleMgmt, Accept, LoopTurn, Tick,
           Shutdown, Damage, Attach, Commit, ApplyOp, LeaderKnown, LeaderLost, BecomeLeader, OnRaft
  <2>2. UNCHANGED <<tab, fails>> /\ works' = works
    BY <2>1, ZenonT(30) DEF limiter
  <2>. QED  BY <1>0, <2>2, NoneStartsNow, ZenonT(30) DEF LimiterStep
<1>. QED
  BY <1>1, <1>2, <1>3, <1>4, <1>5, <1>6, <1>7, ZenonT(30) DEF Next

\* The delay of a key that must wait has its ceiling.
LEMMA DelayBounded ==
    ASSUME NEW n \in Nat
    PROVE  Delay(n) \in 0..MaxDelay
<1>. DEFINE d == BaseDelay * 2^(n - FreeAttempts - 1)
<1>1. Delay(n) = IF n <= FreeAttempts THEN 0 ELSE IF d \in 0..MaxDelay THEN d ELSE MaxDelay
  BY ZenonT(30) DEF Delay
<1>. HIDE DEF d
<1>. QED  BY <1>1, AdminAssumption, SMTT(30)

\* Within the times of a scenario the unsigned difference does not wrap.
LEMMA SinceExact ==
    ASSUME setup \in Scenarios, NEW t \in Times, NEW last \in Times, t >= last
    PROVE  Since(t, last) = t - last
<1>1. setup.until \in Nat /\ Wrap \in Nat /\ IdleReset \in Nat /\ Wrap > setup.until + IdleReset
  BY AdminAssumption, SMTT(30)
<1>. QED  BY <1>1, SMTT(30) DEF Since, Times

\* What the table holds of a key, and what the history says.
Agrees(e, h) ==
    /\ e # None => h.n > 0 /\ e.last = h.last
    /\ h.sound = TRUE =>
        e = IF h.n = 0 THEN None
            ELSE [failures |-> h.n, last |-> h.last, next |-> h.last + Delay(h.n)]

\* The history of a key.
History == [n : Nat, last : Times, sound : BOOLEAN]

\* A history that is no longer sound.
LEMMA Unsound ==
    ASSUME NEW h \in History
    PROVE  LET g == [h EXCEPT !.sound = FALSE]
           IN g \in History /\ g.n = h.n /\ g.last = h.last /\ g.sound = FALSE
<1>1. DOMAIN h = {"n", "last", "sound"}
  BY SMTT(30) DEF History
<1>. QED  BY <1>1, ZenonT(30) DEF History

\* The invariant, key by key.
LEMMA TalliedMeaning ==
    Tallied <=> /\ DOMAIN tab = Key
                /\ fails \in [Key -> History]
                /\ \A k \in Key : Agrees(tab[k], fails[k])
BY ZenonT(30) DEF Tallied, History, Agrees

\* A key that never failed.
LEMMA NoFailsAgree ==
    ASSUME setup \in Scenarios
    PROVE  NoFails \in History /\ Agrees(None, NoFails)
<1>1. setup.until \in Nat
  BY AdminAssumption, SMTT(30)
<1>. QED  BY <1>1, SMTT(30) DEF NoFails, History, Agrees, Times

\* A key whose history is sound and has failures is in the table.
LEMMA SoundEntry ==
    ASSUME setup \in Scenarios, NEW h \in History, h.n > 0, h.sound = TRUE, NEW e, Agrees(e, h)
    PROVE  /\ e # None
           /\ e.failures = h.n /\ e.last = h.last /\ e.next = h.last + Delay(h.n)
<1>1. h.n \in Nat /\ h.last \in Nat
  <2>1. setup.until \in Nat  BY AdminAssumption, SMTT(30)
  <2>. QED  BY <2>1, SMTT(30) DEF History, Times
<1>2. e = [failures |-> h.n, last |-> h.last, next |-> h.last + Delay(h.n)]
  BY <1>1, SMTT(30) DEF Agrees
<1>3. Delay(h.n) \in 0..MaxDelay
  BY <1>1, DelayBounded, ZenonT(30)
<1>4. h.last + Delay(h.n) \in Nat
  BY <1>1, <1>3, AdminAssumption, SMTT(30)
<1>5. e \in Entry
  BY <1>1, <1>2, <1>4, SMTT(30) DEF Entry
<1>6. e # None
  BY <1>5, AdminAssumption, ZenonT(30)
<1>. QED  BY <1>2, <1>6, SMTT(30)

\* authlimit_retry_after_ms() forgets an entry when its history is over.
LEMMA CheckAgrees ==
    ASSUME setup \in Scenarios, Tallied, NEW k \in Key, NEW t \in Times
    PROVE  CheckNoted(k, t)[k] \in History /\ Agrees(Checked(k, t)[k], CheckNoted(k, t)[k])
<1>. DEFINE h == fails[k]
<1>1. h \in History /\ Agrees(tab[k], h)
  BY TalliedMeaning, ZenonT(30)
<1>2. CheckNoted(k, t)[k] = IF h.n = 0 THEN h
                            ELSE IF t < h.last THEN [h EXCEPT !.sound = FALSE]
                            ELSE IF t - h.last > IdleReset THEN NoFails ELSE h
  BY TalliedMeaning, ZenonT(30) DEF CheckNoted
<1>3. Checked(k, t)[k] = IF Stale(k, t) THEN None ELSE tab[k]
  BY TalliedMeaning, ZenonT(30) DEF Checked
<1>4. h.n \in Nat /\ h.last \in Times /\ t \in Nat /\ h.last \in Nat
  <2>1. setup.until \in Nat  BY AdminAssumption, SMTT(30)
  <2>. QED  BY <1>1, <2>1, SMTT(30) DEF History, Times
<1>. HIDE DEF h
<1>5. CASE h.n = 0
  <2>1. tab[k] = None
    BY <1>1, <1>5, SMTT(30) DEF Agrees
  <2>2. Checked(k, t)[k] = tab[k]
    BY <1>3, <2>1, ZenonT(30)
  <2>. QED  BY <1>1, <1>2, <1>5, <2>2, ZenonT(30)
<1>6. CASE h.n # 0 /\ t < h.last
  <2>. DEFINE g == [h EXCEPT !.sound = FALSE]
  <2>1. g \in History /\ g.n = h.n /\ g.last = h.last /\ g.sound = FALSE
    BY <1>1, Unsound, ZenonT(30)
  <2>2. CheckNoted(k, t)[k] = g
    BY <1>2, <1>6, ZenonT(30)
  <2>. HIDE DEF g
  <2>3. Agrees(tab[k], g) /\ Agrees(None, g)
    BY <1>1, <2>1, ZenonT(30) DEF Agrees
  <2>. QED  BY <1>3, <2>1, <2>2, <2>3, ZenonT(30)
<1>7. CASE h.n # 0 /\ ~(t < h.last)
  <2>1. Since(t, h.last) = t - h.last
    BY <1>4, <1>7, SinceExact, SMTT(30)
  <2>2. tab[k] # None => (Stale(k, t) <=> t - h.last > IdleReset)
    BY <1>1, <2>1, ZenonT(30) DEF Stale, Agrees
  <2>3. CASE t - h.last > IdleReset
    <3>1. Checked(k, t)[k] = None
      BY <1>3, <2>2, <2>3, ZenonT(30)
    <3>2. CheckNoted(k, t)[k] = NoFails
      BY <1>2, <1>7, <2>3, ZenonT(30)
    <3>. QED  BY <3>1, <3>2, NoFailsAgree, ZenonT(30)
  <2>4. CASE ~(t - h.last > IdleReset)
    <3>1. Checked(k, t)[k] = tab[k]
      BY <1>3, <2>2, <2>4, ZenonT(30)
    <3>2. CheckNoted(k, t)[k] = h
      BY <1>2, <1>7, <2>4, ZenonT(30)
    <3>. QED  BY <1>1, <3>1, <3>2, ZenonT(30)
  <2>. QED  BY <2>3, <2>4, ZenonT(30)
<1>. QED  BY <1>5, <1>6, <1>7, ZenonT(30)

\* authlimit_record_failure(): the entry counts what the history counts.
LEMMA FailureAgrees ==
    ASSUME setup \in Scenarios, Tallied, NEW k \in Key, NEW t \in Times, RecordFailure(k, t)
    PROVE  fails'[k] \in History /\ Agrees(tab'[k], fails'[k])
<1>. DEFINE h == fails[k]
            m == IF h.n > 0 /\ t - h.last > IdleReset THEN 1 ELSE h.n + 1
            n == IF tab[k] = None \/ Stale(k, t) THEN 1 ELSE tab[k].failures + 1
<1>1. h \in History /\ Agrees(tab[k], h)
  BY TalliedMeaning, ZenonT(30)
<1>2. fails'[k] = [n |-> m, last |-> t, sound |-> h.sound /\ (h.n = 0 \/ t >= h.last)]
  BY ZenonT(30) DEF RecordFailure, FailureNoted
<1>3. tab'[k] = [failures |-> n, last |-> t, next |-> t + Delay(n)]
  BY ZenonT(30) DEF RecordFailure, Backoff
<1>4. h.n \in Nat /\ h.last \in Times /\ t \in Nat /\ h.last \in Nat /\ h.sound \in BOOLEAN
  <2>1. setup.until \in Nat  BY AdminAssumption, SMTT(30)
  <2>. QED  BY <1>1, <2>1, SMTT(30) DEF History, Times
<1>. HIDE DEF h
<1>5. m \in Nat /\ m > 0
  BY <1>4, SMTT(30)
<1>6. ASSUME h.sound = TRUE, h.n = 0 \/ t >= h.last
      PROVE  n = m
  <2>1. CASE h.n = 0
    <3>1. tab[k] = None
      BY <1>1, <2>1, SMTT(30) DEF Agrees
    <3>. QED  BY <2>1, <3>1, SMTT(30)
  <2>2. CASE h.n # 0
    <3>1. h.n > 0
      BY <1>4, <2>2, SMTT(30)
    <3>2. tab[k] # None /\ tab[k].failures = h.n /\ tab[k].last = h.last
      BY <1>1, <1>6, <3>1, SoundEntry, ZenonT(30)
    <3>3. Since(t, h.last) = t - h.last
      BY <1>4, <1>6, <2>2, SinceExact, ZenonT(30)
    <3>4. Stale(k, t) <=> t - h.last > IdleReset
      BY <3>2, <3>3, ZenonT(30) DEF Stale
    <3>. QED  BY <3>2, <3>4, <3>1, ZenonT(30)
  <2>. QED  BY <2>1, <2>2, ZenonT(30)
<1>. HIDE DEF m, n
<1>7. fails'[k] \in History
  BY <1>2, <1>4, <1>5, SMTT(30) DEF History
<1>8. fails'[k].n = m /\ fails'[k].last = t
      /\ (fails'[k].sound = TRUE => h.sound = TRUE /\ (h.n = 0 \/ t >= h.last))
  <2>1. PICK b : b = (h.sound /\ (h.n = 0 \/ t >= h.last))
    OBVIOUS
  <2>2. fails'[k] = [n |-> m, last |-> t, sound |-> b]
    BY <1>2, <2>1, ZenonT(30)
  <2>3. fails'[k].n = m /\ fails'[k].last = t /\ fails'[k].sound = b
    BY <2>2, SMTT(30)
  <2>4. h.sound = TRUE \/ h.sound = FALSE
    BY <1>4, ZenonT(30)
  <2>. QED  BY <2>1, <2>3, <2>4, ZenonT(30)
<1>9. tab'[k].last = t
  BY <1>3, SMTT(30)
<1>10. m # 0
  BY <1>5, SMTT(30)
<1>. QED  BY <1>3, <1>5, <1>6, <1>7, <1>8, <1>9, <1>10, ZenonT(30) DEF Agrees

\* Every way in which a step touches the limiter keeps table and history in
\* agreement; an entry that is evicted leaves no sound history.
LEMMA TalliedKept ==
    ASSUME setup \in Scenarios, setup' = setup, Tallied, LimiterStep
    PROVE  Tallied'
<1>0. /\ DOMAIN tab = Key /\ fails \in [Key -> History]
      /\ \A k \in Key : fails[k] \in History /\ Agrees(tab[k], fails[k])
  BY TalliedMeaning, ZenonT(30)
<1>. SUFFICES /\ DOMAIN tab' = Key
              /\ fails' \in [Key -> History]
              /\ \A k \in Key : Agrees(tab'[k], fails'[k])
  BY ZenonT(30) DEF Tallied, History, Agrees, Times
<1>1. CASE UNCHANGED <<tab, fails>>
  BY <1>0, <1>1, ZenonT(30)
<1>2. ASSUME NEW k \in Key, NEW t \in Times, tab' = Checked(k, t), fails' = CheckNoted(k, t)
      PROVE  /\ DOMAIN tab' = Key
             /\ fails' \in [Key -> History]
             /\ \A j \in Key : Agrees(tab'[j], fails'[j])
  <2>1. DOMAIN tab' = Key /\ \A j \in Key : j # k => tab'[j] = tab[j]
    BY <1>0, <1>2, ZenonT(30) DEF Checked
  <2>2. fails'[k] \in History /\ Agrees(tab'[k], fails'[k])
    BY <1>2, CheckAgrees, ZenonT(30)
  <2>3. fails' = [fails EXCEPT ![k] = fails'[k]]
    BY <1>0, <1>2, ZenonT(30) DEF CheckNoted
  <2>4. fails' \in [Key -> History] /\ \A j \in Key : j # k => fails'[j] = fails[j]
    BY <1>0, <2>2, <2>3, ZenonT(30)
  <2>. QED  BY <1>0, <2>1, <2>2, <2>4, ZenonT(30)
<1>3. ASSUME NEW k \in Key, NEW t \in Times, RecordFailure(k, t)
      PROVE  /\ DOMAIN tab' = Key
             /\ fails' \in [Key -> History]
             /\ \A j \in Key : Agrees(tab'[j], fails'[j])
  <2>1. DOMAIN tab' = Key /\ DOMAIN fails' = Key
    BY <1>3, ZenonT(30) DEF RecordFailure, FailureNoted
  <2>2. fails'[k] \in History /\ Agrees(tab'[k], fails'[k])
    BY <1>3, FailureAgrees, ZenonT(30)
  <2>3. ASSUME NEW j \in Key, j # k
        PROVE  fails'[j] \in History /\ Agrees(tab'[j], fails'[j])
    <3>1. CASE j \in Evicted(k)
      <4>1. tab'[j] = None
        BY <1>3, <2>3, <3>1, ZenonT(30) DEF RecordFailure
      <4>2. fails'[j] = [fails[j] EXCEPT !.sound = FALSE]
        BY <1>3, <2>3, <3>1, ZenonT(30) DEF RecordFailure, FailureNoted
      <4>3. fails'[j] \in History /\ fails'[j].sound = FALSE
        <5>1. fails[j] \in History  BY <1>0, ZenonT(30)
        <5>. QED  BY <4>2, <5>1, Unsound, ZenonT(30)
      <4>. QED  BY <4>1, <4>3, ZenonT(30) DEF Agrees
    <3>2. CASE j \notin Evicted(k)
      <4>1. tab'[j] = tab[j]
        BY <1>3, <2>3, <3>2, ZenonT(30) DEF RecordFailure
      <4>2. fails'[j] = fails[j]
        BY <1>3, <2>3, <3>2, ZenonT(30) DEF RecordFailure, FailureNoted
      <4>. QED  BY <1>0, <4>1, <4>2, ZenonT(30)
    <3>. QED  BY <3>1, <3>2, ZenonT(30)
  <2>4. fails' = [j \in Key |-> fails'[j]]
    BY <1>3, ZenonT(30) DEF RecordFailure, FailureNoted
  <2>. QED  BY <2>1, <2>2, <2>3, <2>4, ZenonT(30)
<1>4. ASSUME NEW k \in Key, RecordSuccess(k)
      PROVE  /\ DOMAIN tab' = Key
             /\ fails' \in [Key -> History]
             /\ \A j \in Key : Agrees(tab'[j], fails'[j])
  <2>1. tab' = [tab EXCEPT ![k] = None] /\ fails' = [fails EXCEPT ![k] = NoFails]
    BY <1>4, ZenonT(30) DEF RecordSuccess
  <2>. QED  BY <1>0, <2>1, NoFailsAgree, ZenonT(30)
<1>5. CASE tab' = [k \in Key |-> None] /\ fails' = [k \in Key |-> NoFails]
  BY <1>5, NoFailsAgree, ZenonT(30)
<1>. QED  BY <1>1, <1>2, <1>3, <1>4, <1>5, ZenonT(30) DEF LimiterStep

\* A step keeps the clocks and the keys.
LEMMA KeyedKept ==
    ASSUME LimitInv, setup' = setup, Next
    PROVE  Clocks' /\ Keyed'
<1>0. setup \in Scenarios /\ WorkInv /\ Clocks /\ Keyed /\ setup.until \in Nat
  BY AdminAssumption, ZenonT(30) DEF LimitInv
<1>1. Clocks'
  <2>1. CASE Tick
    BY <1>0, <2>1, SMTT(30) DEF Tick, Clocks, Times
  <2>2. ASSUME NEW x \in Loop, LoopTurn(x) PROVE Clocks'
    BY <1>0, <2>2, ZenonT(30) DEF LoopTurn, Clocks, Times
  <2>3. CASE UNCHANGED <<time, now>>
    BY <1>0, <2>3, ZenonT(30) DEF Clocks, Times
  <2>4. Tick \/ (\E x \in Loop : LoopTurn(x)) \/ UNCHANGED <<time, now>>
    BY ZenonT(30)
       DEF Next, Read, ReadBad, ReadEnd, ConnTimeout, WriteDone, HandleClosed, HandleMgmt,
           Accept, AmqpLogin, AmqpGone, WorkDone, Shutdown, Damage, Crash, Attach, Commit, ApplyOp, LeaderKnown,
           LeaderLost, BecomeLeader, OnRaft
  <2>. QED  BY <2>1, <2>2, <2>3, <2>4, ZenonT(30)
<1>2. todo' \subseteq setup.requests
  <2>1. todo' \subseteq todo
    BY ZenonT(30)
       DEF Next, Read, ReadBad, ReadEnd, ConnTimeout, WriteDone, HandleClosed, HandleMgmt,
           Accept, AmqpLogin, AmqpGone, WorkDone, LoopTurn, Tick, Shutdown, Damage, Crash, Attach, Commit, ApplyOp,
           LeaderKnown, LeaderLost, BecomeLeader, OnRaft
  <2>. QED  BY <1>0, <2>1, ZenonT(30) DEF Keyed
<1>3. ASSUME NEW c \in Conn, conns'[c].st = "open"
      PROVE  conns'[c].request.key \in Key
  <2>1. Same(conns'[c], conns[c]) \/ conns'[c].request \in todo
    BY <1>0, <1>3, RequestStep, ZenonT(30) DEF AsRequested
  <2>2. CASE Same(conns'[c], conns[c])
    BY <1>0, <1>3, <2>2, ZenonT(30) DEF Same, Keyed
  <2>3. CASE conns'[c].request \in todo
    BY <1>0, <2>3, AdminAssumption, ZenonT(30) DEF Keyed
  <2>. QED  BY <2>1, <2>2, <2>3, ZenonT(30)
<1>4. ASSUME NEW i \in WorkId, works'[i] # None
      PROVE  /\ {"key", "start"} \subseteq DOMAIN works'[i]
             /\ works'[i].key \in Key /\ works'[i].start \in Times
  <2>1. NoneStarts \/ \E k \in Key, t \in Times : MayStart(k, t)
    BY LimiterSteps, ZenonT(30) DEF LimiterStep
  <2>2. CASE NoneStarts
    BY <1>0, <1>4, <2>2, ZenonT(30) DEF NoneStarts, Keyed
  <2>3. ASSUME NEW k \in Key, NEW t \in Times, MayStart(k, t)
        PROVE  /\ {"key", "start"} \subseteq DOMAIN works'[i]
               /\ works'[i].key \in Key /\ works'[i].start \in Times
    BY <1>0, <1>4, <2>3, ZenonT(30) DEF MayStart, Keyed
  <2>. QED  BY <2>1, <2>2, <2>3, ZenonT(30)
<1>5. Keyed'
  BY <1>2, <1>3, <1>4, ZenonT(30) DEF Keyed, Times, WorkId
<1>. QED  BY <1>1, <1>5, ZenonT(30)

\* The invariant holds when the broker starts, and every step preserves it.
LEMMA LimitInvInit == Init => LimitInv
<1>. SUFFICES ASSUME Init PROVE LimitInv
  BY ZenonT(30)
<1>1. WorkInv /\ setup \in Scenarios
  BY WorkInvInit, ZenonT(30)
<1>2. setup.until \in Nat
  BY <1>1, AdminAssumption, ZenonT(30)
<1>3. 0 \in Times
  BY <1>2, SMTT(30) DEF Times
<1>4. Clocks
  BY <1>3, ZenonT(30) DEF Init, Clocks
<1>5. Keyed
  <2>1. NoConn.st # "open"
    BY SMTT(30) DEF NoConn
  <2>. QED  BY <2>1, ZenonT(30) DEF Init, Keyed
<1>6. Tallied
  <2>1. tab = [k \in Key |-> None] /\ fails = [k \in Key |-> NoFails]
    BY ZenonT(30) DEF Init
  <2>. QED  BY <1>1, <2>1, NoFailsAgree, TalliedMeaning, ZenonT(30)
<1>. QED  BY <1>1, <1>4, <1>5, <1>6, ZenonT(30) DEF LimitInv

\* Every step preserves it.
LEMMA LimitInvNext == LimitInv /\ [Next]_vars => LimitInv'
<1>. SUFFICES ASSUME LimitInv, [Next]_vars PROVE LimitInv'
  BY ZenonT(30)
<1>1. setup' = setup
  BY SetupFixed, ZenonT(30)
<1>2. WorkInv'
  BY WorkInvNext, ZenonT(30) DEF LimitInv
<1>3. CASE Next
  <2>1. Clocks' /\ Keyed'
    BY <1>1, <1>3, KeyedKept, ZenonT(30)
  <2>2. Tallied'
    BY <1>1, <1>3, LimiterSteps, TalliedKept, ZenonT(30) DEF LimitInv
  <2>. QED  BY <1>1, <1>2, <2>1, <2>2, ZenonT(30) DEF LimitInv
<1>4. CASE UNCHANGED vars
  BY <1>2, <1>4, ZenonT(30)
     DEF vars, limiter, LimitInv, Clocks, Keyed, Tallied, Times, WorkId
<1>. QED  BY <1>3, <1>4, ZenonT(30)

\* authlimit_retry_after_ms() lets a key through no sooner than the backoff that
\* authlimit_record_failure() set for it, or once the entry is stale, which is
\* later still.
THEOREM BackoffKept == Spec => BackoffHolds
<1>. DEFINE A == \A i \in WorkId : Started(i) /\ fails[works'[i].key].sound
                    /\ works'[i].start >= fails[works'[i].key].last =>
                        Backed(fails[works'[i].key], works'[i].start)
<1>1. ASSUME LimitInv, Next, NEW i \in WorkId, Started(i), fails[works'[i].key].sound,
             works'[i].start >= fails[works'[i].key].last
      PROVE  Backed(fails[works'[i].key], works'[i].start)
  <2>0. setup \in Scenarios /\ Tallied
    BY <1>1, ZenonT(30) DEF LimitInv
  <2>1. ~NoneStarts
    BY <1>1, ZenonT(30) DEF Started, NoneStarts
  <2>2. PICK k \in Key, t \in Times : MayStart(k, t)
    BY <1>1, <2>1, LimiterSteps, ZenonT(30) DEF LimiterStep
  <2>3. ~MustWait(k, t) /\ works'[i].key = k /\ works'[i].start = t
    BY <1>1, <2>2, ZenonT(30) DEF MayStart, Started
  <2>. DEFINE h == fails[k]
  <2>4. h \in History /\ Agrees(tab[k], h)
    BY <2>0, TalliedMeaning, ZenonT(30)
  <2>5. h.n \in Nat /\ h.last \in Times /\ h.sound \in BOOLEAN
    BY <2>4, SMTT(30) DEF History
  <2>6. h.sound = TRUE /\ t >= h.last
    BY <1>1, <2>3, <2>5, ZenonT(30)
  <2>7. setup.until \in Nat
    BY <2>0, AdminAssumption, ZenonT(30)
  <2>. HIDE DEF h
  <2>8. ASSUME h.n > FreeAttempts
        PROVE  t >= h.last + Delay(h.n)
    <3>1. h.n > 0
      BY <2>5, <2>8, AdminAssumption, SMTT(30)
    <3>2. tab[k] # None /\ tab[k].last = h.last /\ tab[k].next = h.last + Delay(h.n)
      BY <2>0, <2>4, <2>6, <3>1, SoundEntry, ZenonT(30)
    <3>3. Delay(h.n) \in 0..MaxDelay
      BY <2>5, DelayBounded, ZenonT(30)
    <3>4. CASE Stale(k, t)
      <4>1. Since(t, h.last) = t - h.last
        BY <2>0, <2>5, <2>6, SinceExact, ZenonT(30)
      <4>2. t - h.last > IdleReset
        BY <3>2, <3>4, <4>1, ZenonT(30) DEF Stale
      <4>. QED  BY <2>5, <2>7, <3>3, <4>2, AdminAssumption, SMTT(30) DEF Times
    <3>5. CASE ~Stale(k, t)
      <4>1. ~(h.last + Delay(h.n) > t)
        BY <2>3, <3>2, <3>5, ZenonT(30) DEF MustWait
      <4>. QED  BY <2>5, <2>7, <3>3, <4>1, AdminAssumption, SMTT(30) DEF Times
    <3>. QED  BY <3>4, <3>5, ZenonT(30)
  <2>. QED  BY <2>3, <2>8, ZenonT(30) DEF Backed, h
<1>2. LimitInv /\ [Next]_vars => [A]_vars
  BY <1>1, ZenonT(30)
<1>. QED  BY <1>2, LimitInvInit, LimitInvNext, PTL DEF Spec, BackoffHolds

-----------------------------------------------------------------------------
(* The configuration.                                                      *)

\* handle_mgmt() makes the change at hand.
Made == \E c \in Conn : HandleMgmt(c)

\* A change is at hand, wanted by somebody who may make it.
Taken ==
    /\ task'.want.op \in Change /\ task'.since = raft.applied
    /\ Authorised(store, task')
    /\ UNCHANGED settings

\* Neither a save fails nor the file is damaged.
Harmless ==
    used' = used \/ \E f \in Faults \ {"savefail", "damage"} : used' = [used EXCEPT ![f] = @ + 1]

\* The levels of users; the token's is 3.
LEMMA UserLevel == ASSUME NEW s, NEW u PROVE LevelOf(s, u) \in {-1, 1, 2}
BY DEF LevelOf

\* http_dispatch_level() goes on to a change from level 2 on.
LEMMA DispatchStep ==
    ASSUME NEW c, NEW k, NEW level, NEW who, Dispatch(c, k, level, who),
           \/ level = 3 /\ IsOpen(store)
           \/ level \in {-1, 0, 1}
           \/ level = 2 /\ LevelOf(store, who) = 2
    PROVE  used' = used /\ (Taken \/ UNCHANGED config)
<1>1. CASE Nothing
  BY <1>1, ZenonT(30) DEF Nothing
<1>2. CASE /\ level >= 2 /\ k.request.want.op \in Change
           /\ task' = [conn |-> c, want |-> k.request.want, level |-> level, by |-> who,
                       since |-> raft.applied]
           /\ UNCHANGED <<settings, used>>
  <2>1. \/ level = 3 /\ IsOpen(store)
        \/ level = 2 /\ LevelOf(store, who) = 2
    BY <1>2, SMTT(30)
  <2>2. /\ task'.want = k.request.want /\ task'.level = level /\ task'.by = who
        /\ task'.since = raft.applied
    BY <1>2, ZenonT(30)
  <2>3. Authorised(store, task')
    <3>1. 2 # 3
      BY SMTT(30)
    <3>. QED  BY <2>1, <2>2, <3>1, ZenonT(30) DEF Authorised
  <2>. QED  BY <1>2, <2>2, <2>3, ZenonT(30) DEF Taken
<1>. QED  BY <1>1, <1>2, ZenonT(30) DEF Dispatch

\* Every way in which a step can touch the configuration.
LEMMA ConfigStep ==
    ASSUME Next
    PROVE  \/ Made
           \/ Taken /\ Harmless
           \/ UNCHANGED config /\ Harmless
           \/ Damage \/ Crash
           \/ setup.cluster /\ (Attach \/ ApplyOp \/ LeaderKnown \/ BecomeLeader)
           \/ Commit \/ LeaderLost
<1>1. ASSUME NEW c \in Conn, Read(c) PROVE (Taken \/ UNCHANGED config) /\ Harmless
  <2>. DEFINE k == [conns[c] EXCEPT !.looks = @ + 1]
              level == IF k.request.token /\ token THEN 3 ELSE 0
  <2>1. HandleRequest(c, k)
    BY <1>1 DEF Read
  <2>. HIDE DEF k
  <2>2. CASE IsOpen(store) /\ Dispatch(c, k, level, None)
    <3>1. level = 3 \/ level = 0
      OBVIOUS
    <3>. HIDE DEF level
    <3>. QED  BY <2>2, <3>1, DispatchStep, ZenonT(30) DEF Harmless
  <2>3. CASE Nothing
    BY <2>3, ZenonT(30) DEF Nothing, Harmless
  <2>4. CASE CheckPassword(c, k)
    BY <2>4, ZenonT(30) DEF CheckPassword, Nothing, Spend, Harmless, Faults
  <2>. QED  BY <2>1, <2>2, <2>3, <2>4 DEF HandleRequest
<1>2. ASSUME NEW c \in Conn,
             ReadBad(c) \/ ReadEnd(c) \/ ConnTimeout(c) \/ WriteDone(c) \/ HandleClosed(c)
      PROVE  UNCHANGED config /\ Harmless
  BY <1>2, ZenonT(30)
     DEF ReadBad, ReadEnd, ConnTimeout, WriteDone, HandleClosed, Spend, Harmless, Faults
<1>3. ASSUME NEW q \in todo, Accept(q) \/ AmqpLogin(q) PROVE UNCHANGED config /\ Harmless
  BY <1>3, ZenonT(30) DEF Accept, AmqpLogin, Spend, Harmless, Faults
<1>4. ASSUME NEW i \in WorkId, AmqpGone(i) PROVE UNCHANGED config /\ Harmless
  BY <1>4, ZenonT(30) DEF AmqpGone, Spend, Harmless, Faults
<1>5. ASSUME NEW i \in WorkId, WorkDone(i) PROVE (Taken \/ UNCHANGED config) /\ Harmless
  <2>. DEFINE w == works[i]
              k == [conns[w.who] EXCEPT !.pending = None]
  <2>1. Dispatch(w.who, k, LevelAfter(w), w.user) \/ Nothing
    BY <1>5 DEF WorkDone
  <2>2. LevelAfter(w) \in {-1, 0, 1} \/ (LevelAfter(w) = 2 /\ LevelOf(store, w.user) = 2)
    BY UserLevel DEF LevelAfter
  <2>. HIDE DEF w, k
  <2>3. CASE Nothing
    BY <2>3, ZenonT(30) DEF Nothing, Harmless
  <2>. QED  BY <2>1, <2>2, <2>3, DispatchStep, ZenonT(30) DEF Harmless
<1>6. CASE Tick \/ Shutdown \/ \E x \in Loop : LoopTurn(x)
  BY <1>6, ZenonT(30) DEF Tick, Shutdown, LoopTurn, Spend, Harmless, Faults
<1>7. CASE Attach \/ ApplyOp \/ LeaderKnown \/ BecomeLeader
  BY <1>7, ZenonT(30) DEF Attach, ApplyOp, LeaderKnown, BecomeLeader
<1>. QED  BY <1>1, <1>2, <1>3, <1>4, <1>5, <1>6, <1>7, ZenonT(30) DEF Next, Made

\* Whoever wants the change at hand may make it, or the cluster's thread has
\* applied an operation since that was found out.
TaskInv ==
    /\ "applied" \in DOMAIN raft /\ raft.applied \in Nat
    /\ task # None =>
        /\ task.want.op \in Change
        /\ task.since \in Nat /\ task.since <= raft.applied
        /\ Authorised(store, task) \/ (setup.cluster /\ raft.applied > task.since)

\* A step that changes neither the change at hand nor the store, nor applies
\* anything.
LEMMA TaskInvUnchanged ==
    ASSUME TaskInv, task' = task, store' = store, setup' = setup,
           "applied" \in DOMAIN raft', raft'.applied = raft.applied
    PROVE  TaskInv'
BY ZenonT(30) DEF TaskInv, Authorised, IsOpen, LevelOf

\* handle_mgmt() applies nothing itself.
LEMMA MadeRaft ==
    ASSUME TaskInv, Made
    PROVE  /\ task' = None
           /\ "applied" \in DOMAIN raft' /\ raft'.applied = raft.applied
<1>1. task' = None /\ (raft' = raft \/ raft' = [raft EXCEPT !.inbox = Append(@, task.want)])
  BY ZenonT(30) DEF Made, HandleMgmt, CfgApply, ProposeChange, ChangeHere
<1>2. CASE raft' = raft
  BY <1>1, <1>2, ZenonT(30) DEF TaskInv
<1>3. CASE raft' = [raft EXCEPT !.inbox = Append(@, task.want)]
  BY <1>1, <1>3, SMTT(30) DEF TaskInv
<1>. QED  BY <1>1, <1>2, <1>3, ZenonT(30)

\* Every step preserves the invariant: while a change is at hand only apply_op()
\* touches the store.
LEMMA TaskInvNext == TaskInv /\ [Next]_vars => TaskInv'
<1>. SUFFICES ASSUME TaskInv, [Next]_vars PROVE TaskInv'
  BY ZenonT(30)
<1>0. setup' = setup
  BY SetupFixed, ZenonT(30)
<1>1. CASE Made
  BY <1>1, MadeRaft, ZenonT(30) DEF TaskInv
<1>2. CASE Taken
  <2>1. store' = store /\ raft' = raft
    BY <1>2, ZenonT(30) DEF Taken, settings
  <2>2. Authorised(store', task')
    BY <1>2, <2>1, ZenonT(30) DEF Taken
  <2>3. task'.since \in Nat /\ task'.since <= raft'.applied
    BY <1>2, <2>1, SMTT(30) DEF Taken, TaskInv
  <2>. QED  BY <1>2, <2>1, <2>2, <2>3, ZenonT(30) DEF Taken, TaskInv
<1>3. CASE UNCHANGED config
  BY <1>0, <1>3, TaskInvUnchanged, ZenonT(30) DEF config, settings, TaskInv
<1>4. CASE Damage
  BY <1>0, <1>4, TaskInvUnchanged, ZenonT(30) DEF Damage, TaskInv
<1>5. CASE Crash
  <2>1. /\ task' = None
        /\ raft' = [raft EXCEPT !.attached = FALSE, !.healthy = FALSE, !.inbox = <<>>,
                                !.applied = 0]
    BY <1>5, ZenonT(30) DEF Crash
  <2>2. "applied" \in DOMAIN raft' /\ raft'.applied = 0
    BY <2>1, SMTT(30) DEF TaskInv
  <2>3. raft'.applied \in Nat
    BY <2>2, SMTT(30)
  <2>. QED  BY <2>1, <2>2, <2>3, ZenonT(30) DEF TaskInv
<1>6. CASE Attach \/ LeaderKnown \/ BecomeLeader \/ Commit \/ LeaderLost
  <2>1. task' = task /\ store' = store
    BY <1>6, ZenonT(30) DEF Attach, LeaderKnown, BecomeLeader, Commit, LeaderLost, OnRaft
  <2>2. "applied" \in DOMAIN raft' /\ raft'.applied = raft.applied
    <3>1. \/ \E a : raft' = [raft EXCEPT !.attached = a]
          \/ \E h : raft' = [raft EXCEPT !.healthy = h]
          \/ \E h, x : raft' = [raft EXCEPT !.healthy = h, !.inbox = x]
          \/ \E x, y : raft' = [raft EXCEPT !.log = x, !.inbox = y]
          \/ \E x, y : raft' = [raft EXCEPT !.log = x, !.others = y]
      BY <1>6, ZenonT(60) DEF Attach, LeaderKnown, BecomeLeader, Commit, LeaderLost, OnRaft
    <3>2. ASSUME NEW a, raft' = [raft EXCEPT !.attached = a]
          PROVE  "applied" \in DOMAIN raft' /\ raft'.applied = raft.applied
      BY <3>2, SMTT(30) DEF TaskInv
    <3>3. ASSUME NEW a, raft' = [raft EXCEPT !.healthy = a]
          PROVE  "applied" \in DOMAIN raft' /\ raft'.applied = raft.applied
      BY <3>3, SMTT(30) DEF TaskInv
    <3>4. ASSUME NEW a, NEW b, raft' = [raft EXCEPT !.healthy = a, !.inbox = b]
          PROVE  "applied" \in DOMAIN raft' /\ raft'.applied = raft.applied
      BY <3>4, SMTT(30) DEF TaskInv
    <3>5. ASSUME NEW a, NEW b, raft' = [raft EXCEPT !.log = a, !.inbox = b]
          PROVE  "applied" \in DOMAIN raft' /\ raft'.applied = raft.applied
      BY <3>5, SMTT(30) DEF TaskInv
    <3>6. ASSUME NEW a, NEW b, raft' = [raft EXCEPT !.log = a, !.others = b]
          PROVE  "applied" \in DOMAIN raft' /\ raft'.applied = raft.applied
      BY <3>6, SMTT(30) DEF TaskInv
    <3>. QED  BY <3>1, <3>2, <3>3, <3>4, <3>5, <3>6, ZenonT(30)
  <2>. QED  BY <1>0, <2>1, <2>2, TaskInvUnchanged, ZenonT(30)
<1>7. CASE setup.cluster /\ ApplyOp
  <2>1. task' = task /\ raft' = [raft EXCEPT !.applied = @ + 1]
    BY <1>7, ZenonT(30) DEF ApplyOp, OnRaft
  <2>2. "applied" \in DOMAIN raft' /\ raft'.applied = raft.applied + 1
    BY <2>1, SMTT(30) DEF TaskInv
  <2>3. /\ raft'.applied \in Nat
        /\ task # None => task.since <= raft'.applied /\ raft'.applied > task.since
    BY <2>2, SMTT(30) DEF TaskInv
  <2>. QED  BY <1>0, <1>7, <2>1, <2>2, <2>3, ZenonT(30) DEF TaskInv
<1>8. CASE UNCHANGED vars
  BY <1>0, <1>8, TaskInvUnchanged, ZenonT(30) DEF vars, config, settings, TaskInv
<1>. QED
  BY <1>1, <1>2, <1>3, <1>4, <1>5, <1>6, <1>7, <1>8, ConfigStep, ZenonT(30)

\* It holds when the broker starts: no change is at hand.
LEMMA TaskInvInit == Init => TaskInv
<1>. SUFFICES ASSUME Init PROVE TaskInv
  BY ZenonT(30)
<1>1. "applied" \in DOMAIN raft /\ raft.applied = 0
  BY SMTT(30) DEF Init
<1>2. raft.applied \in Nat
  BY <1>1, SMTT(30)
<1>. QED  BY <1>1, <1>2, ZenonT(30) DEF Init, TaskInv

\* What handle_mgmt() has noted of a change is what it knows of the one at hand.
LEMMA MadeChange ==
    ASSUME Next, change' # change
    PROVE  /\ Made /\ task # None
           /\ change'.level = task.level
           /\ Authorised(store, change') <=> Authorised(store, task)
<1>1. Made
  BY ConfigStep, ZenonT(30)
     DEF Taken, config, settings, Damage, Crash, Attach, ApplyOp, LeaderKnown, BecomeLeader,
         Commit, LeaderLost, OnRaft
<1>2. task # None /\ change' = [n |-> change.n + 1, level |-> task.level, by |-> task.by]
  BY <1>1, ZenonT(30) DEF Made, HandleMgmt, CfgApply
<1>3. change'.level = task.level /\ change'.by = task.by
  BY <1>2, ZenonT(30)
<1>. QED  BY <1>1, <1>2, <1>3, ZenonT(30) DEF Authorised

\* http_auth_after_cb() asks for the tags after the check, and no other request is
\* served before the change is made: whoever makes it is an administrator then, or
\* there is no user yet, unless the cluster's thread came in between.
THEOREM AdministratorsOnly == Spec => OnlyAdministratorsChange
<1>. DEFINE A == change' # change => Authorised(store, change') \/ raft.applied > task.since
<1>1. ASSUME TaskInv, Next, change' # change
      PROVE  Authorised(store, change') \/ raft.applied > task.since
  BY <1>1, MadeChange, ZenonT(30) DEF TaskInv
<1>2. TaskInv /\ [Next]_vars => [A]_vars
  BY <1>1, ZenonT(30)
<1>. QED  BY <1>2, TaskInvInit, TaskInvNext, PTL DEF Spec, OnlyAdministratorsChange

\* A file, whole or damaged, was written from a store.
IsFile(f) == f = [store |-> f.store, whole |-> f.whole] /\ IsStore(f.store)

\* While nothing is unsaved, the file of a standalone broker holds the store; and
\* while no save failed and the file was not damaged, nothing is unsaved and
\* whoever was ever created has ended the bootstrap.
ConfigInv ==
    /\ setup \in Scenarios
    /\ used \in [Faults -> Nat]
    /\ unsaved \in BOOLEAN /\ created \in BOOLEAN
    /\ setup.dataDir =>
        /\ IsStore(store) /\ IsFile(file)
        /\ unsaved = FALSE => file.store = store /\ file.whole = 3
        /\ used["savefail"] = 0 /\ used["damage"] = 0 =>
            /\ unsaved = FALSE /\ path = TRUE
            /\ created = TRUE => store.boot = TRUE

\* A mutator leaves a store a store, and never reopens the bootstrap.
LEMMA MutatedIsStore ==
    ASSUME NEW s, IsStore(s), NEW x, x.op \in Change
    PROVE  /\ IsStore(Mutated(s, x))
           /\ s.boot = TRUE \/ x.op = "add_user" => Mutated(s, x).boot = TRUE
<1>1. CASE x.op = "add_vhost"
  <2>1. Mutated(s, x) = [s EXCEPT !.vhosts = @ \cup {x.vhost}]
    BY <1>1 DEF Mutated
  <2>. QED  BY <1>1, <2>1 DEF IsStore
<1>2. CASE x.op = "del_vhost"
  <2>1. \/ Mutated(s, x) = s
        \/ Mutated(s, x) = [s EXCEPT !.vhosts = @ \ {x.vhost}, !.perms = DropOfVhost(@, x.vhost)]
    BY <1>2 DEF Mutated
  <2>. QED  BY <1>2, <2>1, ZenonT(30) DEF IsStore
<1>3. CASE x.op = "add_user"
  <2>1. Mutated(s, x) = [s EXCEPT !.users[x.user] = [pass |-> x.pass, tags |-> x.tags],
                                  !.boot = TRUE]
    BY <1>3 DEF Mutated, WithUser
  <2>. QED  BY <1>3, <2>1, ZenonT(30) DEF IsStore
<1>4. CASE x.op = "del_user"
  <2>1. \/ Mutated(s, x) = s
        \/ Mutated(s, x) = [s EXCEPT !.users[x.user] = None, !.perms = DropOfUser(@, x.user)]
    BY <1>4 DEF Mutated
  <2>. QED  BY <1>4, <2>1, ZenonT(30) DEF IsStore
<1>5. CASE x.op = "set_perm"
  <2>1. \E p : Mutated(s, x) = [s EXCEPT !.perms = p]
    BY <1>5, ZenonT(30) DEF Mutated
  <2>. QED  BY <1>5, <2>1 DEF IsStore
<1>6. CASE x.op = "clear_perm"
  <2>1. \E p : Mutated(s, x) = [s EXCEPT !.perms = p]
    BY <1>6, ZenonT(30) DEF Mutated
  <2>. QED  BY <1>6, <2>1 DEF IsStore
<1>. QED  BY <1>1, <1>2, <1>3, <1>4, <1>5, <1>6, ZenonT(30) DEF Change

\* authstore_load() of any file gives a store; of a whole one the store that was
\* saved, with the default virtual host.
LEMMA LoadedIsStore ==
    ASSUME NEW f, IsStore(f.store)
    PROVE  /\ IsStore(Loaded(f))
           /\ f.whole = 3 => Loaded(f) = [f.store EXCEPT !.vhosts = @ \cup {"/"}]
<1>1. DOMAIN EmptyStore.users = User /\ \A u \in User : EmptyStore.users[u] = None
  BY DEF EmptyStore
<1>2. IsStore(Loaded(f))
  BY <1>1, ZenonT(30) DEF IsStore, Loaded
<1>3. ASSUME f.whole = 3
      PROVE  Loaded(f) = [f.store EXCEPT !.vhosts = @ \cup {"/"}]
  <2>. DEFINE s == f.store
  <2>1. Loaded(f) = [vhosts |-> {"/"} \cup s.vhosts, users |-> s.users, perms |-> s.perms,
                     boot |-> s.boot \/ \E u \in User : s.users[u] # None]
    <3>1. f.whole >= 2 /\ f.whole >= 1  BY <1>3, SMTT(30)
    <3>2. (f.whole = 3 /\ s.boot) = s.boot  BY <1>3, ZenonT(30) DEF IsStore
    <3>. QED  BY <1>3, <3>1, <3>2, ZenonT(30) DEF Loaded
  <2>2. (s.boot \/ \E u \in User : s.users[u] # None) = s.boot
    BY DEF IsStore
  <2>3. [s EXCEPT !.vhosts = @ \cup {"/"}]
        = [vhosts |-> s.vhosts \cup {"/"}, users |-> s.users, perms |-> s.perms, boot |-> s.boot]
    BY DEF IsStore
  <2>4. {"/"} \cup s.vhosts = s.vhosts \cup {"/"}
    OBVIOUS
  <2>. QED  BY <2>1, <2>2, <2>3, <2>4, ZenonT(30)
<1>. QED  BY <1>2, <1>3, SMTT(30)

\* main() starts with what the file holds, if it is whole.
LEMMA BootedKeeps ==
    ASSUME setup \in Scenarios, setup.dataDir, NEW f, IsFile(f)
    PROVE  /\ IsStore(Booted(f).store) /\ IsFile(Booted(f).file)
           /\ f.whole = 3 =>
                /\ Booted(f).path = TRUE
                /\ Booted(f).file.store = Booted(f).store /\ Booted(f).file.whole = 3
                /\ Booted(f).store.boot = f.store.boot
<1>1. setup.cluster = FALSE
  BY AdminAssumption, SMTT(30)
<1>2. Booted(f).store = Loaded(f)
  BY <1>1 DEF Booted
<1>3. ASSUME f.whole = 3
      PROVE  /\ Booted(f).path = TRUE
             /\ Booted(f).file.store = Booted(f).store /\ Booted(f).file.whole = 3
             /\ Booted(f).store.boot = f.store.boot
  <2>1. Booted(f).path = TRUE
    BY <1>3, ZenonT(30) DEF Booted
  <2>2. Loaded(f) = [f.store EXCEPT !.vhosts = @ \cup {"/"}]
    BY <1>3, LoadedIsStore DEF IsFile
  <2>3. Loaded(f).boot = f.store.boot
    BY <2>2, SMTT(30) DEF IsFile, IsStore
  <2>4. CASE "/" \notin f.store.vhosts
    <3>1. Booted(f).file = Saved(Booted(f).store)
      BY <1>3, <2>4, ZenonT(30) DEF Booted
    <3>. QED  BY <1>2, <2>1, <2>3, <3>1, SMTT(30) DEF Saved
  <2>5. CASE "/" \in f.store.vhosts
    <3>1. Booted(f).file = f
      BY <2>5 DEF Booted
    <3>2. f.store.vhosts \cup {"/"} = f.store.vhosts
      BY <2>5
    <3>3. Loaded(f) = f.store
      BY <2>2, <3>2 DEF IsFile, IsStore
    <3>. QED  BY <1>2, <1>3, <2>1, <3>1, <3>3, ZenonT(30)
  <2>. QED  BY <2>4, <2>5, ZenonT(30)
<1>4. IsStore(Booted(f).store)
  BY <1>2, LoadedIsStore DEF IsFile
<1>5. IsFile(Booted(f).file)
  <2>1. Booted(f).file = f \/ Booted(f).file = Saved(Booted(f).store)
    BY DEF Booted
  <2>. QED  BY <1>4, <2>1, SMTT(30) DEF IsFile, Saved
<1>. QED  BY <1>3, <1>4, <1>5, ZenonT(30)

\* cfg_apply() of a standalone broker, whether the save succeeds or not.
LEMMA ChangeKeeps ==
    ASSUME ConfigInv, setup' = setup, NEW x, NEW level, NEW who, x.op \in Change,
           CfgApply(x, level, who)
    PROVE  ConfigInv'
<1>1. CASE raft.attached
  BY <1>1, SMTT(30) DEF CfgApply, ProposeChange, ConfigInv
<1>2. CASE ~raft.attached
  <2>0. ChangeHere(x)
    BY <1>2, SMTT(30) DEF CfgApply
  <2>1. created' \in BOOLEAN
    BY <2>0 DEF ChangeHere, ConfigInv
  <2>2. unsaved' \in BOOLEAN
    BY <2>0, ZenonT(30) DEF ChangeHere, ConfigInv
  <2>3. used' \in [Faults -> Nat] /\ (used'["savefail"] = 0 => used' = used)
        /\ used'["damage"] = used["damage"]
    <3>1. used \in [Faults -> Nat] /\ "savefail" \in Faults /\ "damage" \in Faults
      BY ZenonT(30) DEF ConfigInv, Faults
    <3>2. used' = used \/ used' = [used EXCEPT !["savefail"] = @ + 1]
      BY <2>0, ZenonT(30) DEF ChangeHere, Spend
    <3>3. CASE used' = used
      BY <3>1, <3>3, ZenonT(30)
    <3>4. CASE used' = [used EXCEPT !["savefail"] = @ + 1]
      <4>1. used' \in [Faults -> Nat] /\ used'["savefail"] = used["savefail"] + 1
            /\ used'["damage"] = used["damage"]
        BY <3>1, <3>4, SMTT(30)
      <4>2. used["savefail"] \in Nat
        BY <3>1, ZenonT(30)
      <4>. QED  BY <4>1, <4>2, SMTT(30)
    <3>. QED  BY <3>2, <3>3, <3>4, ZenonT(30)
  <2>4. ASSUME setup.dataDir
        PROVE  /\ IsStore(store') /\ IsFile(file')
               /\ unsaved' = FALSE => file'.store = store' /\ file'.whole = 3
               /\ used'["savefail"] = 0 /\ used'["damage"] = 0 =>
                    /\ unsaved' = FALSE /\ path' = TRUE
                    /\ created' = TRUE => store'.boot = TRUE
    <3>1. IsStore(store') /\ (store.boot = TRUE \/ x.op = "add_user" => store'.boot = TRUE)
      BY <2>0, <2>4, MutatedIsStore, ZenonT(30) DEF ChangeHere, ConfigInv
    <3>2. IsFile(Saved(store'))
      BY <3>1, ZenonT(30) DEF IsFile, Saved
    <3>3. IsFile(file')
      BY <2>0, <2>4, <3>2 DEF ChangeHere, ConfigInv
    <3>4. unsaved' = FALSE => file'.store = store' /\ file'.whole = 3
      <4>1. CASE ~Saves(store, x) /\ UNCHANGED <<file, unsaved, used>>
        <5>1. store' = store
          BY <2>0, <4>1, SMTT(30) DEF ChangeHere, Saves
        <5>. QED  BY <2>4, <4>1, <5>1, ZenonT(30) DEF ConfigInv
      <4>2. CASE file' = Saved(store')
        BY <4>2 DEF Saved
      <4>3. CASE unsaved' = TRUE
        BY <4>3
      <4>. QED  BY <2>0, <4>1, <4>2, <4>3, ZenonT(30) DEF ChangeHere
    <3>5. ASSUME used'["savefail"] = 0, used'["damage"] = 0
          PROVE  /\ unsaved' = FALSE /\ path' = TRUE
                 /\ created' = TRUE => store'.boot = TRUE
      <4>1. /\ used["savefail"] = 0 /\ used' = used /\ unsaved = FALSE /\ path = TRUE
            /\ created = TRUE => store.boot = TRUE
        BY <2>3, <2>4, <3>5 DEF ConfigInv
      <4>2. path' = TRUE
        BY <2>0, <4>1, ZenonT(30) DEF ChangeHere
      <4>3. ~Spend("savefail")
        BY <4>1, SMTT(30) DEF Spend, ConfigInv, Faults
      <4>4. unsaved' = FALSE
        BY <2>0, <4>1, <4>3, ZenonT(30) DEF ChangeHere
      <4>5. created' = TRUE => created = TRUE \/ x.op = "add_user"
        BY <2>0 DEF ChangeHere, ConfigInv
      <4>. QED  BY <3>1, <4>1, <4>2, <4>4, <4>5, SMTT(30)
    <3>. QED  BY <3>1, <3>3, <3>4, <3>5, ZenonT(30)
  <2>. QED  BY <2>1, <2>2, <2>3, <2>4, ZenonT(30) DEF ConfigInv
<1>. QED  BY <1>1, <1>2

\* Every step preserves it.
LEMMA ConfigInvNext == TaskInv /\ ConfigInv /\ [Next]_vars => ConfigInv'
<1>. SUFFICES ASSUME TaskInv, ConfigInv, [Next]_vars PROVE ConfigInv'
  OBVIOUS
<1>0. setup' = setup
  BY SetupFixed
<1>1. CASE Made
  <2>1. task.want.op \in Change /\ CfgApply(task.want, task.level, task.by)
    BY <1>1, ZenonT(30) DEF Made, HandleMgmt, TaskInv
  <2>. QED  BY <1>0, <2>1, ChangeKeeps, ZenonT(30)
<1>2. CASE (Taken \/ UNCHANGED config \/ Commit \/ LeaderLost) /\ Harmless
  <2>1. /\ used' \in [Faults -> Nat]
        /\ used'["savefail"] = used["savefail"] /\ used'["damage"] = used["damage"]
    BY <1>2, SMTT(30) DEF Harmless, ConfigInv, Faults
  <2>2. UNCHANGED <<store, file, path, unsaved, created>>
    BY <1>2, ZenonT(30) DEF Taken, config, settings, Commit, LeaderLost, OnRaft
  <2>. QED  BY <1>0, <2>1, <2>2, SMTT(30) DEF ConfigInv
<1>3. CASE Damage
  <2>1. used' \in [Faults -> Nat] /\ used'["damage"] # 0
    BY <1>3 DEF Damage, Spend, ConfigInv, Faults
  <2>2. unsaved' = TRUE /\ store' = store /\ created' = created
    BY <1>3 DEF Damage
  <2>3. setup.dataDir => IsFile(file')
    BY <1>3, SMTT(30) DEF Damage, ConfigInv, IsFile
  <2>. QED  BY <1>0, <2>1, <2>2, <2>3 DEF ConfigInv
<1>4. CASE Crash
  <2>1. /\ used' \in [Faults -> Nat]
        /\ used'["savefail"] = used["savefail"] /\ used'["damage"] = used["damage"]
    BY <1>4 DEF Crash, Spend, ConfigInv, Faults
  <2>2. /\ store' = Booted(file).store /\ path' = Booted(file).path /\ file' = Booted(file).file
        /\ UNCHANGED <<unsaved, created>>
    BY <1>4 DEF Crash
  <2>3. ASSUME setup.dataDir
        PROVE  /\ IsStore(store') /\ IsFile(file')
               /\ unsaved = FALSE => /\ file'.store = store' /\ file'.whole = 3
                                     /\ path' = TRUE /\ store'.boot = store.boot
    BY <2>2, <2>3, BootedKeeps, ZenonT(30) DEF ConfigInv
  <2>. QED  BY <1>0, <2>1, <2>2, <2>3, ZenonT(30) DEF ConfigInv
<1>5. CASE setup.cluster /\ (Attach \/ ApplyOp \/ LeaderKnown \/ BecomeLeader)
  <2>1. ~setup.dataDir
    BY <1>5, AdminAssumption DEF ConfigInv
  <2>2. used' \in [Faults -> Nat]
    BY <1>5, SMTT(30) DEF Attach, ApplyOp, LeaderKnown, BecomeLeader, Spend, ConfigInv
  <2>3. unsaved' \in BOOLEAN
    BY <1>5 DEF Attach, ApplyOp, LeaderKnown, BecomeLeader, OnRaft, ConfigInv
  <2>4. created' \in BOOLEAN
    BY <1>5, ZenonT(30) DEF Attach, ApplyOp, LeaderKnown, BecomeLeader, ConfigInv
  <2>. QED  BY <1>0, <2>1, <2>2, <2>3, <2>4, ZenonT(30) DEF ConfigInv
<1>6. CASE UNCHANGED vars
  BY <1>6 DEF vars, config, settings, ConfigInv
<1>7. Commit \/ LeaderLost => Harmless
  BY ZenonT(30) DEF Commit, LeaderLost, Spend, Harmless, Faults
<1>. QED  BY <1>1, <1>2, <1>3, <1>4, <1>5, <1>6, <1>7, ConfigStep, ZenonT(30)

\* It holds when main() serves for the first time.
LEMMA ConfigInvInit == Init => ConfigInv
<1>. SUFFICES ASSUME Init PROVE ConfigInv
  BY ZenonT(30)
<1>1. setup \in Scenarios /\ used \in [Faults -> Nat] /\ unsaved = FALSE
  BY ZenonT(30) DEF Init
<1>2. created = store.boot
  BY ZenonT(30) DEF Init
<1>3. store = Booted(setup.file).store /\ path = Booted(setup.file).path
      /\ file = Booted(setup.file).file
  BY ZenonT(30) DEF Init
<1>4. IsFile(setup.file) /\ setup.file.whole = 3
  <2>1. setup.file = Saved(setup.file.store) /\ IsStore(setup.file.store)
    BY <1>1, AdminAssumption, SMTT(30)
  <2>. QED  BY <2>1, SMTT(30) DEF IsFile, Saved
<1>5. ASSUME setup.dataDir
      PROVE  IsStore(store) /\ IsFile(file) /\ file.store = store /\ file.whole = 3 /\ path = TRUE
  BY <1>1, <1>3, <1>4, <1>5, BootedKeeps, ZenonT(30)
<1>6. store.boot \in BOOLEAN
  BY <1>3, ZenonT(30) DEF Booted, Loaded, EmptyStore
<1>. QED  BY <1>1, <1>2, <1>5, <1>6, ZenonT(30) DEF ConfigInv

\* authstore_save_locked() is called wherever it must be: what a restart would load
\* is what the broker holds, unless a save failed or the file was damaged.
THEOREM ConfigKept == Spec => []RestartKeepsConfig
<1>1. ConfigInv => RestartKeepsConfig
  BY LoadedIsStore DEF ConfigInv, RestartKeepsConfig, IsFile
<1>. QED  BY <1>1, TaskInvInit, TaskInvNext, ConfigInvInit, ConfigInvNext, PTL DEF Spec

\* The token admits nobody once there has been a user, through any number of
\* deletions and restarts.
THEOREM BootstrapEnds == Spec => BootstrapOnce
<1>. DEFINE A == change' # change /\ change'.level = 3 /\ setup.dataDir
                    /\ used.savefail = 0 /\ used.damage = 0 => ~created
<1>1. ASSUME TaskInv, ConfigInv, Next, change' # change, change'.level = 3, setup.dataDir,
             used.savefail = 0, used.damage = 0
      PROVE  ~created
  <2>1. task # None /\ task.level = 3
    BY <1>1, MadeChange, ZenonT(30)
  <2>2. ~setup.cluster
    BY <1>1, AdminAssumption, ZenonT(30) DEF ConfigInv
  <2>3. IsOpen(store)
    BY <1>1, <2>1, <2>2, ZenonT(30) DEF TaskInv, Authorised
  <2>. QED  BY <1>1, <2>3 DEF IsOpen, ConfigInv
<1>2. TaskInv /\ ConfigInv /\ [Next]_vars => [A]_vars
  BY <1>1
<1>. QED
  BY <1>2, TaskInvInit, TaskInvNext, ConfigInvInit, ConfigInvNext, PTL DEF Spec, BootstrapOnce

=============================================================================
