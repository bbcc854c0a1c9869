-------------------------- MODULE ForwardingProofs --------------------------
(***************************************************************************)
(* Theorems about Forwarding, for any nodes, inbox limits, scenarios and   *)
(* numbers of operations: while there is one leader, no node restarts and  *)
(* each node submits on one thread, what is reported as committed has been *)
(* applied by the reporting node, operations enter the log in the order of *)
(* submission, and what is committed is not appended again.                *)
(***************************************************************************)
EXTENDS Forwarding, TLAPS

-----------------------------------------------------------------------------
(* What the invariant says about one node: lg is the leader's log, sq the  *)
(* operations that the node submitted, line those it has not seen          *)
(* acknowledged, up the frames on their way to the leader.                 *)

\* y is x, or x and more.
Grows(x, y) == Len(x) <= Len(y) /\ \A n \in 1..Len(x) : y[n] = x[n]

\* The operation is in the log, at or before m.
InLog(lg, op, m) == \E k \in 1..Len(lg) : k <= m /\ lg[k].op = op
Logs(lg, op) == \E k \in 1..Len(lg) : lg[k].op = op

\* Everything up to a.seq is in the log, up to a.index.
AckOk(lg, sq, a) == \A s \in 1..a.seq : s \in 1..Len(sq) /\ InLog(lg, sq[s], a.index)

\* An operation is preceded in the log by those submitted before it.
Ordered(lg, sq) ==
    \A t \in 1..Len(sq) : \A n \in 1..Len(lg) :
        lg[n].op = sq[t] => \A s \in 1..t : InLog(lg, sq[s], n)

\* The proposal carries what was submitted with its sequence number.
Proper(sq, p) == p.seq \in 1..Len(sq) /\ p.op = sq[p.seq]

\* A queue of proposals: in the order of submission, and what is in it.
Ascending(line) == \A a, b \in 1..Len(line) : a < b => line[a].seq < line[b].seq
Has(line, s) == \E a \in 1..Len(line) : line[a].seq = s

\* The proposals after s are those after place n; there is such a place for every s.
CutAt(line, s, n) == \A k \in 1..Len(line) : line[k].seq > s <=> k > n
HasCuts(line) == \A s \in Nat : \E n \in 0..Len(line) : CutAt(line, s, n)

\* Nothing is lost on the way: dr is the proposal being submitted, if any.
BacklogOk(lg, sq, dr, line) ==
    /\ Ascending(line) /\ HasCuts(line) /\ \A a \in 1..Len(line) : Proper(sq, line[a])
    /\ \A p \in dr : /\ dr = {p} /\ p.seq = Len(sq) /\ Proper(sq, p)
                     /\ \A a \in 1..Len(line) : line[a].seq < p.seq
    /\ \A s \in 1..Len(sq) : Logs(lg, sq[s]) \/ (\E p \in dr : p.seq = s) \/ Has(line, s)

\* The frames to the leader leave no gap.
WireOk(lg, sq, up) ==
    \A k \in 1..Len(up) :
        /\ up[k].type = "FORWARD" /\ Proper(sq, up[k].p)
        /\ \A s \in 1..(up[k].p.seq - 1) : Logs(lg, sq[s]) \/ \E j \in 1..(k - 1) : up[j].p.seq = s

\* What was sent is in the log or on its way.
Underway(lg, sq, up, pend) ==
    \A a \in 1..Len(pend) :
        Logs(lg, sq[pend[a].seq]) \/ \E k \in 1..Len(up) : up[k].p.seq = pend[a].seq

\* The acknowledgements on the way to a node.
AcksOk(lg, sq, down) ==
    \A k \in 1..Len(down) : down[k].type = "FORWARD_ACK" /\ AckOk(lg, sq, down[k].upto)

\* What a node reports as committed was submitted there and is applied: ap is
\* its log, of which it has applied the first cm entries.
ReportedOk(ap, cm, sq, D) == \A s \in D : s \in 1..Len(sq) /\ \E m \in 1..cm : ap[m].op = sq[s]

-----------------------------------------------------------------------------
(* The invariant.                                                          *)

\* The leader's log, and what a node has still to see committed.
Main == log[FirstLeader]
Line(i) == fwdPending[i] \o inbox[i]

\* An entry of fwd_ack_pending.
AckEntry == [index : Nat, origin : Node, seq : Nat]

\* Entry m is the first, among the entries a to b for node j, with their highest
\* sequence number; wherever there are such entries, there is one (resolve_fwd_acks()).
TopAt(ap, a, b, j, m) ==
    /\ ap[m].origin = j
    /\ \A k \in a..b : ap[k].origin = j =>
            ap[k].seq <= ap[m].seq /\ (ap[k].seq = ap[m].seq => m <= k)
HasTops(ap) ==
    \A a, b \in 1..Len(ap) : \A j \in Node :
        (\E k \in a..b : ap[k].origin = j) => \E m \in a..b : TopAt(ap, a, b, j, m)

\* The types of the variables the argument uses.
Data ==
    /\ term \in [Node -> Nat]
    /\ log \in [Node -> Seq(LogEntry)] /\ commit \in [Node -> Nat]
    /\ link \subseteq Node \X Node
    /\ chan \in [Node -> [Node -> Seq(Frame)]]
    /\ seqs \in [Node -> Seq(1..MaxOps)]
    /\ drawn \in [Node -> SUBSET Proposal]
    /\ inbox \in [Node -> Seq(Proposal)] /\ fwdPending \in [Node -> Seq(Proposal)]
    /\ fwdAcked \in [Node -> Acked] /\ fwdMarked \in [Node -> Nat]
    /\ done \in [Node -> SUBSET Nat]
    /\ ackPending \in [Node -> Seq(AckEntry)]
    /\ committedFwd \in [Node -> [Node -> Acked]]

\* The first leader leads, and every node knows.
OneLeader ==
    /\ leading = [i \in Node |-> i = FirstLeader]
    /\ leaderId = [i \in Node |-> FirstLeader]

\* Every log is a prefix of the leader's.
Copies ==
    \A i \in Node : /\ Grows(log[i], Main)
                    /\ commit[i] <= Len(log[i]) /\ commit[i] <= commit[FirstLeader]

\* No operation is submitted twice.
Distinct ==
    \A i \in Node : \A s \in 1..Len(seqs[i]) :
        /\ seqs[i][s] <= happened["op"]
        /\ \A j \in Node : \A t \in 1..Len(seqs[j]) : seqs[i][s] = seqs[j][t] => i = j /\ s = t

\* The operations of each node are in the log in the order of submission.
LogOrder == \A i \in Node : Ordered(Main, seqs[i])

\* What a node has submitted is in the log or in its queues.
Backlog == \A i \in Node : BacklogOk(Main, seqs[i], drawn[i], Line(i))

\* The frames from each node to the leader leave no gap.
Wire == \A i \in Node : WireOk(Main, seqs[i], chan[i][FirstLeader])

\* While the connection is up, what is pending is in the log or in a frame.
OnWire ==
    \A i \in Node : <<i, FirstLeader>> \in link =>
        Underway(Main, seqs[i], chan[i][FirstLeader], fwdPending[i])

\* Followers send nothing to each other, and no node to itself.
Silent ==
    \A i, j \in Node :
        (i # FirstLeader /\ j # FirstLeader) \/ (i = FirstLeader /\ j = FirstLeader) =>
            chan[i][j] = <<>>

\* What was acknowledged, at either end or on the way, is in the log.
Acks ==
    \A i \in Node :
        /\ AckOk(Main, seqs[i], fwdAcked[i]) /\ AckOk(Main, seqs[i], committedFwd[FirstLeader][i])
        /\ i # FirstLeader => AcksOk(Main, seqs[i], chan[FirstLeader][i])

\* What the leader itself has still to append is not in its log.
Own ==
    /\ fwdPending[FirstLeader] = <<>>
    /\ \A a \in 1..Len(inbox[FirstLeader]) : ~Logs(Main, inbox[FirstLeader][a].op)
    /\ \A p \in drawn[FirstLeader] : ~Logs(Main, p.op)

\* What is committed was submitted, and is known to be committed.
Settled ==
    \A n \in 1..commit[FirstLeader] : \E o \in Node : \E q \in 1..Len(seqs[o]) :
        /\ Main[n].op = seqs[o][q]
        /\ o = FirstLeader \/ q <= committedFwd[FirstLeader][o].seq

\* What is not yet committed is to be acknowledged.
Tracked ==
    /\ Len(ackPending[FirstLeader]) = Len(Main) - commit[FirstLeader]
    /\ HasTops(ackPending[FirstLeader])
    /\ \A m \in 1..Len(ackPending[FirstLeader]) :
        LET a == ackPending[FirstLeader][m]
        IN  /\ a.index = commit[FirstLeader] + m
            /\ a.seq \in 1..Len(seqs[a.origin]) /\ Main[a.index].op = seqs[a.origin][a.seq]

\* What a node reports as committed is applied there.
Reported == \A i \in Node : ReportedOk(log[i], commit[i], seqs[i], done[i])

\* The scenario and the counters.
Settings == setup \in Scenarios /\ happened \in [Events -> Nat] /\ happened["op"] <= MaxOps

\* What holds while circumstances are steady.
Sound ==
    /\ Data /\ OneLeader /\ Copies /\ Distinct /\ LogOrder /\ Backlog /\ Wire /\ OnWire
    /\ Silent /\ Acks /\ Own /\ Settled /\ Tracked /\ Reported

\* The inductive invariant: under one leader, without restarts and with one
\* submitting thread per node (propose_internal(), drain_inbox()), all of that holds.
SteadyInv == Settings /\ (Steady => Sound)

-----------------------------------------------------------------------------
(* Sequences.                                                              *)

\* What a sequence is.
LEMMA SeqFields ==
    ASSUME NEW S, NEW s \in Seq(S)
    PROVE  Len(s) \in Nat /\ s \in [1..Len(s) -> S] /\ DOMAIN s = 1..Len(s)
OBVIOUS

\* Its elements.
LEMMA SeqElement ==
    ASSUME NEW S, NEW s \in Seq(S), NEW k \in 1..Len(s)
    PROVE  s[k] \in S
OBVIOUS

\* The sequence without elements.
LEMMA SeqEmpty ==
    ASSUME NEW S
    PROVE  /\ <<>> \in Seq(S) /\ Len(<<>>) = 0
           /\ \A s \in Seq(S) : s # <<>> => Len(s) \in Nat \ {0}
OBVIOUS

\* Concatenation.
LEMMA SeqConcat ==
    ASSUME NEW S, NEW s \in Seq(S), NEW t \in Seq(S)
    PROVE  /\ s \o t \in Seq(S) /\ Len(s \o t) = Len(s) + Len(t)
           /\ \A k \in 1..(Len(s) + Len(t)) :
                 (s \o t)[k] = IF k <= Len(s) THEN s[k] ELSE t[k - Len(s)]
OBVIOUS

\* Concatenation with nothing.
LEMMA SeqConcatEmpty ==
    ASSUME NEW S, NEW s \in Seq(S)
    PROVE  s \o <<>> = s /\ <<>> \o s = s
OBVIOUS

\* Concatenation of three sequences.
LEMMA SeqAssociative ==
    ASSUME NEW S, NEW s \in Seq(S), NEW t \in Seq(S), NEW u \in Seq(S)
    PROVE  (s \o t) \o u = s \o (t \o u)
OBVIOUS

\* The first element and the others.
LEMMA SeqTail ==
    ASSUME NEW S, NEW s \in Seq(S), s # <<>>
    PROVE  /\ Head(s) \in S /\ Tail(s) \in Seq(S) /\ Len(Tail(s)) = Len(s) - 1
           /\ \A k \in 1..Len(Tail(s)) : Tail(s)[k] = s[k + 1]
OBVIOUS

\* What is left without the first d elements.
LEMMA SeqSuffix ==
    ASSUME NEW S, NEW s \in Seq(S), NEW d \in 0..Len(s)
    PROVE  /\ SubSeq(s, d + 1, Len(s)) \in Seq(S)
           /\ Len(SubSeq(s, d + 1, Len(s))) = Len(s) - d
           /\ \A k \in 1..(Len(s) - d) : SubSeq(s, d + 1, Len(s))[k] = s[d + k]
OBVIOUS

\* Sequences with the same elements.
LEMMA SeqSame ==
    ASSUME NEW S, NEW s \in Seq(S), NEW t \in Seq(S), Len(s) = Len(t),
           \A k \in 1..Len(t) : s[k] = t[k]
    PROVE  s = t
OBVIOUS

\* One more element.
LEMMA SeqAppend ==
    ASSUME NEW S, NEW s \in Seq(S), NEW e \in S
    PROVE  Append(s, e) \in Seq(S) /\ Append(s, e) = s \o <<e>>
OBVIOUS

-----------------------------------------------------------------------------
(* Growing logs.                                                           *)

\* A sequence grows when something is appended.
LEMMA ConcatGrows ==
    ASSUME NEW S, NEW x \in Seq(S), NEW y \in Seq(S)
    PROVE  /\ x \o y \in Seq(S) /\ Len(x \o y) = Len(x) + Len(y) /\ Grows(x, x \o y)
           /\ \A k \in 1..Len(y) : (x \o y)[Len(x) + k] = y[k]
<1>. USE ZenonT(30)
<1>1. /\ x \o y \in Seq(S) /\ Len(x \o y) = Len(x) + Len(y)
      /\ \A n \in 1..(Len(x) + Len(y)) :
            (x \o y)[n] = IF n <= Len(x) THEN x[n] ELSE y[n - Len(x)]
  BY SeqConcat
<1>2. Len(x) \in Nat /\ Len(y) \in Nat  BY SeqFields
<1>. QED  BY <1>1, <1>2, SMTT(30) DEF Grows

\* Appending one element is appending a sequence.
LEMMA AppendGrows ==
    ASSUME NEW S, NEW x \in Seq(S), NEW e \in S
    PROVE  /\ Append(x, e) \in Seq(S) /\ Len(Append(x, e)) = Len(x) + 1 /\ Grows(x, Append(x, e))
           /\ Append(x, e)[Len(x) + 1] = e
BY SMTT(30) DEF Grows

\* What is in the log stays in it.
LEMMA LogsKept ==
    ASSUME NEW lg, NEW lg2, Grows(lg, lg2), Len(lg) \in Nat, Len(lg2) \in Nat, NEW op
    PROVE  /\ Logs(lg, op) => Logs(lg2, op)
           /\ \A m : InLog(lg, op, m) => InLog(lg2, op, m)
<1>1. \A k \in 1..Len(lg) : k \in 1..Len(lg2)  BY DEF Grows
<1>. QED  BY <1>1, ZenonT(30) DEF Grows, Logs, InLog

\* InLog is Logs with a bound, which can be raised.
LEMMA InLogLater ==
    ASSUME NEW lg, NEW op, NEW m \in Nat, NEW n \in Nat, m <= n, Len(lg) \in Nat, InLog(lg, op, m)
    PROVE  InLog(lg, op, n) /\ Logs(lg, op)
<1>. USE ZenonT(30)
<1>1. PICK k \in 1..Len(lg) : k <= m /\ lg[k].op = op  BY DEF InLog
<1>2. k <= n  BY <1>1, SMTT(30)
<1>. QED  BY <1>1, <1>2 DEF InLog, Logs

\* An acknowledgement stays true as log and submissions grow.
LEMMA AckKept ==
    ASSUME NEW lg, NEW lg2, Grows(lg, lg2), Len(lg) \in Nat, Len(lg2) \in Nat,
           NEW sq, NEW sq2, Grows(sq, sq2), Len(sq) \in Nat, Len(sq2) \in Nat,
           NEW a, AckOk(lg, sq, a)
    PROVE  AckOk(lg2, sq2, a)
<1>. USE ZenonT(30)
<1>. SUFFICES ASSUME NEW s \in 1..a.seq  PROVE s \in 1..Len(sq2) /\ InLog(lg2, sq2[s], a.index)
  BY DEF AckOk
<1>1. s \in 1..Len(sq) /\ InLog(lg, sq[s], a.index)  BY DEF AckOk
<1>2. s \in 1..Len(sq2)  BY <1>1, SMTT(30) DEF Grows
<1>3. sq2[s] = sq[s]  BY <1>1 DEF Grows
<1>. QED  BY <1>1, <1>2, <1>3, LogsKept

\* Acknowledgements on the way stay true as the log grows.
LEMMA AcksKept ==
    ASSUME NEW lg, NEW lg2, Grows(lg, lg2), Len(lg) \in Nat, Len(lg2) \in Nat,
           NEW sq, NEW sq2, Grows(sq, sq2), Len(sq) \in Nat, Len(sq2) \in Nat,
           NEW down, AcksOk(lg, sq, down)
    PROVE  AcksOk(lg2, sq2, down)
BY AckKept, ZenonT(30) DEF AcksOk

\* A proposal stays what it was.
LEMMA ProperKept ==
    ASSUME NEW sq, NEW sq2, Grows(sq, sq2), Len(sq) \in Nat, Len(sq2) \in Nat, NEW p, Proper(sq, p)
    PROVE  Proper(sq2, p) /\ sq2[p.seq] = sq[p.seq]
<1>1. p.seq \in 1..Len(sq2)  BY DEF Grows, Proper
<1>. QED  BY <1>1, ZenonT(30) DEF Grows, Proper

\* The frames on their way leave no gap as log and submissions grow.
LEMMA WireKept ==
    ASSUME NEW lg, NEW lg2, Grows(lg, lg2), Len(lg) \in Nat, Len(lg2) \in Nat,
           NEW sq, NEW sq2, Grows(sq, sq2), Len(sq) \in Nat, Len(sq2) \in Nat,
           NEW up, WireOk(lg, sq, up)
    PROVE  WireOk(lg2, sq2, up)
<1>. USE ZenonT(30)
<1>. SUFFICES ASSUME NEW k \in 1..Len(up)
     PROVE  /\ up[k].type = "FORWARD" /\ Proper(sq2, up[k].p)
            /\ \A s \in 1..(up[k].p.seq - 1) :
                  Logs(lg2, sq2[s]) \/ \E j \in 1..(k - 1) : up[j].p.seq = s
  BY DEF WireOk
<1>1. /\ up[k].type = "FORWARD" /\ Proper(sq, up[k].p)
      /\ \A s \in 1..(up[k].p.seq - 1) :
            Logs(lg, sq[s]) \/ \E j \in 1..(k - 1) : up[j].p.seq = s
  BY DEF WireOk
<1>2. \A s \in 1..(up[k].p.seq - 1) : s \in 1..Len(sq)  BY <1>1, SMTT(30) DEF Proper
<1>3. \A s \in 1..(up[k].p.seq - 1) : sq2[s] = sq[s]  BY <1>2 DEF Grows
<1>4. \A s \in 1..(up[k].p.seq - 1) : Logs(lg, sq[s]) => Logs(lg2, sq2[s])
  BY <1>3, LogsKept
<1>. QED  BY <1>1, <1>4, ProperKept

\* What is on its way stays so as the log grows.
LEMMA UnderwayKept ==
    ASSUME NEW lg, NEW lg2, Grows(lg, lg2), Len(lg) \in Nat, Len(lg2) \in Nat,
           NEW sq, NEW sq2, Grows(sq, sq2), Len(sq) \in Nat, Len(sq2) \in Nat,
           NEW pend, \A a \in 1..Len(pend) : Proper(sq, pend[a]),
           NEW up, Underway(lg, sq, up, pend)
    PROVE  Underway(lg2, sq2, up, pend)
<1>. USE ZenonT(30)
<1>. SUFFICES ASSUME NEW a \in 1..Len(pend)
     PROVE  Logs(lg2, sq2[pend[a].seq]) \/ \E k \in 1..Len(up) : up[k].p.seq = pend[a].seq
  BY DEF Underway
<1>1. Proper(sq, pend[a])  BY SMT
<1>2. sq2[pend[a].seq] = sq[pend[a].seq]  BY <1>1 DEF Proper, Grows
<1>3. Logs(lg, sq[pend[a].seq]) => Logs(lg2, sq[pend[a].seq])  BY LogsKept
<1>. QED  BY <1>2, <1>3 DEF Underway

\* The queues still hold what is missing as the log grows.
LEMMA BacklogKept ==
    ASSUME NEW lg, NEW lg2, Grows(lg, lg2), Len(lg) \in Nat, Len(lg2) \in Nat,
           NEW sq, NEW dr, NEW line, BacklogOk(lg, sq, dr, line)
    PROVE  BacklogOk(lg2, sq, dr, line)
BY LogsKept, ZenonT(30) DEF BacklogOk

\* What is reported stays true as log, commit index and submissions grow.
LEMMA ReportedKept ==
    ASSUME NEW ap, NEW ap2, Grows(ap, ap2), Len(ap) \in Nat, Len(ap2) \in Nat,
           NEW cm \in Nat, NEW cm2 \in Nat, cm <= cm2, cm <= Len(ap),
           NEW sq, NEW sq2, Grows(sq, sq2), Len(sq) \in Nat, Len(sq2) \in Nat,
           NEW D, ReportedOk(ap, cm, sq, D)
    PROVE  ReportedOk(ap2, cm2, sq2, D)
<1>. USE ZenonT(30)
<1>. SUFFICES ASSUME NEW s \in D
     PROVE  s \in 1..Len(sq2) /\ \E m \in 1..cm2 : ap2[m].op = sq2[s]
  BY DEF ReportedOk
<1>1. s \in 1..Len(sq)  BY DEF ReportedOk
<1>2. PICK m \in 1..cm : ap[m].op = sq[s]  BY DEF ReportedOk
<1>3. s \in 1..Len(sq2) /\ m \in 1..cm2 /\ m \in 1..Len(ap)  BY <1>1, SMTT(30) DEF Grows
<1>4. sq2[s] = sq[s] /\ ap2[m] = ap[m]  BY <1>1, <1>3 DEF Grows
<1>. QED  BY <1>2, <1>3, <1>4

\* What an acknowledgement covers may be reported once it is applied.
LEMMA ResolvedReported ==
    ASSUME NEW ap, NEW lg, Grows(ap, lg), Len(ap) \in Nat, Len(lg) \in Nat,
           NEW cm \in Nat, cm <= Len(ap), NEW sq, NEW a \in Acked, AckOk(lg, sq, a), a.index <= cm,
           NEW marked \in Nat
    PROVE  ReportedOk(ap, cm, sq, marked + 1 .. a.seq)
<1>. USE ZenonT(30)
<1>. SUFFICES ASSUME NEW s \in marked + 1 .. a.seq
     PROVE  s \in 1..Len(sq) /\ \E m \in 1..cm : ap[m].op = sq[s]
  BY DEF ReportedOk
<1>0. a.seq \in Nat /\ a.index \in Nat  BY DEF Acked
<1>1. s \in 1..a.seq  BY <1>0, SMTT(30)
<1>2. s \in 1..Len(sq) /\ InLog(lg, sq[s], a.index)  BY <1>1 DEF AckOk
<1>3. PICK k \in 1..Len(lg) : k <= a.index /\ lg[k].op = sq[s]  BY <1>2 DEF InLog
<1>4. k \in 1..cm /\ k \in 1..Len(ap)  BY <1>0, <1>3, SMTT(30)
<1>5. ap[k] = lg[k]  BY <1>4 DEF Grows
<1>. QED  BY <1>2, <1>3, <1>4, <1>5

-----------------------------------------------------------------------------
(* What the steps do to one node's operations.                             *)

\* propose_internal(), first half: the new proposal comes after all others.
LEMMA DrawBacklog ==
    ASSUME NEW lg, NEW sq \in Seq(1..MaxOps), NEW op \in 1..MaxOps, NEW line \in Seq(Proposal),
           BacklogOk(lg, sq, {}, line)
    PROVE  BacklogOk(lg, Append(sq, op), {[op |-> op, seq |-> Len(sq) + 1]}, line)
<1>. USE ZenonT(30)
<1>. DEFINE sq2 == Append(sq, op)
            q == [op |-> op, seq |-> Len(sq) + 1]
<1>1. /\ Len(sq) \in Nat /\ Len(sq2) \in Nat /\ Len(sq2) = Len(sq) + 1 /\ Grows(sq, sq2)
      /\ sq2[Len(sq) + 1] = op
  BY SMTT(30) DEF Grows
<1>. HIDE DEF sq2
<1>2. q.seq = Len(sq2) /\ q.seq = Len(sq) + 1 /\ Proper(sq2, q)
  <2>1. q.seq = Len(sq) + 1 /\ q.op = op  BY SMT
  <2>2. Len(sq) + 1 \in 1..Len(sq2)  BY <1>1, SMTT(30)
  <2>. QED  BY <1>1, <2>1, <2>2 DEF Proper
<1>. HIDE DEF q
<1>3. ASSUME NEW a \in 1..Len(line)  PROVE Proper(sq2, line[a]) /\ line[a].seq < q.seq
  <2>1. Proper(sq, line[a])  BY DEF BacklogOk
  <2>2. Proper(sq2, line[a])  BY <1>1, <2>1, ProperKept
  <2>3. line[a].seq < q.seq  BY <1>1, <1>2, <2>1, SMTT(30) DEF Proper
  <2>. QED  BY SMT, <2>2, <2>3
<1>4. ASSUME NEW s \in 1..Len(sq2)  PROVE Logs(lg, sq2[s]) \/ q.seq = s \/ Has(line, s)
  <2>1. CASE s \in 1..Len(sq)
    <3>1. Logs(lg, sq[s]) \/ Has(line, s)  BY <2>1 DEF BacklogOk
    <3>2. sq2[s] = sq[s]  BY <1>1, <2>1 DEF Grows
    <3>. QED  BY <3>1, <3>2
  <2>2. CASE s \notin 1..Len(sq)  BY <1>1, <1>2, <2>2, SMTT(30)
  <2>. QED  BY SMT, <2>1, <2>2
<1>5. Ascending(line) /\ HasCuts(line)  BY DEF BacklogOk
<1>6. BacklogOk(lg, sq2, {q}, line)  BY <1>2, <1>3, <1>4, <1>5 DEF BacklogOk
<1>. QED  BY SMT, <1>6 DEF sq2, q

\* propose_internal(), second half: it is the last in line.
LEMMA SubmitBacklog ==
    ASSUME NEW lg, NEW sq, NEW dr, NEW p \in dr, NEW line \in Seq(Proposal), p \in Proposal,
           BacklogOk(lg, sq, dr, line)
    PROVE  BacklogOk(lg, sq, dr \ {p}, Append(line, p))
<1>. USE ZenonT(30)
<1>. DEFINE line2 == Append(line, p)
<1>1. /\ Len(line) \in Nat /\ Len(line2) = Len(line) + 1 /\ line2[Len(line) + 1] = p
      /\ \A a \in 1..Len(line) : line2[a] = line[a]
  BY SMTT(30)
<1>. HIDE DEF line2
<1>2. /\ dr = {p} /\ Proper(sq, p) /\ \A a \in 1..Len(line) : line[a].seq < p.seq
      /\ Ascending(line) /\ HasCuts(line) /\ \A a \in 1..Len(line) : Proper(sq, line[a])
      /\ \A s \in 1..Len(sq) : Logs(lg, sq[s]) \/ p.seq = s \/ Has(line, s)
  BY DEF BacklogOk
<1>3. dr \ {p} = {}  BY <1>2
<1>4. \A a \in 1..Len(line2) : a \in 1..Len(line) \/ a = Len(line) + 1  BY <1>1, SMTT(30)
<1>5. Len(line) + 1 \in 1..Len(line2) /\ \A a \in 1..Len(line) : a \in 1..Len(line2)
  BY <1>1, SMTT(30)
<1>6. ASSUME NEW a \in 1..Len(line2), NEW b \in 1..Len(line2), a < b
      PROVE  line2[a].seq < line2[b].seq
  <2>1. a \in 1..Len(line) /\ (b \in 1..Len(line) \/ b = Len(line) + 1)  BY <1>1, <1>6, SMTT(30)
  <2>. QED  BY <1>1, <1>2, <1>6, <2>1 DEF Ascending
<1>7. \A a \in 1..Len(line2) : Proper(sq, line2[a])  BY <1>1, <1>2, <1>4
<1>8. \A s : p.seq = s \/ Has(line, s) => Has(line2, s)  BY <1>1, <1>5 DEF Has
<1>10. ASSUME NEW s \in Nat  PROVE \E n \in 0..Len(line2) : CutAt(line2, s, n)
  <2>1. PICK n \in 0..Len(line) : CutAt(line, s, n)  BY <1>2 DEF HasCuts
  <2>2. p.seq \in Nat /\ \A a \in 1..Len(line) : line[a].seq \in Nat
    <3>1. \A a \in 1..Len(line) : line[a] \in Proposal  BY SeqElement
    <3>. QED  BY <3>1 DEF Proposal
  <2>3. CASE p.seq > s
    <3>1. n \in 0..Len(line2) /\ Len(line) + 1 > n  BY <1>1, SMTT(30)
    <3>2. CutAt(line2, s, n)  BY <1>1, <1>4, <2>1, <2>3, <3>1 DEF CutAt
    <3>. QED  BY <3>1, <3>2
  <2>4. CASE ~(p.seq > s)
    <3>. DEFINE m == Len(line) + 1
    <3>1. m \in 0..Len(line2) /\ \A a \in 1..Len(line2) : ~(a > m)  BY <1>1, SMTT(30)
    <3>2. \A x \in Nat : x < p.seq => ~(x > s)  BY <2>2, <2>4, SMTT(30)
    <3>3. \A a \in 1..Len(line2) : ~(line2[a].seq > s)  BY <1>1, <1>2, <1>4, <2>2, <2>4, <3>2
    <3>. HIDE DEF m
    <3>. QED  BY <3>1, <3>3 DEF CutAt
  <2>. QED  BY <2>3, <2>4
<1>9. BacklogOk(lg, sq, {}, line2)
  BY <1>2, <1>6, <1>7, <1>8, <1>10 DEF BacklogOk, Ascending, HasCuts
<1>. QED  BY <1>3, <1>9 DEF line2

\* leader_append() and forwarding leave no gap: what precedes a proposal in line
\* is in the log or before it in line.
LEMMA LineHasNoGap ==
    ASSUME NEW lg, NEW sq, Len(sq) \in Nat, NEW dr, NEW line \in Seq(Proposal),
           BacklogOk(lg, sq, dr, line), NEW a \in 1..Len(line), NEW s \in 1..(line[a].seq - 1)
    PROVE  s \in 1..Len(sq) /\ (Logs(lg, sq[s]) \/ \E b \in 1..(a - 1) : line[b].seq = s)
<1>. USE ZenonT(30)
<1>1. Len(line) \in Nat /\ \A b \in 1..Len(line) : line[b].seq \in Nat
  <2>1. \A b \in 1..Len(line) : line[b] \in Proposal  BY SeqElement
  <2>. QED  BY <2>1, SeqFields DEF Proposal
<1>2. line[a].seq \in 1..Len(sq)  BY DEF BacklogOk, Proper
<1>3. s \in 1..Len(sq) /\ s < line[a].seq  BY <1>2, SMTT(30)
<1>4. ASSUME NEW p \in dr  PROVE p.seq # s
  <2>1. p.seq \in 1..Len(sq) /\ line[a].seq < p.seq  BY DEF BacklogOk, Proper
  <2>. QED  BY <1>2, <1>3, <2>1, SMTT(30)
<1>5. ASSUME Has(line, s)  PROVE \E b \in 1..(a - 1) : line[b].seq = s
  <2>1. PICK b \in 1..Len(line) : line[b].seq = s  BY <1>5 DEF Has
  <2>2. ~(a < b) /\ a # b
    <3>1. a < b => line[a].seq < line[b].seq  BY DEF BacklogOk, Ascending
    <3>. QED  BY <1>1, <1>3, <2>1, <3>1, SMTT(30)
  <2>3. b \in 1..(a - 1)  BY <1>1, <2>2, SMTT(30)
  <2>. QED  BY <2>1, <2>3
<1>. QED  BY <1>3, <1>4, <1>5 DEF BacklogOk

\* A function on 1..n is a sequence.
LEMMA FunctionIsSeq ==
    ASSUME NEW S, NEW n \in Nat, NEW f \in [1..n -> S]
    PROVE  f \in Seq(S) /\ Len(f) = n
OBVIOUS

\* Frames for the first n proposals of a list.
Frames(list, n) == [k \in 1..n |-> [type |-> "FORWARD", p |-> list[k]]]

\* forward_batch_to_leader(): the proposals that are sent leave no gap on the
\* wire, and what has been sent is on its way.
LEMMA BatchSent ==
    ASSUME NEW lg, NEW sq, Len(sq) \in Nat, NEW dr,
           NEW pend \in Seq(Proposal), NEW list \in Seq(Proposal), NEW rest \in Seq(Proposal),
           BacklogOk(lg, sq, dr, pend \o (list \o rest)),
           NEW up \in Seq(Frame), WireOk(lg, sq, up), Underway(lg, sq, up, pend),
           NEW n \in 0..Len(list)
    PROVE  LET up2 == up \o Frames(list, n)
           IN  /\ up2 \in Seq(Frame) /\ WireOk(lg, sq, up2)
               /\ Underway(lg, sq, up2, pend \o SubSeq(list, 1, n))
<1>. USE ZenonT(30)
<1>. DEFINE fr == Frames(list, n)
            up2 == up \o fr
            line == pend \o (list \o rest)
            pend2 == pend \o SubSeq(list, 1, n)
<1>1. \A k \in 1..Len(list) : list[k] \in Proposal  BY SeqElement
<1>2. Len(list) \in Nat /\ Len(pend) \in Nat /\ Len(up) \in Nat /\ n \in Nat
  BY SeqFields, SMTT(30)
<1>3. fr \in Seq(Frame) /\ Len(fr) = n
      /\ \A k \in 1..n : fr[k].type = "FORWARD" /\ fr[k].p = list[k]
  <2>1. \A k \in 1..n : k \in 1..Len(list)  BY <1>2, SMTT(30)
  <2>2. \A k \in 1..n : [type |-> "FORWARD", p |-> list[k]] \in Frame
    BY <1>1, <2>1 DEF Frame
  <2>3. fr \in [1..n -> Frame]  BY <2>2 DEF Frames
  <2>4. fr \in Seq(Frame) /\ Len(fr) = n
    BY <1>2, <2>3, FunctionIsSeq
  <2>. QED  BY <2>4 DEF Frames
<1>4. list \o rest \in Seq(Proposal) /\ Grows(list, list \o rest)
  BY ConcatGrows
<1>5. /\ line \in Seq(Proposal) /\ Grows(pend, line) /\ Len(line) = Len(pend) + Len(list \o rest)
      /\ \A k \in 1..Len(list \o rest) : line[Len(pend) + k] = (list \o rest)[k]
  BY <1>4, ConcatGrows
<1>6. Len(line) \in Nat /\ Len(list \o rest) \in Nat  BY <1>4, <1>5, SeqFields
<1>7. \A k \in 1..n : /\ k \in 1..Len(list \o rest) /\ k \in 1..Len(list)
                      /\ Len(pend) + k \in 1..Len(line)
  BY <1>2, <1>4, <1>5, <1>6, SMTT(30) DEF Grows
<1>8. \A k \in 1..n : line[Len(pend) + k] = list[k]
  BY <1>4, <1>5, <1>7 DEF Grows
<1>. HIDE DEF fr
<1>9. /\ up2 \in Seq(Frame) /\ Len(up2) = Len(up) + n /\ Grows(up, up2)
      /\ \A k \in 1..n : up2[Len(up) + k] = fr[k]
  <2>1. fr \in Seq(Frame)  BY SMT, <1>3
  <2>2. /\ up \o fr \in Seq(Frame) /\ Len(up \o fr) = Len(up) + Len(fr) /\ Grows(up, up \o fr)
        /\ \A k \in 1..Len(fr) : (up \o fr)[Len(up) + k] = fr[k]
    BY <2>1, ConcatGrows
  <2>. QED  BY <1>3, <2>2
<1>. HIDE DEF up2
<1>10. \A k \in 1..n : /\ Len(up) + k \in 1..Len(up2)
                       /\ up2[Len(up) + k].type = "FORWARD" /\ up2[Len(up) + k].p = list[k]
  <2>1. \A k \in 1..n : Len(up) + k \in 1..Len(up2)  BY <1>2, <1>9, SMTT(30)
  <2>. QED  BY <1>3, <1>9, <2>1
<1>11. \A k \in 1..Len(up) : k \in 1..Len(up2) /\ up2[k] = up[k]
  <2>1. \A k \in 1..Len(up) : k \in 1..Len(up2)  BY <1>2, <1>9, SMTT(30)
  <2>. QED  BY <1>9, <2>1 DEF Grows
<1>. HIDE DEF line
<1>12. BacklogOk(lg, sq, dr, line)  BY SMT DEF line
<1>13. ASSUME NEW k \in 1..n, NEW s \in 1..(list[k].seq - 1)
       PROVE  Logs(lg, sq[s]) \/ \E j \in 1..(Len(up) + k - 1) : up2[j].p.seq = s
  <2>1. Logs(lg, sq[s]) \/ \E b \in 1..(Len(pend) + k - 1) : line[b].seq = s
    <3>1. PICK a \in 1..Len(line) : a = Len(pend) + k  BY <1>7
    <3>2. s \in 1..(line[a].seq - 1)  BY <1>8, <3>1
    <3>3. Logs(lg, sq[s]) \/ \E b \in 1..(a - 1) : line[b].seq = s
      BY <1>5, <1>12, <3>2, LineHasNoGap
    <3>. QED  BY <3>1, <3>3, SMTT(30)
  <2>2. ASSUME NEW b \in 1..Len(pend), line[b].seq = s
        PROVE  Logs(lg, sq[s]) \/ \E j \in 1..(Len(up) + k - 1) : up2[j].p.seq = s
    <3>1. pend[b].seq = s  BY <1>5, <2>2 DEF Grows
    <3>2. Logs(lg, sq[s]) \/ \E j \in 1..Len(up) : up[j].p.seq = s  BY <3>1 DEF Underway
    <3>3. \A j \in 1..Len(up) : j \in 1..(Len(up) + k - 1)  BY <1>2, SMTT(30)
    <3>. QED  BY <1>11, <3>2, <3>3
  <2>3. ASSUME NEW b \in 1..(Len(pend) + k - 1), b \notin 1..Len(pend), line[b].seq = s
        PROVE  \E j \in 1..(Len(up) + k - 1) : up2[j].p.seq = s
    <3>1. PICK c \in 1..n : b = Len(pend) + c /\ c <= k - 1
      <4>1. b - Len(pend) \in 1..n /\ b = Len(pend) + (b - Len(pend)) /\ b - Len(pend) <= k - 1
        <5>1. \A x, y \in Nat : \A z \in 1..y : \A v \in 1..(x + z - 1) : v \notin 1..x =>
                v - x \in 1..y /\ v = x + (v - x) /\ v - x <= z - 1
          BY SMTT(30)
        <5>. QED  BY <1>2, <2>3, <5>1
      <4>. QED  BY <4>1
    <3>2. list[c].seq = s  BY <1>8, <2>3, <3>1
    <3>3. up2[Len(up) + c].p.seq = s  BY <1>10, <3>2
    <3>4. Len(up) + c \in 1..(Len(up) + k - 1)  BY <1>2, <3>1, SMTT(30)
    <3>. QED  BY <3>3, <3>4
  <2>. QED  BY <2>1, <2>2, <2>3
<1>14. WireOk(lg, sq, up2)
  <2>. SUFFICES ASSUME NEW x \in 1..Len(up2)
       PROVE  /\ up2[x].type = "FORWARD" /\ Proper(sq, up2[x].p)
              /\ \A s \in 1..(up2[x].p.seq - 1) :
                    Logs(lg, sq[s]) \/ \E j \in 1..(x - 1) : up2[j].p.seq = s
    BY DEF WireOk
  <2>1. CASE x \in 1..Len(up)
    <3>1. \A j \in 1..(x - 1) : j \in 1..Len(up)  BY <1>2, <2>1, SMTT(30)
    <3>2. up2[x] = up[x] /\ \A j \in 1..(x - 1) : up2[j] = up[j]  BY <1>11, <2>1, <3>1
    <3>3. /\ up[x].type = "FORWARD" /\ Proper(sq, up[x].p)
          /\ \A s \in 1..(up[x].p.seq - 1) :
                Logs(lg, sq[s]) \/ \E j \in 1..(x - 1) : up[j].p.seq = s
      BY <2>1 DEF WireOk
    <3>. QED  BY <3>2, <3>3
  <2>2. CASE x \notin 1..Len(up)
    <3>1. PICK k \in 1..n : x = Len(up) + k
      <4>1. x - Len(up) \in 1..n /\ x = Len(up) + (x - Len(up))  BY <1>2, <1>9, <2>2, SMTT(30)
      <4>. QED  BY <4>1
    <3>2. Proper(sq, list[k])  BY <1>7, <1>8, <1>12 DEF BacklogOk
    <3>3. up2[x].type = "FORWARD" /\ up2[x].p = list[k]  BY <1>10, <3>1
    <3>4. \A s \in 1..(list[k].seq - 1) :
            Logs(lg, sq[s]) \/ \E j \in 1..(x - 1) : up2[j].p.seq = s
      BY <1>13, <3>1, SMTT(30)
    <3>. QED  BY <3>2, <3>3, <3>4
  <2>. QED  BY SMT, <2>1, <2>2
<1>15. Underway(lg, sq, up2, pend2)
  <2>1. SubSeq(list, 1, n) \in Seq(Proposal) /\ Len(SubSeq(list, 1, n)) = n
        /\ \A k \in 1..n : SubSeq(list, 1, n)[k] = list[k]
    BY <1>2, SMTT(30)
  <2>2. /\ pend2 \in Seq(Proposal) /\ Len(pend2) = Len(pend) + n
        /\ Grows(pend, pend2) /\ \A k \in 1..n : pend2[Len(pend) + k] = list[k]
    <3>. DEFINE x == SubSeq(list, 1, n)
    <3>. HIDE DEF x
    <3>1. /\ pend \o x \in Seq(Proposal) /\ Len(pend \o x) = Len(pend) + Len(x)
          /\ Grows(pend, pend \o x) /\ \A k \in 1..Len(x) : (pend \o x)[Len(pend) + k] = x[k]
      BY <2>1, ConcatGrows DEF x
    <3>2. Len(x) = n /\ \A k \in 1..n : x[k] = list[k]  BY SMT, <2>1 DEF x
    <3>3. pend2 = pend \o x  BY SMT DEF x
    <3>. QED  BY <3>1, <3>2, <3>3
  <2>. HIDE DEF pend2
  <2>. SUFFICES ASSUME NEW a \in 1..Len(pend2)
       PROVE  Logs(lg, sq[pend2[a].seq]) \/ \E k \in 1..Len(up2) : up2[k].p.seq = pend2[a].seq
    BY DEF Underway
  <2>3. CASE a \in 1..Len(pend)
    <3>1. pend2[a] = pend[a]  BY <2>2, <2>3 DEF Grows
    <3>. QED  BY <1>11, <2>3, <3>1 DEF Underway
  <2>4. CASE a \notin 1..Len(pend)
    <3>1. PICK k \in 1..n : a = Len(pend) + k
      <4>1. a - Len(pend) \in 1..n /\ a = Len(pend) + (a - Len(pend))
        BY <1>2, <2>2, <2>4, SMTT(30)
      <4>. QED  BY <4>1
    <3>. QED  BY <1>10, <2>2, <3>1
  <2>. QED  BY SMT, <2>3, <2>4
<1>. QED  BY SMT, <1>9, <1>14, <1>15 DEF up2, fr

\* requeue_proposals(): sending the first n proposals of a batch leaves the
\* node's line as it is.
LEMMA BatchLine ==
    ASSUME NEW pend \in Seq(Proposal), NEW list \in Seq(Proposal), NEW rest \in Seq(Proposal),
           NEW n \in 0..Len(list)
    PROVE  /\ Unconfirmed(pend, list, n) \in Seq(Proposal)
           /\ Requeued(list, n, rest) \in Seq(Proposal)
           /\ Unconfirmed(pend, list, n) \o Requeued(list, n, rest) = pend \o (list \o rest)
<1>. USE ZenonT(30)
<1>. DEFINE x == SubSeq(list, 1, n)
            y == SubSeq(list, n + 1, Len(list))
<1>1. Len(list) \in Nat  BY SeqFields
<1>2. x \in Seq(Proposal) /\ y \in Seq(Proposal)  BY <1>1, SMTT(30)
<1>3. x \o y = list
  <2>1. /\ Len(x) = n /\ Len(y) = Len(list) - n
        /\ \A k \in 1..n : x[k] = list[k]
        /\ \A m \in 1..(Len(list) - n) : y[m] = list[n + m]
    BY SMT, <1>1
  <2>. HIDE DEF x, y
  <2>2. /\ x \o y \in Seq(Proposal) /\ Len(x \o y) = Len(x) + Len(y)
        /\ \A k \in 1..(Len(x) + Len(y)) :
              (x \o y)[k] = IF k <= Len(x) THEN x[k] ELSE y[k - Len(x)]
    BY <1>2, SeqConcat
  <2>3. Len(x) + Len(y) = Len(list)  BY SMT, <1>1, <2>1
  <2>4. ASSUME NEW k \in 1..Len(list)  PROVE (x \o y)[k] = list[k]
    <3>1. (x \o y)[k] = IF k <= n THEN x[k] ELSE y[k - n]  BY <2>1, <2>2, <2>3
    <3>2. CASE k <= n
      <4>1. k \in 1..n  BY SMT, <3>2
      <4>. QED  BY <2>1, <3>1, <3>2, <4>1
    <3>3. CASE ~(k <= n)
      <4>1. k - n \in 1..(Len(list) - n) /\ n + (k - n) = k  BY SMT, <1>1, <3>3
      <4>. QED  BY <2>1, <3>1, <3>3, <4>1
    <3>. QED  BY <3>2, <3>3
  <2>5. x \o y \in Seq(Proposal) /\ Len(x \o y) = Len(list)  BY <2>2, <2>3
  <2>. QED  BY <2>4, <2>5, SeqSame
<1>. HIDE DEF x, y
<1>4. pend \o x \in Seq(Proposal) /\ y \o rest \in Seq(Proposal)
  BY <1>2, SeqConcat
<1>a. \A u, v, w \in Seq(Proposal) : (u \o v) \o w = u \o (v \o w)
  BY SeqAssociative, SMTT(30)
<1>5. (pend \o x) \o (y \o rest) = pend \o (x \o (y \o rest))
  BY <1>a, <1>2, <1>4
<1>6. x \o (y \o rest) = list \o rest
  <2>1. (x \o y) \o rest = x \o (y \o rest)  BY <1>a, <1>2
  <2>. QED  BY <1>3, <2>1
<1>. QED  BY <1>4, <1>5, <1>6 DEF Unconfirmed, Requeued, x, y

\* cl_dispatch(CL_FRAME_FORWARD): once the first frame's proposal is in the log,
\* the others leave no gap.
LEMMA FrameRead ==
    ASSUME NEW lg, NEW lg2, Grows(lg, lg2), Len(lg) \in Nat, Len(lg2) \in Nat, NEW sq,
           NEW up \in Seq(Frame), up # <<>>, WireOk(lg, sq, up), Logs(lg2, sq[up[1].p.seq])
    PROVE  /\ WireOk(lg2, sq, Tail(up))
           /\ \A pend : Underway(lg, sq, up, pend) => Underway(lg2, sq, Tail(up), pend)
<1>. USE ZenonT(30)
<1>1. /\ Len(up) \in Nat /\ Len(Tail(up)) = Len(up) - 1 /\ Len(up) # 0
      /\ \A k \in 1..Len(Tail(up)) : Tail(up)[k] = up[k + 1]
  BY SeqTail, SeqFields, SeqEmpty, SMTT(30)
<1>2. \A k \in 1..Len(Tail(up)) : k + 1 \in 1..Len(up)  BY <1>1, SMTT(30)
<1>3. \A k \in 1..Len(up) : k # 1 => k - 1 \in 1..Len(Tail(up)) /\ (k - 1) + 1 = k
  BY <1>1, SMTT(30)
<1>4. WireOk(lg2, sq, Tail(up))
  <2>. SUFFICES ASSUME NEW k \in 1..Len(Tail(up))
       PROVE  /\ Tail(up)[k].type = "FORWARD" /\ Proper(sq, Tail(up)[k].p)
              /\ \A s \in 1..(Tail(up)[k].p.seq - 1) :
                    Logs(lg2, sq[s]) \/ \E j \in 1..(k - 1) : Tail(up)[j].p.seq = s
    BY DEF WireOk
  <2>1. Tail(up)[k] = up[k + 1]  BY <1>1
  <2>2. ASSUME NEW s \in 1..(up[k + 1].p.seq - 1)
        PROVE  Logs(lg2, sq[s]) \/ \E j \in 1..(k - 1) : Tail(up)[j].p.seq = s
    <3>0. PICK x \in 1..Len(up) : x = k + 1  BY <1>2
    <3>1. Logs(lg, sq[s]) \/ \E j \in 1..(x - 1) : up[j].p.seq = s
      BY <3>0 DEF WireOk
    <3>2. ASSUME NEW j \in 1..(x - 1), j # 1, up[j].p.seq = s
          PROVE  \E h \in 1..(k - 1) : Tail(up)[h].p.seq = s
      <4>1. j - 1 \in 1..(k - 1) /\ j \in 1..Len(up)  BY <1>1, <3>0, <3>2, SMTT(30)
      <4>2. Tail(up)[j - 1] = up[j]  BY <1>1, <1>3, <3>2, <4>1
      <4>. QED  BY <3>2, <4>1, <4>2
    <3>. QED  BY <3>1, <3>2, LogsKept
  <2>. QED  BY <1>2, <2>1, <2>2 DEF WireOk
<1>5. ASSUME NEW pend, Underway(lg, sq, up, pend)  PROVE Underway(lg2, sq, Tail(up), pend)
  <2>. SUFFICES ASSUME NEW a \in 1..Len(pend)
       PROVE  \/ Logs(lg2, sq[pend[a].seq])
              \/ \E k \in 1..Len(Tail(up)) : Tail(up)[k].p.seq = pend[a].seq
    BY DEF Underway
  <2>1. Logs(lg, sq[pend[a].seq]) \/ \E k \in 1..Len(up) : up[k].p.seq = pend[a].seq
    BY <1>5 DEF Underway
  <2>2. ASSUME NEW k \in 1..Len(up), k # 1
        PROVE  k - 1 \in 1..Len(Tail(up)) /\ Tail(up)[k - 1] = up[k]
    BY <1>1, <1>3, <2>2
  <2>3. Logs(lg, sq[pend[a].seq]) => Logs(lg2, sq[pend[a].seq])  BY LogsKept
  <2>4. up[1].p.seq = pend[a].seq => Logs(lg2, sq[pend[a].seq])  OBVIOUS
  <2>5. ASSUME NEW k \in 1..Len(up), k # 1, up[k].p.seq = pend[a].seq
        PROVE  \E h \in 1..Len(Tail(up)) : Tail(up)[h].p.seq = pend[a].seq
    BY <2>2, <2>5
  <2>. QED  BY <2>1, <2>3, <2>4, <2>5
<1>. QED  BY SMT, <1>4, <1>5

\* leader_append(): the log lg2 is lg and the operations of the list.
Extends(lg, lg2, list) ==
    /\ Grows(lg, lg2) /\ Len(lg2) = Len(lg) + Len(list)
    /\ \A k \in 1..Len(list) : lg2[Len(lg) + k].op = list[k].op

\* A step appends to the leader's log nothing that is committed.
AppendsNew ==
    \A n \in 1..Len(Main') :
        n \in 1..Len(Main) \/ \A m \in 1..commit[FirstLeader] : Main[m].op # Main'[n].op

\* No operation is submitted twice by the node.
Injective(sq) == \A s, t \in 1..Len(sq) : sq[s] = sq[t] => s = t

\* The list leaves no gap behind the log.
NoGap(lg, sq, list) ==
    \A k \in 1..Len(list) :
        /\ Proper(sq, list[k])
        /\ \A s \in 1..(list[k].seq - 1) :
                Logs(lg, sq[s]) \/ \E j \in 1..(k - 1) : list[j].seq = s

\* An index of the longer log is one of the shorter or that of a list element.
LEMMA ExtendsIndex ==
    ASSUME NEW lg, NEW lg2, NEW list, Len(lg) \in Nat, Len(list) \in Nat, Extends(lg, lg2, list),
           NEW n \in 1..Len(lg2)
    PROVE  n \in 1..Len(lg) \/ \E k \in 1..Len(list) : n = Len(lg) + k
<1>1. n - Len(lg) \in Int /\ n = Len(lg) + (n - Len(lg))  BY DEF Extends
<1>2. n \in 1..Len(lg) \/ n - Len(lg) \in 1..Len(list)  BY DEF Extends
<1>. QED  BY <1>1, <1>2, ZenonT(30)

\* Every element of the list is in the longer log.
LEMMA ExtendsLogs ==
    ASSUME NEW lg, NEW lg2, NEW list, Len(lg) \in Nat, Len(list) \in Nat, Extends(lg, lg2, list),
           NEW k \in 1..Len(list)
    PROVE  /\ Len(lg) + k \in 1..Len(lg2) /\ Logs(lg2, list[k].op)
           /\ \A n \in Nat : Len(lg) + k <= n => InLog(lg2, list[k].op, n)
<1>. USE ZenonT(30)
<1>1. Len(lg) + k \in 1..Len(lg2)  BY SMTT(30) DEF Extends
<1>2. lg2[Len(lg) + k].op = list[k].op  BY DEF Extends
<1>. QED  BY <1>1, <1>2 DEF Logs, InLog

\* leader_append() keeps the order of the submitting node's operations.
LEMMA AppendOrdered ==
    ASSUME NEW lg, NEW lg2, NEW sq, NEW list, Len(lg) \in Nat, Len(lg2) \in Nat, Len(sq) \in Nat,
           Len(list) \in Nat, Extends(lg, lg2, list), Ordered(lg, sq), Injective(sq),
           NoGap(lg, sq, list)
    PROVE  Ordered(lg2, sq)
<1>. USE ZenonT(30)
<1>. SUFFICES ASSUME NEW t \in 1..Len(sq), NEW n \in 1..Len(lg2), lg2[n].op = sq[t],
                     NEW s \in 1..t
     PROVE  InLog(lg2, sq[s], n)
  BY DEF Ordered
<1>1. Grows(lg, lg2)  BY DEF Extends
<1>2. CASE n \in 1..Len(lg)
  <2>1. lg[n].op = sq[t]  BY <1>1, <1>2 DEF Grows
  <2>2. InLog(lg, sq[s], n)  BY <1>2, <2>1 DEF Ordered
  <2>. QED  BY <1>1, <2>2, LogsKept
<1>3. CASE n \notin 1..Len(lg)
  <2>1. PICK k \in 1..Len(list) : n = Len(lg) + k  BY <1>3, ExtendsIndex, SMTT(30)
  <2>2. Proper(sq, list[k])  BY DEF NoGap
  <2>3. list[k].op = sq[t]  BY <2>1 DEF Extends
  <2>4. t = list[k].seq  BY <2>2, <2>3 DEF Injective, Proper
  <2>5. CASE s = t
    <3>1. n \in Nat /\ Len(lg) + k <= n  BY <2>1, SMTT(30)
    <3>. QED  BY <2>3, <2>5, <3>1, ExtendsLogs
  <2>6. CASE s # t
    <3>1. s \in 1..(t - 1) /\ s \in 1..Len(sq)  BY <2>6, SMTT(30)
    <3>2. Logs(lg, sq[s]) \/ \E j \in 1..(k - 1) : list[j].seq = s
      <4>1. s \in 1..(list[k].seq - 1)  BY <2>4, <3>1
      <4>. QED  BY <4>1 DEF NoGap
    <3>3. ASSUME Logs(lg, sq[s])  PROVE InLog(lg2, sq[s], n)
      <4>1. PICK m \in 1..Len(lg) : lg[m].op = sq[s]  BY <3>3 DEF Logs
      <4>2. m <= n /\ m \in 1..Len(lg2)  BY <2>1, SMTT(30) DEF Extends
      <4>3. lg2[m].op = sq[s]  BY <1>1, <4>1 DEF Grows
      <4>. QED  BY <4>2, <4>3 DEF InLog
    <3>4. ASSUME NEW j \in 1..(k - 1), list[j].seq = s  PROVE InLog(lg2, sq[s], n)
      <4>1. j \in 1..Len(list) /\ n \in Nat /\ Len(lg) + j <= n  BY <2>1, SMTT(30)
      <4>2. list[j].op = sq[s]  BY <3>4, <4>1 DEF NoGap, Proper
      <4>. QED  BY <4>1, <4>2, ExtendsLogs
    <3>. QED  BY <3>2, <3>3, <3>4
  <2>. QED  BY SMT, <2>5, <2>6
<1>. QED  BY SMT, <1>2, <1>3

\* It keeps that of the other nodes' operations, which are not in the list.
LEMMA OthersOrdered ==
    ASSUME NEW lg, NEW lg2, NEW sq, NEW list, Len(lg) \in Nat, Len(lg2) \in Nat, Len(list) \in Nat,
           Extends(lg, lg2, list), Ordered(lg, sq),
           \A k \in 1..Len(list) : \A t \in 1..Len(sq) : list[k].op # sq[t]
    PROVE  Ordered(lg2, sq)
<1>. USE ZenonT(30)
<1>. SUFFICES ASSUME NEW t \in 1..Len(sq), NEW n \in 1..Len(lg2), lg2[n].op = sq[t],
                     NEW s \in 1..t
     PROVE  InLog(lg2, sq[s], n)
  BY DEF Ordered
<1>1. Grows(lg, lg2)  BY DEF Extends
<1>2. n \in 1..Len(lg)
  <2>. SUFFICES ASSUME NEW k \in 1..Len(list), n = Len(lg) + k  PROVE FALSE
    BY ExtendsIndex, SMTT(30)
  <2>1. lg2[n].op = list[k].op  BY DEF Extends
  <2>. QED  BY <2>1
<1>3. lg[n].op = sq[t]  BY <1>1, <1>2 DEF Grows
<1>4. InLog(lg, sq[s], n)  BY <1>2, <1>3 DEF Ordered
<1>. QED  BY <1>1, <1>4, LogsKept

\* The larger of two acknowledgements holds too.
LEMMA FurthestOk ==
    ASSUME NEW lg, NEW sq, Len(lg) \in Nat, NEW a \in Acked, NEW b \in Acked,
           AckOk(lg, sq, a), AckOk(lg, sq, b)
    PROVE  Furthest(a, b) \in Acked /\ AckOk(lg, sq, Furthest(a, b))
<1>. USE ZenonT(30)
<1>. DEFINE c == Furthest(a, b)
<1>1. /\ a.seq \in Nat /\ a.index \in Nat /\ b.seq \in Nat /\ b.index \in Nat
      /\ c.seq = Greater(a.seq, b.seq) /\ c.index = Greater(a.index, b.index)
  BY DEF Acked, Furthest
<1>2. /\ c.seq \in Nat /\ c.index \in Nat /\ a.index <= c.index /\ b.index <= c.index
      /\ \A s \in 1..c.seq : s \in 1..a.seq \/ s \in 1..b.seq
  <2>1. c.seq \in Nat /\ c.index \in Nat /\ a.index <= c.index /\ b.index <= c.index
    BY <1>1, SMTT(30) DEF Greater
  <2>2. c.seq = a.seq \/ c.seq = b.seq  BY <1>1, SMTT(30) DEF Greater
  <2>. QED  BY <2>1, <2>2
<1>3. c \in Acked  BY <1>1, <1>2 DEF Acked, Furthest
<1>. HIDE DEF c
<1>4. ASSUME NEW s \in 1..c.seq  PROVE s \in 1..Len(sq) /\ InLog(lg, sq[s], c.index)
  <2>1. CASE s \in 1..a.seq
    <3>1. s \in 1..Len(sq) /\ InLog(lg, sq[s], a.index)  BY <2>1 DEF AckOk
    <3>. QED  BY <1>1, <1>2, <3>1, InLogLater
  <2>2. CASE s \in 1..b.seq
    <3>1. s \in 1..Len(sq) /\ InLog(lg, sq[s], b.index)  BY <2>2 DEF AckOk
    <3>. QED  BY <1>1, <1>2, <3>1, InLogLater
  <2>. QED  BY <1>2, <2>1, <2>2
<1>5. AckOk(lg, sq, c)  BY <1>4 DEF AckOk
<1>. QED  BY SMT, <1>3, <1>5 DEF c

\* What is left of a list when the first n are removed: its elements are those at
\* the places at[1], at[2], ...
LeftAt(new, list, n, at) ==
    /\ at \in [1..Len(new) -> (n + 1)..Len(list)]
    /\ \A k, m \in 1..Len(new) : k < m => at[k] < at[m]
    /\ \A b \in (n + 1)..Len(list) : \E k \in 1..Len(new) : at[k] = b
    /\ \A k \in 1..Len(new) : new[k] = list[at[k]]

\* Newer() removes what is acknowledged and keeps the rest in order.
LEMMA NewerKeeps ==
    ASSUME NEW list \in Seq(Proposal), NEW seq \in Nat, NEW n \in 0..Len(list),
           CutAt(list, seq, n)
    PROVE  Newer(list, seq) \in Seq(Proposal) /\ \E at : LeftAt(Newer(list, seq), list, n, at)
<1>. USE ZenonT(30)
<1>. DEFINE keep == {k \in DOMAIN list : list[k].seq > seq}
            InOrder(x) == /\ keep = {x[k] : k \in DOMAIN x}
                          /\ \A k, m \in DOMAIN x : k < m => x[k] < x[m]
            W == UNION {[1..h -> keep] : h \in 0..Len(list)}
            at == CHOOSE x \in W : InOrder(x)
            w == [k \in 1..(Len(list) - n) |-> n + k]
            new == [k \in DOMAIN at |-> list[at[k]]]
<1>1. Newer(list, seq) = new  BY DEF Newer
<1>2. Len(list) \in Nat /\ DOMAIN list = 1..Len(list)  BY SeqFields
<1>3. keep = (n + 1)..Len(list)
  <2>1. \A k \in 1..Len(list) : k > n <=> k \in (n + 1)..Len(list)  BY <1>2, SMTT(30)
  <2>2. \A k \in (n + 1)..Len(list) : k \in 1..Len(list)  BY <1>2, SMTT(30)
  <2>. QED  BY <1>2, <2>1, <2>2 DEF CutAt
<1>. HIDE DEF keep
<1>4. w \in W /\ InOrder(w)
  <2>1. Len(list) - n \in 0..Len(list)  BY <1>2, SMTT(30)
  <2>2. w \in [1..(Len(list) - n) -> keep]  BY <1>2, <1>3, SMTT(30)
  <2>3. \A b \in keep : \E k \in 1..(Len(list) - n) : b = n + k
    <3>. SUFFICES ASSUME NEW b \in keep  PROVE \E k \in 1..(Len(list) - n) : b = n + k
      OBVIOUS
    <3>1. b - n \in 1..(Len(list) - n) /\ b = n + (b - n)  BY <1>2, <1>3, SMTT(30)
    <3>. QED  BY <3>1
  <2>4. \A k, m \in 1..(Len(list) - n) : k < m => n + k < n + m  BY SMTT(30)
  <2>5. DOMAIN w = 1..(Len(list) - n) /\ \A k \in 1..(Len(list) - n) : w[k] = n + k  OBVIOUS
  <2>. HIDE DEF w
  <2>6. w \in W  BY <2>1, <2>2
  <2>7. \A k \in 1..(Len(list) - n) : w[k] \in keep  BY <2>2
  <2>8. \A b \in keep : \E k \in DOMAIN w : b = w[k]  BY <2>3, <2>5
  <2>9. keep = {w[k] : k \in DOMAIN w}  BY <2>5, <2>7, <2>8
  <2>. QED  BY <2>4, <2>5, <2>6, <2>9
<1>5. at \in W /\ InOrder(at)
  <2>. HIDE DEF W, InOrder
  <2>. QED  BY <1>4
<1>. HIDE DEF at
<1>6. PICK h \in 0..Len(list) : at \in [1..h -> keep]  BY <1>5
<1>7. h \in Nat /\ \A b \in keep : b \in 1..Len(list)  BY <1>2, <1>3, <1>6, SMTT(30)
<1>8. new \in [1..h -> Proposal]  BY <1>6, <1>7, SeqElement
<1>9. new \in Seq(Proposal) /\ Len(new) = h  BY <1>7, <1>8, FunctionIsSeq
<1>10. \A k \in 1..h : new[k] = list[at[k]]  BY <1>6
<1>. HIDE DEF new
<1>11. LeftAt(new, list, n, at)
  <2>1. DOMAIN at = 1..h  BY <1>6
  <2>2. /\ \A k, m \in 1..h : k < m => at[k] < at[m]
        /\ \A b \in keep : \E k \in 1..h : at[k] = b
    BY <1>5, <2>1
  <2>3. at \in [1..h -> (n + 1)..Len(list)]  BY <1>3, <1>6
  <2>. QED  BY <1>3, <1>9, <1>10, <2>2, <2>3 DEF LeftAt
<1>. QED  BY <1>1, <1>9, <1>11

\* cl_dispatch(CL_FRAME_FORWARD_ACK): what is removed from fwd_pending is in the
\* log.
LEMMA AckBacklog ==
    ASSUME NEW lg, Len(lg) \in Nat, NEW sq, Len(sq) \in Nat, NEW dr,
           NEW pend \in Seq(Proposal), NEW rest \in Seq(Proposal),
           BacklogOk(lg, sq, dr, pend \o rest), NEW a \in Acked, AckOk(lg, sq, a)
    PROVE  /\ Newer(pend, a.seq) \in Seq(Proposal)
           /\ BacklogOk(lg, sq, dr, Newer(pend, a.seq) \o rest)
           /\ \A up : Underway(lg, sq, up, pend) => Underway(lg, sq, up, Newer(pend, a.seq))
<1>. USE ZenonT(30)
<1>. DEFINE new == Newer(pend, a.seq)
            line == pend \o rest
            line2 == new \o rest
<1>1. /\ line \in Seq(Proposal) /\ Len(line) = Len(pend) + Len(rest) /\ Grows(pend, line)
      /\ \A k \in 1..Len(rest) : line[Len(pend) + k] = rest[k]
  BY ConcatGrows
<1>2. Len(pend) \in Nat /\ Len(rest) \in Nat /\ a.seq \in Nat
  BY SeqFields DEF Acked
<1>. HIDE DEF line
<1>3. BacklogOk(lg, sq, dr, line)  BY SMT DEF line
<1>4. /\ \A k \in 1..Len(pend) : k \in 1..Len(line) /\ line[k] = pend[k]
      /\ \A k \in 1..Len(rest) : Len(pend) + k \in 1..Len(line)
  <2>1. /\ \A k \in 1..Len(pend) : k \in 1..Len(line)
        /\ \A k \in 1..Len(rest) : Len(pend) + k \in 1..Len(line)
    BY <1>1, <1>2, SMTT(30)
  <2>. QED  BY <1>1, <2>1 DEF Grows
<1>5. Ascending(pend)  BY <1>3, <1>4 DEF BacklogOk, Ascending
<1>6. PICK c \in 0..Len(line) : CutAt(line, a.seq, c)  BY <1>2, <1>3 DEF BacklogOk, HasCuts
<1>16. PICK n \in 0..Len(pend) : CutAt(pend, a.seq, n) /\ (n = c \/ (n = Len(pend) /\ n < c))
  <2>. DEFINE n == IF c <= Len(pend) THEN c ELSE Len(pend)
  <2>1. /\ n \in 0..Len(pend) /\ (n = c \/ (n = Len(pend) /\ n < c))
        /\ \A k \in 1..Len(pend) : k > n <=> k > c
    BY <1>1, <1>2, SMTT(30)
  <2>. HIDE DEF n
  <2>2. CutAt(pend, a.seq, n)  BY <1>4, <1>6, <2>1 DEF CutAt
  <2>. QED  BY <2>1, <2>2
<1>17. new \in Seq(Proposal) /\ \E at : LeftAt(new, pend, n, at)  BY <1>2, <1>16, NewerKeeps
<1>. HIDE DEF new
<1>18. PICK at : LeftAt(new, pend, n, at)  BY <1>17
<1>19. /\ \A x \in 1..Len(new) : at[x] \in 1..Len(pend) /\ new[x] = pend[at[x]]
       /\ \A x, y \in 1..Len(new) : x < y => at[x] < at[y]
       /\ \A b \in 1..Len(pend) : pend[b].seq > a.seq => \E x \in 1..Len(new) : at[x] = b
  <2>1. \A b \in (n + 1)..Len(pend) : b \in 1..Len(pend)  BY <1>2, SMTT(30)
  <2>2. \A b \in 1..Len(pend) : b > n => b \in (n + 1)..Len(pend)  BY <1>2, SMTT(30)
  <2>. QED  BY <1>16, <1>18, <2>1, <2>2 DEF LeftAt, CutAt
<1>7. /\ line2 \in Seq(Proposal) /\ Len(line2) = Len(new) + Len(rest) /\ Grows(new, line2)
      /\ \A k \in 1..Len(rest) : line2[Len(new) + k] = rest[k]
  BY <1>17, ConcatGrows
<1>8. Len(new) \in Nat  BY <1>17, SeqFields
<1>. HIDE DEF line2
<1>9. /\ \A k \in 1..Len(new) : k \in 1..Len(line2) /\ line2[k] = new[k]
      /\ \A k \in 1..Len(rest) : Len(new) + k \in 1..Len(line2)
  <2>1. /\ \A k \in 1..Len(new) : k \in 1..Len(line2)
        /\ \A k \in 1..Len(rest) : Len(new) + k \in 1..Len(line2)
    BY <1>2, <1>7, <1>8, SMTT(30)
  <2>. QED  BY <1>7, <2>1 DEF Grows
<1>21. ASSUME NEW x \in 1..Len(new)
       PROVE  /\ at[x] \in 1..Len(pend) /\ at[x] \in 1..Len(line)
              /\ line2[x] = line[at[x]] /\ line2[x] = new[x] /\ new[x] = pend[at[x]]
  <2>1. PICK b \in 1..Len(pend) : b = at[x]  BY <1>19
  <2>2. new[x] = pend[b] /\ line2[x] = new[x]  BY <1>9, <1>19, <2>1
  <2>3. b \in 1..Len(line) /\ line[b] = pend[b]  BY <1>4
  <2>. QED  BY <2>1, <2>2, <2>3
<1>10. \A x \in 1..Len(line2) : x \in 1..Len(new) \/ \E k \in 1..Len(rest) : x = Len(new) + k
  <2>. SUFFICES ASSUME NEW x \in 1..Len(line2), x \notin 1..Len(new)
       PROVE  \E k \in 1..Len(rest) : x = Len(new) + k
    OBVIOUS
  <2>1. x - Len(new) \in 1..Len(rest) /\ x = Len(new) + (x - Len(new))
    BY <1>2, <1>7, <1>8, SMTT(30)
  <2>. QED  BY <2>1
<1>11. \A x \in 1..Len(line2) : \E y \in 1..Len(line) : line2[x] = line[y]
  <2>1. \A x \in 1..Len(new) : \E y \in 1..Len(line) : line2[x] = line[y]
    BY <1>21
  <2>2. \A k \in 1..Len(rest) : line2[Len(new) + k] = line[Len(pend) + k]
    BY <1>1, <1>7
  <2>. QED  BY <1>4, <1>10, <2>1, <2>2
<1>12. ASSUME NEW x \in 1..Len(line2), NEW y \in 1..Len(line2), x < y
       PROVE  line2[x].seq < line2[y].seq
  <2>1. CASE y \in 1..Len(new)
    <3>1. x \in 1..Len(new)  BY <1>8, <1>12, <2>1, SMTT(30)
    <3>2. at[x] < at[y]  BY <1>12, <1>19, <2>1, <3>1
    <3>3. PICK b \in 1..Len(pend) : b = at[x]  BY <1>21, <3>1
    <3>4. PICK d \in 1..Len(pend) : d = at[y]  BY <1>21, <2>1
    <3>5. pend[b].seq < pend[d].seq  BY <1>5, <3>2, <3>3, <3>4 DEF Ascending
    <3>. QED  BY <1>21, <2>1, <3>1, <3>3, <3>4, <3>5
  <2>2. CASE y \notin 1..Len(new)
    <3>1. PICK k \in 1..Len(rest) : y = Len(new) + k  BY <1>10, <2>2
    <3>2. line2[y] = line[Len(pend) + k]  BY <1>1, <1>7, <3>1
    <3>3. CASE x \in 1..Len(new)
      <4>1. PICK b \in 1..Len(pend) : new[x] = pend[b]  BY <3>3, <1>19
      <4>2. line2[x] = line[b]  BY <1>4, <1>9, <3>3, <4>1
      <4>3. b < Len(pend) + k  BY <1>2, SMTT(30)
      <4>4. line[b].seq < line[Len(pend) + k].seq
        BY <1>3, <1>4, <4>3 DEF BacklogOk, Ascending
      <4>. QED  BY <3>2, <4>2, <4>4
    <3>4. CASE x \notin 1..Len(new)
      <4>1. PICK h \in 1..Len(rest) : x = Len(new) + h  BY <1>10, <3>4
      <4>2. line2[x] = line[Len(pend) + h]  BY <1>1, <1>7, <4>1
      <4>3. Len(pend) + h < Len(pend) + k  BY <1>2, <1>8, <1>12, <3>1, <4>1, SMTT(30)
      <4>4. line[Len(pend) + h].seq < line[Len(pend) + k].seq
        BY <1>3, <1>4, <4>3 DEF BacklogOk, Ascending
      <4>. QED  BY <3>2, <4>2, <4>4
    <3>. QED  BY SMT, <3>3, <3>4
  <2>. QED  BY SMT, <2>1, <2>2
<1>13. ASSUME NEW s \in 1..Len(sq), Has(line, s)  PROVE Logs(lg, sq[s]) \/ Has(line2, s)
  <2>1. PICK x \in 1..Len(line) : line[x].seq = s  BY <1>13 DEF Has
  <2>2. CASE s \in 1..a.seq
    <3>1. InLog(lg, sq[s], a.index)  BY <2>2 DEF AckOk
    <3>. QED  BY <3>1 DEF InLog, Logs
  <2>3. CASE s \notin 1..a.seq
    <3>1. s > a.seq  BY <1>2, <2>3, SMTT(30)
    <3>2. CASE x \in 1..Len(pend)
      <4>1. pend[x].seq = s  BY <1>4, <2>1, <3>2
      <4>2. PICK h \in 1..Len(new) : at[h] = x  BY <1>19, <3>1, <3>2, <4>1
      <4>3. new[h] = pend[x]  BY <1>21, <4>2
      <4>. QED  BY <1>9, <4>1, <4>3 DEF Has
    <3>3. CASE x \notin 1..Len(pend)
      <4>1. x - Len(pend) \in 1..Len(rest) /\ x = Len(pend) + (x - Len(pend))
        BY <1>1, <1>2, <3>3, SMTT(30)
      <4>2. PICK k \in 1..Len(rest) : x = Len(pend) + k  BY <4>1
      <4>3. line2[Len(new) + k].seq = s  BY <1>1, <1>7, <2>1, <4>2
      <4>. QED  BY <1>9, <4>3 DEF Has
    <3>. QED  BY SMT, <3>2, <3>3
  <2>. QED  BY SMT, <2>2, <2>3
<1>20. ASSUME NEW s \in Nat  PROVE \E e \in 0..Len(line2) : CutAt(line2, s, e)
  <2>1. PICK e \in 0..Len(line) : CutAt(line, s, e)  BY <1>3 DEF BacklogOk, HasCuts
  <2>2. \A x \in 1..Len(new) : line2[x].seq > s <=> at[x] > e
    BY <1>21, <2>1 DEF CutAt
  <2>3. \A k \in 1..Len(rest) : line2[Len(new) + k].seq > s <=> Len(pend) + k > e
    BY <1>1, <1>4, <1>7, <2>1 DEF CutAt
  <2>4. CASE e > Len(pend)
    <3>. DEFINE f == Len(new) + (e - Len(pend))
    <3>1. /\ f \in 0..Len(line2) /\ \A k \in 1..Len(rest) : Len(pend) + k > e <=> Len(new) + k > f
          /\ \A x \in 1..Len(new) : ~(x > f)
      BY <1>1, <1>2, <1>7, <1>8, <2>4, SMTT(30)
    <3>2. \A x \in 1..Len(pend) : ~(x > e)  BY <1>2, <2>4, SMTT(30)
    <3>. HIDE DEF f
    <3>4. \A x \in 1..Len(new) : ~(at[x] > e)  BY <1>21, <3>2
    <3>3. CutAt(line2, s, f)  BY <1>10, <2>2, <2>3, <3>1, <3>4 DEF CutAt
    <3>. QED  BY <3>1, <3>3
  <2>5. CASE e <= n
    <3>1. 0 \in 0..Len(line2) /\ \A x \in 1..Len(line2) : x > 0  BY <1>2, <1>7, <1>8, SMTT(30)
    <3>2. \A x \in (n + 1)..Len(pend) : x > e  BY <1>1, <1>2, <2>5, SMTT(30)
    <3>3. \A k \in 1..Len(rest) : Len(pend) + k > e  BY <1>1, <1>2, <2>5, SMTT(30)
    <3>4. \A x \in 1..Len(new) : at[x] > e  BY <1>18, <3>2 DEF LeftAt
    <3>5. CutAt(line2, s, 0)  BY <1>10, <2>2, <2>3, <3>1, <3>3, <3>4 DEF CutAt
    <3>. QED  BY <3>1, <3>5
  <2>6. CASE ~(e > Len(pend)) /\ ~(e <= n)
    <3>1. e \in (n + 1)..Len(pend)  BY <1>1, <1>2, <2>6, SMTT(30)
    <3>2. PICK f \in 1..Len(new) : at[f] = e  BY <1>18, <3>1 DEF LeftAt
    <3>3. \A x \in 1..Len(new) : at[x] > e <=> x > f
      <4>1. \A x \in 1..Len(new) : x < f \/ x = f \/ x > f  BY <1>8, SMTT(30)
      <4>2. \A x \in 1..Len(new) : x > f => f < x /\ ~(x < f) /\ x # f  BY <1>8, SMTT(30)
      <4>3. \A x \in 1..Len(new) : at[x] \in Nat /\ e \in Nat
        <5>1. \A x \in 1..Len(pend) : x \in Nat  BY SMTT(30)
        <5>. QED  BY <1>19, <3>2, <5>1
      <4>4. \A x, y \in Nat : (x < y => ~(x > y)) /\ (y < x => x > y) /\ ~(x > x)  BY SMTT(30)
      <4>. QED  BY <1>19, <3>2, <4>1, <4>2, <4>3, <4>4
    <3>4. f \in 0..Len(line2)  BY <1>2, <1>7, <1>8, SMTT(30)
    <3>5. \A k \in 1..Len(rest) : Len(pend) + k > e /\ Len(new) + k > f
      BY <1>1, <1>2, <1>8, <2>6, SMTT(30)
    <3>6. CutAt(line2, s, f)  BY <1>10, <2>2, <2>3, <3>3, <3>5 DEF CutAt
    <3>. QED  BY <3>4, <3>6
  <2>. QED  BY <2>4, <2>5, <2>6
<1>14. BacklogOk(lg, sq, dr, line2)
  <2>1. \A x \in 1..Len(line2) : Proper(sq, line2[x])  BY <1>3, <1>11 DEF BacklogOk
  <2>2. \A p \in dr : \A x \in 1..Len(line2) : line2[x].seq < p.seq
    BY <1>3, <1>11 DEF BacklogOk
  <2>3. Ascending(line2)  BY <1>12 DEF Ascending
  <2>4. \A s \in 1..Len(sq) : Logs(lg, sq[s]) \/ (\E p \in dr : p.seq = s) \/ Has(line2, s)
    BY <1>3, <1>13 DEF BacklogOk
  <2>5. \A p \in dr : dr = {p} /\ p.seq = Len(sq) /\ Proper(sq, p)  BY <1>3 DEF BacklogOk
  <2>. QED  BY <1>20, <2>1, <2>2, <2>3, <2>4, <2>5 DEF BacklogOk, HasCuts
<1>15. \A up : Underway(lg, sq, up, pend) => Underway(lg, sq, up, new)
  <2>. SUFFICES ASSUME NEW up, Underway(lg, sq, up, pend), NEW x \in 1..Len(new)
       PROVE  Logs(lg, sq[new[x].seq]) \/ \E k \in 1..Len(up) : up[k].p.seq = new[x].seq
    BY DEF Underway
  <2>1. PICK b \in 1..Len(pend) : new[x] = pend[b]  BY <1>21
  <2>. QED  BY <2>1 DEF Underway
<1>. QED  BY SMT, <1>14, <1>15, <1>17 DEF new, line2

-----------------------------------------------------------------------------
(* The steps keep the invariant.                                           *)

\* The data of a node.
LEMMA NodeData ==
    ASSUME Data, NEW i \in Node
    PROVE  /\ log[i] \in Seq(LogEntry) /\ Len(log[i]) \in Nat /\ commit[i] \in Nat
           /\ seqs[i] \in Seq(1..MaxOps) /\ Len(seqs[i]) \in Nat
           /\ drawn[i] \in SUBSET Proposal
           /\ inbox[i] \in Seq(Proposal) /\ fwdPending[i] \in Seq(Proposal)
           /\ Line(i) \in Seq(Proposal)
           /\ \A j \in Node : chan[i][j] \in Seq(Frame)
           /\ fwdAcked[i] \in Acked /\ fwdMarked[i] \in Nat
           /\ ackPending[i] \in Seq(AckEntry) /\ Len(ackPending[i]) \in Nat
           /\ \A j \in Node : committedFwd[i][j] \in Acked
<1>. USE ZenonT(30)
<1>1. /\ log[i] \in Seq(LogEntry) /\ commit[i] \in Nat /\ seqs[i] \in Seq(1..MaxOps)
      /\ drawn[i] \in SUBSET Proposal
      /\ inbox[i] \in Seq(Proposal) /\ fwdPending[i] \in Seq(Proposal)
      /\ \A j \in Node : chan[i][j] \in Seq(Frame)
      /\ fwdAcked[i] \in Acked /\ fwdMarked[i] \in Nat /\ ackPending[i] \in Seq(AckEntry)
      /\ \A j \in Node : committedFwd[i][j] \in Acked
  BY ZenonT(60) DEF Data
<1>2. Line(i) \in Seq(Proposal)  BY <1>1, SeqConcat DEF Line
<1>3. Len(log[i]) \in Nat /\ Len(seqs[i]) \in Nat /\ Len(ackPending[i]) \in Nat
  BY <1>1, SeqFields
<1>. QED  BY SMT, <1>1, <1>2, <1>3

\* What is sent and not acknowledged was submitted.
LEMMA PendingProper ==
    ASSUME Data, Backlog, NEW j \in Node
    PROVE  \A a \in 1..Len(fwdPending[j]) : Proper(seqs[j], fwdPending[j][a])
<1>. USE ZenonT(30)
<1>1. inbox[j] \in Seq(Proposal) /\ fwdPending[j] \in Seq(Proposal)  BY NodeData
<1>2. /\ Grows(fwdPending[j], Line(j)) /\ Len(fwdPending[j]) \in Nat /\ Len(inbox[j]) \in Nat
      /\ Len(Line(j)) = Len(fwdPending[j]) + Len(inbox[j])
  BY <1>1, ConcatGrows, SeqFields DEF Line
<1>3. \A a \in 1..Len(fwdPending[j]) : a \in 1..Len(Line(j))
  <2>1. \A x, y \in Nat : \A a \in 1..x : a \in 1..(x + y)  BY SMTT(30)
  <2>. QED  BY <1>2, <2>1
<1>4. \A a \in 1..Len(Line(j)) : Proper(seqs[j], Line(j)[a])  BY DEF Backlog, BacklogOk
<1>. QED  BY <1>2, <1>3, <1>4 DEF Grows

\* Every operation in the log has been submitted by some node.
LEMMA LoggedWasSubmitted ==
    ASSUME Sound, NEW n \in 1..Len(Main)
    PROVE  \E o \in Node : \E q \in 1..Len(seqs[o]) : Main[n].op = seqs[o][q]
<1>. USE ZenonT(30)
<1>0. FirstLeader \in Node  BY SMT, ForwardingAssumption
<1>1. /\ commit[FirstLeader] \in Nat /\ Len(Main) \in Nat /\ Len(ackPending[FirstLeader]) \in Nat
      /\ ackPending[FirstLeader] \in Seq(AckEntry)
  BY <1>0, NodeData DEF Sound, Main
<1>2. CASE n \in 1..commit[FirstLeader]  BY <1>2 DEF Sound, Settled
<1>3. CASE n \notin 1..commit[FirstLeader]
  <2>1. Len(ackPending[FirstLeader]) = Len(Main) - commit[FirstLeader]
    BY DEF Sound, Tracked
  <2>2. /\ n - commit[FirstLeader] \in 1..Len(ackPending[FirstLeader])
        /\ n = commit[FirstLeader] + (n - commit[FirstLeader])
    BY <1>1, <1>3, <2>1, SMTT(30)
  <2>3. PICK m \in 1..Len(ackPending[FirstLeader]) : n = commit[FirstLeader] + m
    BY <2>2
  <2>. DEFINE a == ackPending[FirstLeader][m]
  <2>4. a.origin \in Node
    <3>1. a \in AckEntry  BY <1>1, SeqElement
    <3>. QED  BY <3>1 DEF AckEntry
  <2>5. a.index = n /\ a.seq \in 1..Len(seqs[a.origin]) /\ Main[a.index].op = seqs[a.origin][a.seq]
    BY <2>3 DEF Sound, Tracked
  <2>. QED  BY <2>4, <2>5
<1>. QED  BY SMT, <1>2, <1>3

\* A set of one proposal has size one.
LEMMA SingletonSize ==
    ASSUME NEW p
    PROVE  Cardinality({p}) = 1
<1>. DEFINE S == {p}
            body(f, T) == IF T = {} THEN 0 ELSE 1 + f[T \ {CHOOSE x : x \in T}]
            IsSize(f) == f = [T \in SUBSET S |-> body(f, T)]
            size == CHOOSE f : IsSize(f)
            g == [T \in SUBSET S |-> IF T = {} THEN 0 ELSE 1]
<1>1. IsSize(g)
  <2>1. \A T \in SUBSET S : T = {} \/ T = {p}  OBVIOUS
  <2>2. (CHOOSE x : x \in {p}) = p /\ g[{}] = 0  OBVIOUS
  <2>3. \A T \in SUBSET S : body(g, T) = IF T = {} THEN 0 ELSE 1  BY <2>1, <2>2
  <2>. QED  BY <2>3, ZenonT(30)
<1>2. IsSize(size)  BY <1>1, ZenonT(30)
<1>3. Cardinality(S) = size[S]  BY ZenonT(30) DEF Cardinality
<1>. HIDE DEF size
<1>4. size[{}] = 0  BY <1>2
<1>5. size[S] = 1 + size[{}]  BY <1>2
<1>. QED  BY <1>3, <1>4, <1>5

\* propose_internal(), first half.
LEMMA DrawKeeps ==
    ASSUME Settings, Steady, Sound, NEW i \in Node, Draw(i)
    PROVE  Sound'
<1>. USE ZenonT(30)
<1>0. FirstLeader \in Node  BY SMT, ForwardingAssumption
<1>. DEFINE op == happened["op"] + 1
            q == [op |-> op, seq |-> Len(seqs[i]) + 1]
<1>1. happened["op"] \in Nat /\ happened'["op"] = op /\ op \in 1..MaxOps
  <2>1. happened["op"] \in Nat  BY DEF Settings, Events
  <2>2. happened["op"] < setup.may["op"]  BY DEF Draw, Spend
  <2>3. setup.may["op"] \in 0..MaxOps
    <3>1. setup \in Scenario  BY ForwardingAssumption DEF Settings
    <3>. QED  BY <3>1 DEF Scenario, Events
  <2>4. happened'["op"] = happened["op"] + (IF "op" \in {"op"} THEN 1 ELSE 0)
    BY DEF Draw, Spend, Events
  <2>5. MaxOps \in Nat  BY ForwardingAssumption
  <2>. QED  BY <2>1, <2>2, <2>3, <2>4, <2>5, SMTT(30)
<1>2. /\ seqs' = [seqs EXCEPT ![i] = Append(@, op)]
      /\ drawn' = [drawn EXCEPT ![i] = @ \cup {[op |-> op, seq |-> Len(seqs'[i])]}]
  BY <1>1 DEF Draw
<1>. HIDE DEF op
<1>3. /\ term' = term /\ leading' = leading /\ leaderId' = leaderId /\ log' = log
      /\ commit' = commit /\ link' = link /\ chan' = chan /\ inbox' = inbox
      /\ fwdPending' = fwdPending /\ fwdAcked' = fwdAcked /\ fwdMarked' = fwdMarked
      /\ done' = done /\ ackPending' = ackPending /\ committedFwd' = committedFwd
  BY DEF Draw, raftVars, statusVars, leaderVars
<1>4. Data  BY SMT DEF Sound
<1>5. /\ seqs[i] \in Seq(1..MaxOps) /\ Len(seqs[i]) \in Nat
      /\ Append(seqs[i], op) \in Seq(1..MaxOps) /\ Len(Append(seqs[i], op)) = Len(seqs[i]) + 1
      /\ Grows(seqs[i], Append(seqs[i], op)) /\ Append(seqs[i], op)[Len(seqs[i]) + 1] = op
  <2>1. seqs[i] \in Seq(1..MaxOps) /\ Len(seqs[i]) \in Nat  BY <1>4, NodeData
  <2>2. op \in 1..MaxOps  BY SMT, <1>1
  <2>. QED  BY <2>1, <2>2, AppendGrows
<1>6. /\ seqs'[i] = Append(seqs[i], op) /\ \A j \in Node : j # i => seqs'[j] = seqs[j]
      /\ seqs' \in [Node -> Seq(1..MaxOps)]
  BY <1>2, <1>4, <1>5 DEF Data
<1>7. \A j \in Node : /\ Grows(seqs[j], seqs'[j])
                      /\ Len(seqs[j]) \in Nat /\ Len(seqs'[j]) \in Nat
  <2>1. \A j \in Node : Len(seqs[j]) \in Nat  BY <1>4, NodeData
  <2>2. Len(Append(seqs[i], op)) \in Nat  BY <1>5, SMTT(30)
  <2>3. \A j \in Node : Len(seqs'[j]) \in Nat  BY <1>6, <2>1, <2>2
  <2>4. \A j \in Node : j # i => Grows(seqs[j], seqs'[j])  BY <1>6, <2>1, SMTT(30) DEF Grows
  <2>. QED  BY <1>5, <1>6, <2>1, <2>3, <2>4
<1>8. drawn[i] = {}
  <2>. SUFFICES ASSUME NEW p \in drawn[i]  PROVE FALSE
    BY SMT
  <2>1. drawn[i] = {p}  BY DEF Sound, Backlog, BacklogOk
  <2>2. Cardinality(drawn[i]) = 1  BY <2>1, SingletonSize
  <2>3. Cardinality(drawn[i]) < 1  BY DEF Draw, Steady
  <2>. QED  BY <2>2, <2>3, SMTT(30)
<1>9. drawn'[i] = {q} /\ \A j \in Node : j # i => drawn'[j] = drawn[j]
  BY <1>2, <1>4, <1>5, <1>6, <1>8 DEF Data
<1>10. q \in Proposal /\ q.op = op /\ q.seq = Len(seqs[i]) + 1
  <2>1. Len(seqs[i]) + 1 \in Nat  BY <1>5, SMTT(30)
  <2>. QED  BY <1>1, <2>1 DEF Proposal
<1>11. \A n \in 1..Len(Main) : Main[n].op # op
  <2>. SUFFICES ASSUME NEW n \in 1..Len(Main), Main[n].op = op  PROVE FALSE
    BY SMT
  <2>1. PICK o \in Node : \E s \in 1..Len(seqs[o]) : Main[n].op = seqs[o][s]
    BY LoggedWasSubmitted
  <2>2. PICK s \in 1..Len(seqs[o]) : op = seqs[o][s]  BY <2>1
  <2>3. seqs[o][s] <= happened["op"]  BY DEF Sound, Distinct
  <2>. QED  BY <1>1, <2>2, <2>3, SMTT(30) DEF op
<1>12. Main' = Main /\ \A j \in Node : Line(j)' = Line(j)  BY <1>3 DEF Main, Line
<1>13. Len(Main) \in Nat /\ Grows(Main, Main)
  <2>1. Len(Main) \in Nat  BY <1>0, <1>4, NodeData DEF Main
  <2>. QED  BY <2>1, SMTT(30) DEF Grows
<1>. HIDE DEF q
<1>20. Data'
  <2>1. drawn' \in [Node -> SUBSET Proposal]
    <3>1. drawn' = [drawn EXCEPT ![i] = drawn'[i]]  BY <1>2, <1>4 DEF Data
    <3>2. drawn'[i] \in SUBSET Proposal  BY <1>9, <1>10
    <3>. QED  BY <1>4, <3>1, <3>2 DEF Data
  <2>. QED  BY <1>3, <1>4, <1>6, <2>1, ZenonT(60) DEF Data
<1>21. OneLeader' /\ Copies' /\ Silent'
  BY <1>3 DEF Sound, OneLeader, Copies, Silent, Main
<1>22. Distinct'
  <2>1. \A s \in 1..Len(seqs'[i]) : s \in 1..Len(seqs[i]) \/ s = Len(seqs[i]) + 1
    BY <1>5, <1>6, SMTT(30)
  <2>2. \A j \in Node : \A s \in 1..Len(seqs[j]) : seqs'[j][s] = seqs[j][s]
    BY <1>7 DEF Grows
  <2>3. \A j \in Node : \A s \in 1..Len(seqs'[j]) :
            s \in 1..Len(seqs[j]) \/ (j = i /\ s = Len(seqs[i]) + 1 /\ seqs'[j][s] = op)
    BY <1>5, <1>6, <2>1
  <2>4. \A j \in Node : \A s \in 1..Len(seqs[j]) : seqs[j][s] <= op /\ seqs[j][s] # op
    <3>1. \A j \in Node : \A s \in 1..Len(seqs[j]) :
            seqs[j][s] \in 1..MaxOps /\ seqs[j][s] <= happened["op"]
      <4>1. \A j \in Node : \A s \in 1..Len(seqs[j]) : seqs[j][s] \in 1..MaxOps
        BY <1>4, NodeData, SeqElement
      <4>. QED  BY <4>1 DEF Sound, Distinct
    <3>2. \A x \in 1..MaxOps : x <= happened["op"] => x <= op /\ x # op  BY <1>1, SMTT(30) DEF op
    <3>. QED  BY <3>1, <3>2
  <2>5. op <= op  BY <1>1, SMTT(30)
  <2>6. ASSUME NEW j \in Node, NEW s \in 1..Len(seqs'[j]), NEW k \in Node,
               NEW t \in 1..Len(seqs'[k]), seqs'[j][s] = seqs'[k][t]
        PROVE  j = k /\ s = t
    <3>1. CASE s \in 1..Len(seqs[j]) /\ t \in 1..Len(seqs[k])
      <4>1. seqs[j][s] = seqs[k][t]  BY <2>2, <2>6, <3>1
      <4>. QED  BY <3>1, <4>1 DEF Sound, Distinct
    <3>2. CASE ~(s \in 1..Len(seqs[j])) /\ t \in 1..Len(seqs[k])
      BY <2>2, <2>3, <2>4, <2>6, <3>2
    <3>3. CASE s \in 1..Len(seqs[j]) /\ ~(t \in 1..Len(seqs[k]))
      BY <2>2, <2>3, <2>4, <2>6, <3>3
    <3>4. CASE ~(s \in 1..Len(seqs[j])) /\ ~(t \in 1..Len(seqs[k]))
      BY <2>3, <3>4
    <3>. QED  BY <3>1, <3>2, <3>3, <3>4
  <2>7. \A j \in Node : \A s \in 1..Len(seqs'[j]) : seqs'[j][s] <= op
    BY <2>2, <2>3, <2>4, <2>5
  <2>. QED  BY <1>1, <2>6, <2>7 DEF Distinct
<1>23. LogOrder'
  <2>. SUFFICES ASSUME NEW j \in Node, NEW t \in 1..Len(seqs'[j]), NEW n \in 1..Len(Main),
                       Main[n].op = seqs'[j][t], NEW s \in 1..t
       PROVE  InLog(Main, seqs'[j][s], n)
    BY <1>12 DEF LogOrder, Ordered
  <2>1. t \in 1..Len(seqs[j])
    <3>1. CASE j = i
      <4>1. t \in 1..Len(seqs[i]) \/ t = Len(seqs[i]) + 1  BY <1>5, <1>6, <3>1, SMTT(30)
      <4>. QED  BY <1>5, <1>6, <1>11, <3>1, <4>1
    <3>2. CASE j # i  BY <1>6, <3>2
    <3>. QED  BY SMT, <3>1, <3>2
  <2>2. s \in 1..Len(seqs[j])  BY <1>7, <2>1, SMTT(30)
  <2>3. seqs'[j][t] = seqs[j][t] /\ seqs'[j][s] = seqs[j][s]
    BY <1>7, <2>1, <2>2 DEF Grows
  <2>4. Main[n].op = seqs[j][t]  BY <2>3
  <2>5. Ordered(Main, seqs[j])  BY DEF Sound, LogOrder
  <2>6. InLog(Main, seqs[j][s], n)  BY <2>1, <2>4, <2>5 DEF Ordered
  <2>. QED  BY <2>3, <2>6
<1>24. Backlog'
  <2>1. \A j \in Node : j # i => BacklogOk(Main', seqs'[j], drawn'[j], Line(j)')
    BY <1>6, <1>9, <1>12 DEF Sound, Backlog
  <2>2. BacklogOk(Main, seqs[i], {}, Line(i))  BY <1>8 DEF Sound, Backlog
  <2>3. Line(i) \in Seq(Proposal)  BY <1>4, NodeData
  <2>4. BacklogOk(Main, Append(seqs[i], op), {q}, Line(i))
    BY <1>1, <1>5, <2>2, <2>3, DrawBacklog DEF q
  <2>. QED  BY <1>6, <1>9, <1>12, <2>1, <2>4 DEF Backlog
<1>25. Wire'
  <2>1. \A j \in Node : WireOk(Main, seqs'[j], chan[j][FirstLeader])
    BY <1>7, <1>13, WireKept DEF Sound, Wire
  <2>. QED  BY <1>3, <1>12, <2>1 DEF Wire
<1>26. OnWire'
  <2>1. \A j \in Node : \A a \in 1..Len(fwdPending[j]) : Proper(seqs[j], fwdPending[j][a])
    BY <1>4, PendingProper DEF Sound
  <2>2. \A j \in Node : <<j, FirstLeader>> \in link =>
            Underway(Main, seqs'[j], chan[j][FirstLeader], fwdPending[j])
    BY <1>7, <1>13, <2>1, UnderwayKept DEF Sound, OnWire
  <2>. QED  BY <1>3, <1>12, <2>2 DEF OnWire
<1>27. Acks'
  <2>1. \A j \in Node : /\ AckOk(Main, seqs'[j], fwdAcked[j])
                        /\ AckOk(Main, seqs'[j], committedFwd[FirstLeader][j])
                        /\ j # FirstLeader => AcksOk(Main, seqs'[j], chan[FirstLeader][j])
    BY <1>7, <1>13, AckKept, AcksKept DEF Sound, Acks
  <2>2. fwdAcked' = fwdAcked /\ committedFwd' = committedFwd /\ chan' = chan  BY SMT, <1>3
  <2>. QED  BY <1>12, <2>1, <2>2 DEF Acks
<1>28. Own'
  <2>1. ~Logs(Main, op)  BY <1>11 DEF Logs
  <2>2. \A p \in drawn'[FirstLeader] : ~Logs(Main, p.op)
    BY <1>0, <1>9, <1>10, <2>1 DEF Sound, Own
  <2>. QED  BY <1>3, <1>12, <2>2 DEF Sound, Own
<1>29. Settled'
  <2>1. ASSUME NEW n \in 1..commit[FirstLeader]
        PROVE  \E o \in Node : \E s \in 1..Len(seqs'[o]) :
                 /\ Main[n].op = seqs'[o][s]
                 /\ o = FirstLeader \/ s <= committedFwd[FirstLeader][o].seq
    <3>1. PICK o \in Node : \E s \in 1..Len(seqs[o]) :
                 /\ Main[n].op = seqs[o][s]
                 /\ o = FirstLeader \/ s <= committedFwd[FirstLeader][o].seq
      BY DEF Sound, Settled
    <3>2. PICK s \in 1..Len(seqs[o]) :
                 /\ Main[n].op = seqs[o][s]
                 /\ o = FirstLeader \/ s <= committedFwd[FirstLeader][o].seq
      BY <3>1
    <3>3. s \in 1..Len(seqs'[o])  BY <1>7, SMTT(30) DEF Grows
    <3>4. seqs'[o][s] = seqs[o][s]  BY <1>7 DEF Grows
    <3>. QED  BY <3>2, <3>3, <3>4
  <2>. QED  BY <1>3, <1>12, <2>1 DEF Settled
<1>30. Tracked'
  <2>1. ASSUME NEW m \in 1..Len(ackPending[FirstLeader])
        PROVE  LET a == ackPending[FirstLeader][m]
               IN  a.seq \in 1..Len(seqs'[a.origin]) /\ Main[a.index].op = seqs'[a.origin][a.seq]
    <3>. DEFINE a == ackPending[FirstLeader][m]
    <3>1. a.origin \in Node
      <4>1. a \in AckEntry  BY <1>0, <1>4, NodeData, SeqElement
      <4>. QED  BY <4>1 DEF AckEntry
    <3>2. a.seq \in 1..Len(seqs[a.origin]) /\ Main[a.index].op = seqs[a.origin][a.seq]
      BY DEF Sound, Tracked
    <3>. HIDE DEF a
    <3>3. a.seq \in 1..Len(seqs'[a.origin])  BY <1>7, <3>1, <3>2, SMTT(30) DEF Grows
    <3>4. seqs'[a.origin][a.seq] = seqs[a.origin][a.seq]  BY <1>7, <3>1, <3>2 DEF Grows
    <3>. QED  BY <3>2, <3>3, <3>4 DEF a
  <2>. QED  BY <1>3, <1>12, <2>1 DEF Sound, Tracked
<1>31. Reported'
  <2>1. \A j \in Node : /\ Len(log[j]) \in Nat /\ Grows(log[j], log[j]) /\ commit[j] \in Nat
                        /\ commit[j] <= commit[j] /\ commit[j] <= Len(log[j])
    <3>1. \A j \in Node : Len(log[j]) \in Nat /\ commit[j] \in Nat  BY <1>4, NodeData
    <3>2. \A j \in Node : Grows(log[j], log[j]) /\ commit[j] <= commit[j]
      BY <3>1, SMTT(30) DEF Grows
    <3>. QED  BY <3>1, <3>2 DEF Sound, Copies
  <2>2. \A j \in Node : ReportedOk(log[j], commit[j], seqs'[j], done[j])
    BY <1>7, <2>1, ReportedKept DEF Sound, Reported
  <2>. QED  BY <1>3, <2>2 DEF Reported
<1>. QED
  BY SMT, <1>20, <1>21, <1>22, <1>23, <1>24, <1>25, <1>26, <1>27, <1>28, <1>29, <1>30, <1>31 DEF Sound

\* The consensus' part of the invariant depends on these variables only.
LEMMA LogKept ==
    ASSUME Sound, UNCHANGED <<leading, leaderId, log, commit, seqs, committedFwd, ackPending>>,
           happened'["op"] = happened["op"]
    PROVE  /\ OneLeader' /\ Copies' /\ Distinct' /\ LogOrder' /\ Settled' /\ Tracked'
           /\ Main' = Main
<1>. USE ZenonT(30)
<1>1. /\ leading' = leading /\ leaderId' = leaderId /\ log' = log /\ commit' = commit
      /\ seqs' = seqs /\ committedFwd' = committedFwd /\ ackPending' = ackPending
  BY SMT
<1>2. OneLeader'  BY <1>1 DEF Sound, OneLeader
<1>3. Copies'  BY <1>1 DEF Sound, Copies, Main
<1>4. Distinct'  BY <1>1 DEF Sound, Distinct
<1>5. LogOrder'  BY <1>1 DEF Sound, LogOrder, Main
<1>6. Settled'  BY <1>1 DEF Sound, Settled, Main
<1>7. Tracked'  BY <1>1 DEF Sound, Tracked, Main
<1>8. Main' = Main  BY SMT, <1>1 DEF Main
<1>. QED  BY SMT, <1>2, <1>3, <1>4, <1>5, <1>6, <1>7, <1>8

\* propose_internal(), second half.
LEMMA SubmitKeeps ==
    ASSUME Sound, NEW i \in Node, NEW p \in drawn[i], Submit(i, p)
    PROVE  Sound'
<1>. USE ZenonT(30)
<1>0. FirstLeader \in Node  BY SMT, ForwardingAssumption
<1>1. /\ drawn' = [drawn EXCEPT ![i] = @ \ {p}] /\ inbox' = [inbox EXCEPT ![i] = Append(@, p)]
      /\ happened' = happened
      /\ term' = term /\ leading' = leading /\ leaderId' = leaderId /\ log' = log
      /\ commit' = commit /\ link' = link /\ chan' = chan /\ seqs' = seqs
      /\ fwdPending' = fwdPending /\ fwdAcked' = fwdAcked /\ fwdMarked' = fwdMarked
      /\ done' = done /\ ackPending' = ackPending /\ committedFwd' = committedFwd
  BY DEF Submit, raftVars, statusVars, leaderVars
<1>2. Data  BY SMT DEF Sound
<1>3. /\ inbox[i] \in Seq(Proposal) /\ fwdPending[i] \in Seq(Proposal) /\ p \in Proposal
      /\ Line(i) \in Seq(Proposal)
  BY <1>2, NodeData
<1>4. Append(inbox[i], p) \in Seq(Proposal)  BY <1>3, SeqAppend
<1>5. /\ inbox'[i] = Append(inbox[i], p) /\ \A j \in Node : j # i => inbox'[j] = inbox[j]
      /\ drawn'[i] = drawn[i] \ {p} /\ \A j \in Node : j # i => drawn'[j] = drawn[j]
  BY <1>1, <1>2 DEF Data
<1>6. Line(i)' = Append(Line(i), p) /\ \A j \in Node : j # i => Line(j)' = Line(j)
  <2>1. \A j \in Node : j # i => Line(j)' = Line(j)  BY <1>1, <1>5 DEF Line
  <2>2. Line(i)' = fwdPending[i] \o Append(inbox[i], p)  BY <1>1, <1>5 DEF Line
  <2>3. \A x, y \in Seq(Proposal) : x \o Append(y, p) = Append(x \o y, p)
    <3>. SUFFICES ASSUME NEW x \in Seq(Proposal), NEW y \in Seq(Proposal)
         PROVE  x \o Append(y, p) = Append(x \o y, p)
      BY SMT
    <3>1. x \o y \in Seq(Proposal) /\ <<p>> \in Seq(Proposal)
      BY <1>3, SMTT(30)
    <3>2. Append(y, p) = y \o <<p>> /\ Append(x \o y, p) = (x \o y) \o <<p>>
      BY <1>3, <3>1, SeqAppend
    <3>3. (x \o y) \o <<p>> = x \o (y \o <<p>>)  BY <3>1, SeqAssociative, SMTT(30)
    <3>. QED  BY <3>2, <3>3
  <2>. QED  BY <1>3, <2>1, <2>2, <2>3 DEF Line
<1>7. /\ OneLeader' /\ Copies' /\ Distinct' /\ LogOrder' /\ Settled' /\ Tracked'
      /\ Main' = Main
  BY <1>1, LogKept
<1>8. Data'
  <2>1. inbox' \in [Node -> Seq(Proposal)]  BY <1>1, <1>2, <1>4 DEF Data
  <2>2. drawn' \in [Node -> SUBSET Proposal]
    <3>1. drawn[i] \ {p} \in SUBSET Proposal  BY <1>2, NodeData
    <3>. QED  BY <1>1, <1>2, <3>1 DEF Data
  <2>. QED  BY <1>1, <1>2, <2>1, <2>2, ZenonT(60) DEF Data
<1>9. Backlog'
  <2>1. \A j \in Node : j # i => BacklogOk(Main', seqs'[j], drawn'[j], Line(j)')
    BY <1>1, <1>5, <1>6, <1>7 DEF Sound, Backlog
  <2>2. BacklogOk(Main, seqs[i], drawn[i] \ {p}, Append(Line(i), p))
    BY <1>3, SubmitBacklog DEF Sound, Backlog
  <2>. QED  BY <1>1, <1>5, <1>6, <1>7, <2>1, <2>2 DEF Backlog
<1>10. Wire' /\ OnWire' /\ Silent'  BY <1>1, <1>7 DEF Sound, Wire, OnWire, Silent
<1>11. Acks'  BY <1>1, <1>7 DEF Sound, Acks
<1>12. Own'
  <2>1. fwdPending'[FirstLeader] = <<>>  BY <1>1 DEF Sound, Own
  <2>2. \A q \in drawn'[FirstLeader] : ~Logs(Main, q.op)
    BY <1>0, <1>5 DEF Sound, Own
  <2>3. \A a \in 1..Len(inbox'[FirstLeader]) : ~Logs(Main, inbox'[FirstLeader][a].op)
    <3>1. CASE i = FirstLeader
      <4>1. ~Logs(Main, p.op)  BY <3>1 DEF Sound, Own
      <4>2. \A a \in 1..Len(Append(inbox[i], p)) :
                \/ a \in 1..Len(inbox[i]) /\ Append(inbox[i], p)[a] = inbox[i][a]
                \/ Append(inbox[i], p)[a] = p
        <5>1. \A x \in Seq(Proposal) : \A a \in 1..Len(Append(x, p)) :
                \/ a \in 1..Len(x) /\ Append(x, p)[a] = x[a]
                \/ Append(x, p)[a] = p
          BY <1>3, SMTT(30)
        <5>. QED  BY <1>3, <5>1
      <4>. QED  BY <1>5, <3>1, <4>1, <4>2 DEF Sound, Own
    <3>2. CASE i # FirstLeader  BY <1>0, <1>5, <3>2 DEF Sound, Own
    <3>. QED  BY SMT, <3>1, <3>2
  <2>. QED  BY <1>7, <2>1, <2>2, <2>3 DEF Own
<1>13. Reported'  BY <1>1 DEF Sound, Reported
<1>. QED  BY SMT, <1>7, <1>8, <1>9, <1>10, <1>11, <1>12, <1>13 DEF Sound

\* Events other than a submission do not count as one.
LEMMA OpUnspent ==
    ASSUME Settings, NEW E, "op" \notin E, Spend(E)
    PROVE  happened'["op"] = happened["op"]
<1>. USE ZenonT(30)
<1>1. happened["op"] \in Nat  BY DEF Settings, Events
<1>2. happened'["op"] = happened["op"] + 0  BY DEF Spend, Events
<1>. QED  BY <1>1, <1>2, SMTT(30)

\* forward_batch_to_leader(): the node's line is taken apart into what is pending
\* already, the batch and the rest of the inbox.
LEMMA BatchKeeps ==
    ASSUME Settings, Sound, NEW i \in Node, i # FirstLeader,
           NEW list \in Seq(Proposal), NEW rest \in Seq(Proposal), NEW pending \in Seq(Proposal),
           Line(i) = pending \o (list \o rest),
           NEW d, NEW E, "op" \notin E, ForwardBatch(i, list, rest, pending, d, link', E),
           link' \subseteq Node \X Node,
           \A j \in Node \ {i} : <<j, FirstLeader>> \in link' => <<j, FirstLeader>> \in link,
           <<i, FirstLeader>> \in link' => Underway(Main, seqs[i], chan[i][FirstLeader], pending),
           UNCHANGED <<raftVars, seqs, drawn, statusVars, leaderVars>>
    PROVE  Sound'
<1>. USE ZenonT(30)
<1>0. FirstLeader \in Node  BY SMT, ForwardingAssumption
<1>1. /\ term' = term /\ leading' = leading /\ leaderId' = leaderId /\ log' = log
      /\ commit' = commit /\ seqs' = seqs /\ drawn' = drawn
      /\ fwdAcked' = fwdAcked /\ fwdMarked' = fwdMarked
      /\ done' = done /\ ackPending' = ackPending /\ committedFwd' = committedFwd
  BY DEF raftVars, statusVars, leaderVars
<1>2. Data  BY SMT DEF Sound
<1>3. leaderId[i] = FirstLeader  BY DEF Sound, OneLeader
<1>4. PICK n \in 0..Len(list) :
        /\ \/ n = Len(list) /\ (list = <<>> \/ LeaderReachable(i, link')) /\ Spend(E)
           \/ n < Len(list) /\ LeaderReachable(i, link') /\ Spend(E \cup {"fail"})
           \/ n = 0 /\ list # <<>> /\ ~LeaderReachable(i, link') /\ Spend(E)
        /\ chan' = IF n = 0 THEN chan
                   ELSE [chan EXCEPT ![i][leaderId[i]] =
                            @ \o [k \in 1..n |-> [type |-> "FORWARD", p |-> list[k]]]]
        /\ fwdPending' = [fwdPending EXCEPT ![i] = Unconfirmed(pending, list, n)]
        /\ inbox' = [inbox EXCEPT ![i] = Requeued(list, n, rest)]
  BY DEF ForwardBatch
<1>5. happened'["op"] = happened["op"]
  <2>1. "op" \notin E \cup {"fail"}  OBVIOUS
  <2>. QED  BY <1>4, <2>1, OpUnspent
<1>6. n # 0 => <<i, FirstLeader>> \in link'
  <2>1. n # 0 => list # <<>>  BY <1>4, SMTT(30)
  <2>. QED  BY <1>3, <1>4, <2>1 DEF LeaderReachable
<1>. DEFINE up == chan[i][FirstLeader]
            up2 == IF n = 0 THEN up ELSE up \o Frames(list, n)
<1>7. up \in Seq(Frame) /\ Len(seqs[i]) \in Nat  BY <1>0, <1>2, NodeData
<1>8. /\ Unconfirmed(pending, list, n) \in Seq(Proposal) /\ Requeued(list, n, rest) \in Seq(Proposal)
      /\ Unconfirmed(pending, list, n) \o Requeued(list, n, rest) = Line(i)
  BY BatchLine
<1>9. /\ up2 \in Seq(Frame) /\ WireOk(Main, seqs[i], up2)
      /\ <<i, FirstLeader>> \in link' =>
            Underway(Main, seqs[i], up2, Unconfirmed(pending, list, n))
  <2>1. WireOk(Main, seqs[i], up)  BY DEF Sound, Wire
  <2>2. BacklogOk(Main, seqs[i], drawn[i], pending \o (list \o rest))
    <3>1. BacklogOk(Main, seqs[i], drawn[i], Line(i))  BY DEF Sound, Backlog
    <3>. QED  BY <3>1
  <2>3. CASE n = 0
    <3>1. SubSeq(list, 1, 0) = <<>>  BY SMTT(30)
    <3>2. Unconfirmed(pending, list, 0) = pending
      BY <3>1, SeqConcatEmpty DEF Unconfirmed
    <3>. QED  BY <1>7, <2>1, <2>3, <3>2
  <2>4. CASE n # 0
    <3>1. Underway(Main, seqs[i], up, pending)  BY <1>6, <2>4
    <3>2. /\ up \o Frames(list, n) \in Seq(Frame) /\ WireOk(Main, seqs[i], up \o Frames(list, n))
          /\ Underway(Main, seqs[i], up \o Frames(list, n), pending \o SubSeq(list, 1, n))
      BY <1>7, <2>1, <2>2, <3>1, BatchSent
    <3>. QED  BY <2>4, <3>2 DEF Unconfirmed
  <2>. QED  BY <2>3, <2>4
<1>10. /\ chan'[i][FirstLeader] = up2 /\ chan' \in [Node -> [Node -> Seq(Frame)]]
       /\ \A j, k \in Node : ~(j = i /\ k = FirstLeader) => chan'[j][k] = chan[j][k]
  <2>1. CASE n = 0  BY <1>2, <1>4, <2>1 DEF Data
  <2>2. CASE n # 0
    <3>1. chan' = [chan EXCEPT ![i][FirstLeader] = up2]
      BY <1>3, <1>4, <2>2 DEF Frames
    <3>. HIDE DEF up2
    <3>. QED  BY <1>0, <1>2, <1>9, <3>1, ZenonT(60) DEF Data
  <2>. QED  BY SMT, <2>1, <2>2
<1>. HIDE DEF up2
<1>11. /\ fwdPending'[i] = Unconfirmed(pending, list, n) /\ inbox'[i] = Requeued(list, n, rest)
       /\ \A j \in Node : j # i => fwdPending'[j] = fwdPending[j] /\ inbox'[j] = inbox[j]
  BY <1>2, <1>4 DEF Data
<1>12. \A j \in Node : Line(j)' = Line(j)
  <2>1. Line(i)' = Line(i)  BY <1>8, <1>11 DEF Line
  <2>2. \A j \in Node : j # i => Line(j)' = Line(j)  BY <1>11 DEF Line
  <2>. QED  BY <2>1, <2>2
<1>13. /\ OneLeader' /\ Copies' /\ Distinct' /\ LogOrder' /\ Settled' /\ Tracked'
       /\ Main' = Main
  BY <1>1, <1>5, LogKept
<1>14. Data'
  <2>1. inbox' \in [Node -> Seq(Proposal)] /\ fwdPending' \in [Node -> Seq(Proposal)]
    BY <1>2, <1>4, <1>8 DEF Data
  <2>2. chan' \in [Node -> [Node -> Seq(Frame)]]  BY SMT, <1>10
  <2>. QED  BY <1>1, <1>2, <2>1, <2>2, ZenonT(60) DEF Data
<1>15. Backlog'  BY <1>1, <1>12, <1>13 DEF Sound, Backlog
<1>16. Wire'
  <2>1. \A j \in Node : j # i => chan'[j][FirstLeader] = chan[j][FirstLeader]  BY <1>0, <1>10
  <2>. QED  BY <1>1, <1>9, <1>10, <1>13, <2>1 DEF Sound, Wire
<1>17. OnWire'
  <2>. SUFFICES ASSUME NEW j \in Node, <<j, FirstLeader>> \in link'
       PROVE  Underway(Main, seqs[j], chan'[j][FirstLeader], fwdPending'[j])
    BY <1>1, <1>13 DEF OnWire
  <2>1. CASE j = i  BY <1>9, <1>10, <1>11, <2>1
  <2>2. CASE j # i
    <3>1. chan'[j][FirstLeader] = chan[j][FirstLeader] /\ fwdPending'[j] = fwdPending[j]
      BY <1>0, <1>10, <1>11, <2>2
    <3>2. <<j, FirstLeader>> \in link  BY <2>2
    <3>. QED  BY <3>1, <3>2 DEF Sound, OnWire
  <2>. QED  BY SMT, <2>1, <2>2
<1>18. Silent'
  <2>1. \A j, k \in Node :
          (j # FirstLeader /\ k # FirstLeader) \/ (j = FirstLeader /\ k = FirstLeader) =>
              chan'[j][k] = chan[j][k]
    BY <1>10
  <2>. QED  BY <2>1 DEF Sound, Silent
<1>19. Acks'
  <2>1. \A j \in Node : chan'[FirstLeader][j] = chan[FirstLeader][j]  BY <1>0, <1>10
  <2>. QED  BY <1>1, <1>13, <2>1 DEF Sound, Acks
<1>20. Own'  BY <1>0, <1>1, <1>11, <1>13 DEF Sound, Own
<1>21. Reported'  BY <1>1 DEF Sound, Reported
<1>. QED  BY SMT, <1>13, <1>14, <1>15, <1>16, <1>17, <1>18, <1>19, <1>20, <1>21 DEF Sound

\* Nothing has been sent.
LEMMA NothingUnderway == \A lg, sq, up : Underway(lg, sq, up, <<>>)
<1>1. Len(<<>>) = 0 /\ \A k \in 1..0 : FALSE  OBVIOUS
<1>. QED  BY <1>1, ZenonT(30) DEF Underway

\* fsync_timer_cb() retransmits.
LEMMA SweepKeeps ==
    ASSUME Settings, Sound, NEW i \in Node, Sweep(i)
    PROVE  Sound'
<1>. USE ZenonT(30)
<1>1. i # FirstLeader  BY DEF Sound, Own, Sweep
<1>2. inbox[i] \in Seq(Proposal) /\ fwdPending[i] \in Seq(Proposal)
  BY NodeData DEF Sound
<1>3. <<>> \in Seq(Proposal) /\ Line(i) = <<>> \o (fwdPending[i] \o inbox[i])
  <2>1. <<>> \in Seq(Proposal)  BY SeqEmpty
  <2>2. Line(i) \in Seq(Proposal)  BY NodeData DEF Sound
  <2>3. <<>> \o Line(i) = Line(i)  BY <2>2, SeqConcatEmpty
  <2>. QED  BY SMT, <2>1, <2>3 DEF Line
<1>4. ForwardBatch(i, fwdPending[i], inbox[i], <<>>, due[i], link', {"sweep"})
  BY DEF Sweep
<1>5. link' = link /\ UNCHANGED <<raftVars, seqs, drawn, statusVars, leaderVars>>
  BY DEF Sweep
<1>6. link' \subseteq Node \X Node /\ "op" \notin {"sweep"}  BY <1>5 DEF Sound, Data
<1>7. Underway(Main, seqs[i], chan[i][FirstLeader], <<>>)  BY NothingUnderway
<1>. QED  BY <1>1, <1>2, <1>3, <1>4, <1>5, <1>6, <1>7, BatchKeeps

\* drain_inbox() on a node that does not lead.
LEMMA FollowerDrainKeeps ==
    ASSUME Settings, Sound, NEW i \in Node, NEW e, DrainInbox(i, e), ~leading[i]
    PROVE  Sound'
<1>. USE ZenonT(30)
<1>1. i # FirstLeader  BY DEF Sound, OneLeader
<1>2. inbox[i] \in Seq(Proposal) /\ fwdPending[i] \in Seq(Proposal)
  BY NodeData DEF Sound
<1>3. <<>> \in Seq(Proposal) /\ Line(i) = fwdPending[i] \o (inbox[i] \o <<>>)
  <2>1. <<>> \in Seq(Proposal)  BY SeqEmpty
  <2>2. inbox[i] \o <<>> = inbox[i]  BY <1>2, SeqConcatEmpty
  <2>. QED  BY SMT, <2>1, <2>2 DEF Line
<1>4. link' = link /\ log' = log /\ ackPending' = ackPending
      /\ term' = term /\ leading' = leading /\ leaderId' = leaderId /\ commit' = commit
      /\ seqs' = seqs /\ drawn' = drawn /\ statusVars' = statusVars /\ committedFwd' = committedFwd
  BY DEF DrainInbox
<1>5. UNCHANGED <<raftVars, seqs, drawn, statusVars, leaderVars>>
  BY <1>4 DEF raftVars, leaderVars
<1>6. ForwardBatch(i, inbox[i], <<>>, fwdPending[i], due[i] \ {e}, link', {})
  BY <1>4 DEF DrainInbox
<1>7. link' \subseteq Node \X Node /\ "op" \notin {}  BY <1>4 DEF Sound, Data
<1>8. <<i, FirstLeader>> \in link' => Underway(Main, seqs[i], chan[i][FirstLeader], fwdPending[i])
  BY <1>4 DEF Sound, OnWire
<1>9. \A j \in Node \ {i} : <<j, FirstLeader>> \in link' => <<j, FirstLeader>> \in link  BY SMT, <1>4
<1>. QED  BY <1>1, <1>2, <1>3, <1>5, <1>6, <1>7, <1>8, <1>9, BatchKeeps

\* drop_peer_link(): what is in flight is lost.
LEMMA LinkDownKeeps ==
    ASSUME Settings, Sound, NEW i \in Node, NEW j \in Node, LinkDown(i, j)
    PROVE  Sound'
<1>. USE ZenonT(30)
<1>0. FirstLeader \in Node  BY SMT, ForwardingAssumption
<1>1. /\ term' = term /\ leading' = leading /\ leaderId' = leaderId /\ log' = log
      /\ commit' = commit /\ seqs' = seqs /\ drawn' = drawn /\ inbox' = inbox
      /\ fwdPending' = fwdPending /\ fwdAcked' = fwdAcked /\ fwdMarked' = fwdMarked
      /\ done' = done /\ ackPending' = ackPending /\ committedFwd' = committedFwd
      /\ link' = link \ {<<i, j>>, <<j, i>>}
      /\ chan' = [chan EXCEPT ![i][j] = <<>>, ![j][i] = <<>>]
  BY DEF LinkDown, raftVars, statusVars, leaderVars, inboxVars
<1>2. Data  BY SMT DEF Sound
<1>3. happened'["op"] = happened["op"]
  <2>1. Spend({"reset"}) /\ "op" \notin {"reset"}  BY DEF LinkDown
  <2>. QED  BY <2>1, OpUnspent
<1>4. /\ OneLeader' /\ Copies' /\ Distinct' /\ LogOrder' /\ Settled' /\ Tracked'
      /\ Main' = Main
  BY <1>1, <1>3, LogKept
<1>5. <<>> \in Seq(Frame) /\ Len(<<>>) = 0 /\ \A k \in 1..0 : FALSE  BY SMTT(30)
<1>6. /\ chan' \in [Node -> [Node -> Seq(Frame)]]
      /\ \A h, k \in Node : chan'[h][k] = chan[h][k] \/ chan'[h][k] = <<>>
      /\ \A h, k \in Node : <<h, k>> \in link' => chan'[h][k] = chan[h][k]
  <2>1. chan \in [Node -> [Node -> Seq(Frame)]]  BY SMT, <1>2 DEF Data
  <2>. DEFINE c == [chan EXCEPT ![i][j] = <<>>]
  <2>2. /\ c \in [Node -> [Node -> Seq(Frame)]] /\ c[i][j] = <<>>
        /\ \A h, k \in Node : ~(h = i /\ k = j) => c[h][k] = chan[h][k]
    BY <1>5, <2>1, ZenonT(60)
  <2>3. chan' = [c EXCEPT ![j][i] = <<>>]  BY SMT, <1>1
  <2>. HIDE DEF c
  <2>4. /\ chan' \in [Node -> [Node -> Seq(Frame)]] /\ chan'[j][i] = <<>>
        /\ \A h, k \in Node : ~(h = j /\ k = i) => chan'[h][k] = c[h][k]
    BY <1>5, <2>2, <2>3, ZenonT(60)
  <2>5. ASSUME NEW h \in Node, NEW k \in Node
        PROVE  \/ chan'[h][k] = chan[h][k]
               \/ chan'[h][k] = <<>> /\ ((h = i /\ k = j) \/ (h = j /\ k = i))
    <3>1. CASE h = j /\ k = i  BY <2>4, <3>1
    <3>2. CASE ~(h = j /\ k = i) /\ h = i /\ k = j
      <4>1. chan'[h][k] = c[h][k]  BY <2>4, <3>2
      <4>2. c[i][j] = <<>>  BY SMT, <2>2
      <4>3. h = i /\ k = j  BY <3>2
      <4>4. c[h][k] = <<>>  BY ONLY <4>2, <4>3, ZenonT(30)
      <4>. QED  BY <3>2, <4>1, <4>4
    <3>3. CASE ~(h = j /\ k = i) /\ ~(h = i /\ k = j)
      <4>1. chan'[h][k] = c[h][k]  BY <2>4, <3>3
      <4>2. c[h][k] = chan[h][k]  BY <2>2, <3>3
      <4>. QED  BY <4>1, <4>2
    <3>. QED  BY <3>1, <3>2, <3>3
  <2>6. <<i, j>> \notin link' /\ <<j, i>> \notin link'  BY <1>1
  <2>. QED  BY <2>4, <2>5, <2>6
<1>7. Data'
  <2>1. link' \subseteq Node \X Node  BY <1>1, <1>2 DEF Data
  <2>. QED  BY <1>1, <1>2, <1>6, <2>1, ZenonT(60) DEF Data
<1>8. Backlog'
  <2>1. \A k \in Node : Line(k)' = Line(k)  BY <1>1 DEF Line
  <2>. QED  BY <1>1, <1>4, <2>1 DEF Sound, Backlog
<1>9. Wire'
  <2>1. \A k \in Node : WireOk(Main, seqs[k], <<>>)  BY <1>5 DEF WireOk
  <2>. QED  BY <1>0, <1>1, <1>4, <1>6, <2>1 DEF Sound, Wire
<1>10. OnWire'
  <2>1. \A k \in Node : <<k, FirstLeader>> \in link' => <<k, FirstLeader>> \in link  BY <1>1
  <2>2. \A k \in Node : <<k, FirstLeader>> \in link' =>
            Underway(Main, seqs[k], chan'[k][FirstLeader], fwdPending[k])
    BY <1>0, <1>6, <2>1 DEF Sound, OnWire
  <2>. QED  BY <1>1, <1>4, <2>2 DEF OnWire
<1>11. Silent'  BY <1>6 DEF Sound, Silent
<1>12. Acks'
  <2>1. \A k \in Node : AcksOk(Main, seqs[k], <<>>)  BY <1>5 DEF AcksOk
  <2>2. \A k \in Node : k # FirstLeader => AcksOk(Main, seqs[k], chan'[FirstLeader][k])
    BY <1>0, <1>6, <2>1 DEF Sound, Acks
  <2>. QED  BY <1>1, <1>4, <2>2 DEF Sound, Acks
<1>13. Own'  BY <1>1, <1>4 DEF Sound, Own
<1>14. Reported'  BY <1>1 DEF Sound, Reported
<1>. QED  BY SMT, <1>4, <1>7, <1>8, <1>9, <1>10, <1>11, <1>12, <1>13, <1>14 DEF Sound

\* peer_on_link_up(): the connection is back, and what is not acknowledged is
\* sent again.
LEMMA LinkUpKeeps ==
    ASSUME Settings, Sound, NEW i \in Node, NEW j \in Node, LinkUp(i, j)
    PROVE  Sound'
<1>. USE ZenonT(30)
<1>0. FirstLeader \in Node  BY SMT, ForwardingAssumption
<1>1. /\ i # j /\ link' = link \cup {<<i, j>>}
      /\ UNCHANGED <<raftVars, seqs, drawn, statusVars, leaderVars>>
  BY DEF LinkUp
<1>2. leaderId[i] = FirstLeader  BY DEF Sound, OneLeader
<1>3. inbox[i] \in Seq(Proposal) /\ fwdPending[i] \in Seq(Proposal)
  BY NodeData DEF Sound
<1>4. link' \subseteq Node \X Node
  <2>1. <<i, j>> \in Node \X Node  BY SMT
  <2>2. link \subseteq Node \X Node  BY SMT DEF Sound, Data
  <2>. QED  BY <1>1, <2>1, <2>2
<1>5. CASE j = FirstLeader /\ fwdPending[i] # <<>>
  <2>1. <<>> \in Seq(Proposal) /\ Line(i) = <<>> \o (fwdPending[i] \o inbox[i])
    <3>1. <<>> \in Seq(Proposal)  BY SeqEmpty
    <3>2. Line(i) \in Seq(Proposal)  BY NodeData DEF Sound
    <3>3. <<>> \o Line(i) = Line(i)  BY <3>2, SeqConcatEmpty
    <3>. QED  BY SMT, <3>1, <3>3 DEF Line
  <2>2. ForwardBatch(i, fwdPending[i], inbox[i], <<>>, due[i], link', {})
    BY <1>2, <1>5 DEF LinkUp
  <2>3. Underway(Main, seqs[i], chan[i][FirstLeader], <<>>)  BY NothingUnderway
  <2>4. \A k \in Node \ {i} : <<k, FirstLeader>> \in link' => <<k, FirstLeader>> \in link
    BY <1>1
  <2>5. i # FirstLeader /\ "op" \notin {}  BY <1>1, <1>5
  <2>. QED  BY <1>1, <1>3, <1>4, <2>1, <2>2, <2>3, <2>4, <2>5, BatchKeeps
<1>6. CASE ~(j = FirstLeader /\ fwdPending[i] # <<>>)
  <2>1. /\ term' = term /\ leading' = leading /\ leaderId' = leaderId /\ log' = log
        /\ commit' = commit /\ seqs' = seqs /\ drawn' = drawn
        /\ fwdAcked' = fwdAcked /\ fwdMarked' = fwdMarked
        /\ done' = done /\ ackPending' = ackPending /\ committedFwd' = committedFwd
    BY <1>1 DEF raftVars, statusVars, leaderVars
  <2>2. happened' = happened /\ chan' = chan /\ inbox' = inbox /\ fwdPending' = fwdPending
    BY <1>2, <1>6 DEF LinkUp, inboxVars
  <2>3. /\ OneLeader' /\ Copies' /\ Distinct' /\ LogOrder' /\ Settled' /\ Tracked'
        /\ Main' = Main
    BY <2>1, <2>2, LogKept
  <2>4. Data'  BY <1>4, <2>1, <2>2, ZenonT(60) DEF Sound, Data
  <2>5. Backlog'
    <3>1. \A k \in Node : Line(k)' = Line(k)  BY <2>2 DEF Line
    <3>. QED  BY <2>1, <2>3, <3>1 DEF Sound, Backlog
  <2>6. Wire' /\ Silent'  BY <2>1, <2>2, <2>3 DEF Sound, Wire, Silent
  <2>7. OnWire'
    <3>1. ASSUME NEW k \in Node, <<k, FirstLeader>> \in link'
          PROVE  Underway(Main, seqs[k], chan[k][FirstLeader], fwdPending[k])
      <4>1. CASE <<k, FirstLeader>> \in link  BY <4>1 DEF Sound, OnWire
      <4>2. CASE <<k, FirstLeader>> \notin link
        <5>1. k = i /\ FirstLeader = j  BY <1>1, <3>1, <4>2
        <5>2. fwdPending[k] = <<>>  BY <1>6, <5>1
        <5>. QED  BY <5>2, NothingUnderway
      <4>. QED  BY SMT, <4>1, <4>2
    <3>. QED  BY <2>1, <2>2, <2>3, <3>1 DEF OnWire
  <2>8. Acks'  BY <2>1, <2>2, <2>3 DEF Sound, Acks
  <2>9. Own'  BY <2>1, <2>2, <2>3 DEF Sound, Own
  <2>10. Reported'  BY <2>1 DEF Sound, Reported
  <2>. QED  BY SMT, <2>3, <2>4, <2>5, <2>6, <2>7, <2>8, <2>9, <2>10 DEF Sound
<1>. QED  BY SMT, <1>5, <1>6

\* Growing twice is growing.
LEMMA GrowsThrough ==
    ASSUME NEW x, NEW y, NEW z, Len(x) \in Nat, Len(y) \in Nat, Len(z) \in Nat,
           Grows(x, y), Grows(y, z)
    PROVE  Grows(x, z)
<1>1. Len(x) <= Len(z) /\ \A n \in 1..Len(x) : n \in 1..Len(y)  BY SMTT(30) DEF Grows
<1>. QED  BY <1>1, ZenonT(30) DEF Grows

\* The leader appends o's proposals in list, and leaves its own frames and the
\* rest of the consensus' variables alone.
AppendStep(o, list) ==
    /\ LeaderAppend(FirstLeader, o, list) /\ happened'["op"] = happened["op"]
    /\ UNCHANGED <<term, leading, leaderId, commit, link, seqs, drawn, statusVars, committedFwd>>
    /\ \A j \in Node : chan'[FirstLeader][j] = chan[FirstLeader][j]
    /\ chan' \in [Node -> [Node -> Seq(Frame)]]
    /\ inbox' \in [Node -> Seq(Proposal)] /\ fwdPending' \in [Node -> Seq(Proposal)]

\* Appending proposals of one node, in the order of submission, leaves tops: of two
\* candidates for that node, the last of the new entries and the top of the old ones,
\* one is the top.
LEMMA TopsAppend ==
    ASSUME NEW x \in Seq(AckEntry), NEW y \in Seq(AckEntry), HasTops(x), NEW o \in Node,
           \A k \in 1..Len(y) : y[k].origin = o,
           \A k, m \in 1..Len(y) : k < m => y[k].seq < y[m].seq
    PROVE  HasTops(x \o y)
<1>. USE ZenonT(30)
<1>. DEFINE z == x \o y
            n == Len(x)
<1>1. /\ z \in Seq(AckEntry) /\ Len(z) = n + Len(y) /\ Grows(x, z)
      /\ \A k \in 1..Len(y) : z[n + k] = y[k]
  BY ConcatGrows
<1>2. n \in Nat /\ Len(y) \in Nat /\ Len(z) \in Nat  BY <1>1, SeqFields
<1>. HIDE DEF z
<1>3. \A k \in 1..n : z[k] = x[k]  BY <1>1 DEF Grows
<1>. HIDE DEF n
<1>4. ASSUME NEW k \in (n + 1)..Len(z)  PROVE z[k].origin = o
  <2>1. k - n \in 1..Len(y) /\ k = n + (k - n)  BY <1>1, <1>2, SMTT(30)
  <2>2. PICK h \in 1..Len(y) : k = n + h  BY <2>1
  <2>. QED  BY <1>1, <2>2
<1>5. ASSUME NEW k \in (n + 1)..Len(z), NEW m \in (n + 1)..Len(z), k < m
      PROVE  z[k].seq < z[m].seq
  <2>1. k - n \in 1..Len(y) /\ k = n + (k - n) /\ m - n \in 1..Len(y) /\ m = n + (m - n)
    BY <1>1, <1>2, SMTT(30)
  <2>2. PICK h \in 1..Len(y) : k = n + h  BY <2>1
  <2>3. PICK g \in 1..Len(y) : m = n + g  BY <2>1
  <2>4. h < g  BY <1>2, <1>5, <2>2, <2>3, SMTT(30)
  <2>. QED  BY <1>1, <2>2, <2>3, <2>4
<1>6. \A k \in 1..Len(z) : z[k].seq \in Nat
  <2>1. \A k \in 1..Len(z) : z[k] \in AckEntry  BY <1>1, SeqElement
  <2>. QED  BY <2>1 DEF AckEntry
<1>7. ASSUME NEW a \in 1..Len(z), NEW b \in 1..Len(z), NEW j \in Node,
             NEW e \in a..b, z[e].origin = j
      PROVE  \E m \in a..b : TopAt(z, a, b, j, m)
  <2>0. a <= b /\ \A k \in a..b : k \in 1..Len(z)  BY <1>2, SMTT(30)
  <2>1. CASE b <= n
    <3>1. a \in 1..n /\ b \in 1..n /\ \A k \in a..b : k \in 1..n  BY <1>2, <2>0, <2>1, SMTT(30)
    <3>2. PICK m \in a..b : TopAt(x, a, b, j, m)  BY <1>3, <1>7, <3>1 DEF HasTops, n
    <3>3. TopAt(z, a, b, j, m)  BY <1>3, <3>1, <3>2 DEF TopAt
    <3>. QED  BY <3>3
  <2>2. CASE ~(b <= n) /\ \E k \in a..n : z[k].origin = j
    <3>1. /\ a \in 1..n /\ n \in 1..n /\ b \in (n + 1)..Len(z) /\ b \in a..b
          /\ \A k \in a..n : k \in 1..n /\ k \in a..b
          /\ \A k \in a..b : k \in a..n \/ k \in (n + 1)..Len(z)
      BY <1>2, <2>0, <2>2, SMTT(30)
    <3>2. PICK m \in a..n : TopAt(x, a, n, j, m)  BY <1>3, <2>2, <3>1 DEF HasTops, n
    <3>3. /\ z[m].origin = j
          /\ \A k \in a..n : z[k].origin = j =>
                z[k].seq <= z[m].seq /\ (z[k].seq = z[m].seq => m <= k)
      BY <1>3, <3>1, <3>2 DEF TopAt
    <3>4. \A k \in (n + 1)..Len(z) : k \in a..b => m <= k /\ k <= b  BY <1>2, <3>1, SMTT(30)
    <3>5. CASE j # o
      <4>1. TopAt(z, a, b, j, m)  BY <1>4, <3>1, <3>3, <3>5 DEF TopAt
      <4>. QED  BY <3>1, <4>1
    <3>6. CASE j = o /\ z[b].seq <= z[m].seq
      <4>1. ASSUME NEW k \in a..b, k \notin a..n
            PROVE  z[k].seq <= z[m].seq /\ m <= k
        <5>1. k \in (n + 1)..Len(z) /\ m <= k /\ (k < b \/ k = b)
          BY <1>2, <3>1, <3>4, <4>1, SMTT(30)
        <5>2. z[k].seq < z[b].seq \/ z[k].seq = z[b].seq  BY <1>5, <3>1, <5>1
        <5>3. z[k].seq \in Nat /\ z[b].seq \in Nat /\ z[m].seq \in Nat  BY <1>6, <2>0, <3>1
        <5>4. \A u, v, w \in Nat : (u < v \/ u = v) /\ v <= w => u <= w  BY SMTT(30)
        <5>. QED  BY <3>6, <5>1, <5>2, <5>3, <5>4
      <4>2. TopAt(z, a, b, j, m)  BY <3>3, <4>1 DEF TopAt
      <4>. QED  BY <3>1, <4>2
    <3>7. CASE j = o /\ ~(z[b].seq <= z[m].seq)
      <4>1. ASSUME NEW k \in a..b, z[k].origin = j
            PROVE  z[k].seq <= z[b].seq /\ (z[k].seq = z[b].seq => b <= k)
        <5>1. z[k].seq \in Nat /\ z[b].seq \in Nat /\ z[m].seq \in Nat  BY <1>6, <2>0, <3>1
        <5>2. CASE k \in a..n
          <6>1. z[k].seq <= z[m].seq  BY <3>3, <4>1, <5>2
          <6>2. \A u, v, w \in Nat : u <= w /\ ~(v <= w) => u <= v /\ u # v  BY SMTT(30)
          <6>. QED  BY <3>7, <5>1, <6>1, <6>2
        <5>3. CASE k \notin a..n
          <6>1. k \in (n + 1)..Len(z) /\ (k < b \/ k = b)  BY <1>2, <3>1, <5>3, SMTT(30)
          <6>2. z[k].seq < z[b].seq \/ k = b  BY <1>5, <3>1, <6>1
          <6>3. \A u, v \in Nat : u < v => u <= v /\ u # v  BY SMTT(30)
          <6>4. z[b].seq <= z[b].seq /\ b <= b  BY <1>2, <5>1, SMTT(30)
          <6>. QED  BY <5>1, <6>2, <6>3, <6>4
        <5>. QED  BY <5>2, <5>3
      <4>2. z[b].origin = j  BY <1>4, <3>1, <3>7
      <4>. QED  BY <3>1, <4>1, <4>2 DEF TopAt
    <3>. QED  BY <3>5, <3>6, <3>7
  <2>3. CASE ~(b <= n) /\ ~(\E k \in a..n : z[k].origin = j)
    <3>1. /\ b \in (n + 1)..Len(z) /\ b \in a..b
          /\ \A k \in a..b : k \in a..n \/ (k \in (n + 1)..Len(z) /\ (k < b \/ k = b))
      BY <1>2, <2>0, <2>3, SMTT(30)
    <3>2. e \in (n + 1)..Len(z)  BY <1>7, <2>3, <3>1
    <3>3. j = o /\ z[b].origin = j  BY <1>4, <1>7, <3>1, <3>2
    <3>4. ASSUME NEW k \in a..b, z[k].origin = j
          PROVE  z[k].seq <= z[b].seq /\ (z[k].seq = z[b].seq => b <= k)
      <4>1. z[k].seq \in Nat /\ z[b].seq \in Nat  BY <1>6, <2>0
      <4>2. z[k].seq < z[b].seq \/ k = b  BY <1>5, <2>3, <3>1, <3>4
      <4>3. \A u, v \in Nat : u < v => u <= v /\ u # v  BY SMTT(30)
      <4>4. z[b].seq <= z[b].seq /\ b <= b  BY <1>2, <4>1, SMTT(30)
      <4>. QED  BY <4>1, <4>2, <4>3, <4>4
    <3>. QED  BY <3>1, <3>3, <3>4 DEF TopAt
  <2>. QED  BY <2>1, <2>2, <2>3
<1>8. HasTops(z)  BY <1>7 DEF HasTops
<1>. QED  BY <1>8 DEF z

\* What is left when the first d entries are resolved has its tops.
LEMMA TopsSuffix ==
    ASSUME NEW x, Len(x) \in Nat, HasTops(x), NEW y, NEW d \in 0..Len(x), Len(y) = Len(x) - d,
           \A m \in 1..(Len(x) - d) : y[m] = x[d + m]
    PROVE  HasTops(y)
<1>. USE ZenonT(30)
<1>1. ASSUME NEW a \in 1..Len(y), NEW b \in 1..Len(y), NEW j \in Node,
             NEW e \in a..b, y[e].origin = j
      PROVE  \E m \in a..b : TopAt(y, a, b, j, m)
  <2>1. /\ d + a \in 1..Len(x) /\ d + b \in 1..Len(x) /\ d + e \in (d + a)..(d + b)
        /\ e \in 1..(Len(x) - d)
    BY SMTT(30)
  <2>2. \A k \in a..b : k \in 1..(Len(x) - d) /\ d + k \in (d + a)..(d + b)  BY SMTT(30)
  <2>3. x[d + e].origin = j  BY <1>1, <2>1
  <2>4. PICK h \in (d + a)..(d + b) : TopAt(x, d + a, d + b, j, h)  BY <2>1, <2>3 DEF HasTops
  <2>5. h - d \in a..b /\ h = d + (h - d)  BY SMTT(30)
  <2>6. PICK m \in a..b : h = d + m  BY <2>5
  <2>7. \A k \in a..b : d + m <= d + k => m <= k  BY SMTT(30)
  <2>8. TopAt(y, a, b, j, m)  BY <2>2, <2>4, <2>6, <2>7 DEF TopAt
  <2>. QED  BY <2>8
<1>. QED  BY <1>1 DEF HasTops

\* leader_append(): what it leaves of the invariant to its callers are the
\* frames, the submitters' lines and the leader's own inbox.
LEMMA AppendKeeps ==
    ASSUME Sound, NEW o \in Node, NEW list \in Seq(Proposal), NoGap(Main, seqs[o], list),
           Ascending(list), AppendStep(o, list)
    PROVE  /\ Extends(Main, Main', list) /\ Len(Main) \in Nat /\ Len(Main') \in Nat
           /\ Len(list) \in Nat
           /\ Data' /\ OneLeader' /\ Copies' /\ Distinct' /\ LogOrder' /\ Acks'
           /\ Settled' /\ Tracked' /\ Reported'
<1>. USE ZenonT(30)
<1>0. FirstLeader \in Node  BY SMT, ForwardingAssumption
<1>1. /\ term' = term /\ leading' = leading /\ leaderId' = leaderId /\ commit' = commit
      /\ link' = link /\ seqs' = seqs /\ drawn' = drawn /\ fwdAcked' = fwdAcked
      /\ fwdMarked' = fwdMarked /\ done' = done /\ committedFwd' = committedFwd
  BY DEF AppendStep, statusVars
<1>2. Data  BY SMT DEF Sound
<1>3. /\ Main \in Seq(LogEntry) /\ Len(Main) \in Nat /\ commit[FirstLeader] \in Nat
      /\ ackPending[FirstLeader] \in Seq(AckEntry) /\ Len(ackPending[FirstLeader]) \in Nat
  BY <1>0, <1>2, NodeData DEF Main
<1>4. Len(list) \in Nat /\ DOMAIN list = 1..Len(list) /\ \A k \in 1..Len(list) : list[k] \in Proposal
  BY SeqFields, SeqElement
<1>. DEFINE es == [k \in DOMAIN list |-> [term |-> term[FirstLeader], op |-> list[k].op]]
            as == [k \in DOMAIN list |->
                     [index |-> Len(log[FirstLeader]) + k, origin |-> o, seq |-> list[k].seq]]
            ap == ackPending[FirstLeader]
            ap2 == ap \o as
            lg2 == Main \o es
<1>5. es \in Seq(LogEntry) /\ Len(es) = Len(list) /\ \A k \in 1..Len(list) : es[k].op = list[k].op
  <2>1. \A k \in 1..Len(list) : list[k].op \in 0..MaxOps
    <3>1. \A k \in 1..Len(list) : list[k].op \in 1..MaxOps  BY <1>4 DEF Proposal
    <3>2. \A x \in 1..MaxOps : x \in 0..MaxOps
      <4>1. MaxOps \in Nat  BY ForwardingAssumption
      <4>. QED  BY <4>1, SMTT(30)
    <3>. QED  BY <3>1, <3>2
  <2>2. term[FirstLeader] \in Nat  BY <1>0, <1>2 DEF Data
  <2>3. es \in [1..Len(list) -> LogEntry]  BY <1>4, <2>1, <2>2 DEF LogEntry
  <2>4. \A k \in 1..Len(list) : es[k].op = list[k].op  BY <1>4
  <2>. HIDE DEF es
  <2>5. es \in Seq(LogEntry) /\ Len(es) = Len(list)  BY <1>4, <2>3, FunctionIsSeq
  <2>. QED  BY <2>4, <2>5
<1>6. /\ as \in Seq(AckEntry) /\ Len(as) = Len(list)
      /\ \A k \in 1..Len(list) : /\ as[k].index = Len(Main) + k
                                 /\ as[k].origin = o /\ as[k].seq = list[k].seq
  <2>1. \A k \in 1..Len(list) : Len(Main) + k \in Nat /\ list[k].seq \in Nat
    <3>1. \A k \in 1..Len(list) : Len(Main) + k \in Nat  BY <1>3, <1>4, SMTT(30)
    <3>. QED  BY <1>4, <3>1 DEF Proposal
  <2>2. as = [k \in 1..Len(list) |-> [index |-> Len(Main) + k, origin |-> o, seq |-> list[k].seq]]
    BY <1>4 DEF Main
  <2>. HIDE DEF as
  <2>3. as \in [1..Len(list) -> AckEntry]  BY <2>1, <2>2 DEF AckEntry
  <2>4. \A k \in 1..Len(list) : /\ as[k].index = Len(Main) + k
                                 /\ as[k].origin = o /\ as[k].seq = list[k].seq
    BY <2>2
  <2>5. as \in Seq(AckEntry) /\ Len(as) = Len(list)  BY <1>4, <2>3, FunctionIsSeq
  <2>. QED  BY <2>4, <2>5
<1>7. log' = [log EXCEPT ![FirstLeader] = lg2] /\ ackPending' = [ackPending EXCEPT ![FirstLeader] = ap2]
  BY DEF AppendStep, LeaderAppend, Main
<1>. HIDE DEF es, as
<1>8. /\ lg2 \in Seq(LogEntry) /\ Len(lg2) = Len(Main) + Len(es) /\ Grows(Main, lg2)
      /\ \A k \in 1..Len(es) : lg2[Len(Main) + k] = es[k]
  <2>1. es \in Seq(LogEntry)  BY <1>5
  <2>2. Main \in Seq(LogEntry)  BY <1>3
  <2>. QED  BY <2>1, <2>2, ConcatGrows
<1>9. /\ ap2 \in Seq(AckEntry) /\ Len(ap2) = Len(ap) + Len(as) /\ Grows(ap, ap2)
      /\ \A k \in 1..Len(as) : ap2[Len(ap) + k] = as[k]
  <2>1. as \in Seq(AckEntry)  BY <1>6
  <2>2. ap \in Seq(AckEntry)  BY <1>3
  <2>. QED  BY <2>1, <2>2, ConcatGrows
<1>. HIDE DEF lg2, ap2
<1>10. /\ Main' = lg2 /\ ackPending'[FirstLeader] = ap2
       /\ \A j \in Node : j # FirstLeader => log'[j] = log[j]
  BY <1>0, <1>2, <1>7 DEF Data, Main
<1>11. Extends(Main, Main', list) /\ Len(Main') \in Nat /\ Grows(Main, Main')
  <2>1. Extends(Main, lg2, list)  BY <1>5, <1>8 DEF Extends
  <2>2. Len(lg2) \in Nat  BY <1>8, SeqFields
  <2>. QED  BY <1>8, <1>10, <2>1, <2>2
<1>12. Data'
  <2>1. log' \in [Node -> Seq(LogEntry)]  BY <1>2, <1>7, <1>8 DEF Data
  <2>2. ackPending' \in [Node -> Seq(AckEntry)]  BY <1>2, <1>7, <1>9 DEF Data
  <2>3. /\ chan' \in [Node -> [Node -> Seq(Frame)]]
        /\ inbox' \in [Node -> Seq(Proposal)] /\ fwdPending' \in [Node -> Seq(Proposal)]
    BY DEF AppendStep
  <2>. QED  BY <1>1, <1>2, <2>1, <2>2, <2>3, ZenonT(60) DEF Data
<1>13. OneLeader'  BY <1>1 DEF Sound, OneLeader
<1>14. Copies'
  <2>. SUFFICES ASSUME NEW j \in Node
       PROVE  Grows(log'[j], Main') /\ commit[j] <= Len(log'[j]) /\ commit[j] <= commit[FirstLeader]
    BY <1>1 DEF Copies
  <2>1. Grows(log[j], Main) /\ commit[j] <= Len(log[j]) /\ commit[j] <= commit[FirstLeader]
    BY DEF Sound, Copies
  <2>2. Len(log[j]) \in Nat /\ commit[j] \in Nat  BY <1>2, NodeData
  <2>3. CASE j = FirstLeader
    <3>1. log'[j] = Main' /\ log[j] = Main  BY SMT, <2>3 DEF Main
    <3>2. Grows(Main', Main')  BY <1>11, SMTT(30) DEF Grows
    <3>3. commit[j] <= Len(Main')  BY <1>3, <1>11, <2>1, <2>2, <3>1, SMTT(30) DEF Grows
    <3>. QED  BY <2>1, <3>1, <3>2, <3>3
  <2>4. CASE j # FirstLeader
    <3>1. log'[j] = log[j]  BY <1>10, <2>4
    <3>2. Grows(log[j], Main')  BY <1>3, <1>11, <2>1, <2>2, GrowsThrough
    <3>. QED  BY <2>1, <3>1, <3>2
  <2>. QED  BY SMT, <2>3, <2>4
<1>15. Distinct'
  <2>1. Distinct /\ seqs' = seqs /\ happened'["op"] = happened["op"]
    BY <1>1 DEF Sound, AppendStep
  <2>2. \A j \in Node : \A s \in 1..Len(seqs[j]) :
          /\ seqs[j][s] <= happened'["op"]
          /\ \A k \in Node : \A u \in 1..Len(seqs[k]) : seqs[j][s] = seqs[k][u] => j = k /\ s = u
    BY <2>1 DEF Distinct
  <2>3. seqs' = seqs  BY SMT, <2>1
  <2>. QED  BY <2>2, <2>3, SMTT(30) DEF Distinct
<1>16. \A k \in 1..Len(list) : list[k].seq \in 1..Len(seqs[o]) /\ list[k].op = seqs[o][list[k].seq]
  BY DEF NoGap, Proper
<1>17. LogOrder'
  <2>. SUFFICES ASSUME NEW j \in Node  PROVE Ordered(Main', seqs[j])
    BY <1>1 DEF LogOrder
  <2>1. Ordered(Main, seqs[j])  BY DEF Sound, LogOrder
  <2>2. CASE j = o
    <3>1. Injective(seqs[o])
      <4>1. Distinct  BY SMT DEF Sound
      <4>. QED  BY <4>1 DEF Distinct, Injective
    <3>2. Len(seqs[o]) \in Nat  BY <1>2, NodeData
    <3>. QED  BY <1>3, <1>4, <1>11, <2>1, <2>2, <3>1, <3>2, AppendOrdered
  <2>3. CASE j # o
    <3>1. \A k \in 1..Len(list) : \A t \in 1..Len(seqs[j]) : list[k].op # seqs[j][t]
      <4>1. \A s \in 1..Len(seqs[o]) : \A t \in 1..Len(seqs[j]) : seqs[o][s] # seqs[j][t]
        BY <2>3 DEF Sound, Distinct
      <4>. QED  BY <1>16, <4>1
    <3>. QED  BY <1>3, <1>4, <1>11, <2>1, <3>1, OthersOrdered
  <2>. QED  BY SMT, <2>2, <2>3
<1>18. \A j \in Node : Len(seqs[j]) \in Nat /\ Grows(seqs[j], seqs[j])
  <2>1. \A j \in Node : Len(seqs[j]) \in Nat  BY <1>2, NodeData
  <2>. QED  BY <2>1, SMTT(30) DEF Grows
<1>19. Acks'
  <2>1. \A j \in Node : AckOk(Main', seqs[j], fwdAcked[j])
    BY <1>3, <1>11, <1>18, AckKept DEF Sound, Acks
  <2>2. \A j \in Node : AckOk(Main', seqs[j], committedFwd[FirstLeader][j])
    BY <1>3, <1>11, <1>18, AckKept DEF Sound, Acks
  <2>3. \A j \in Node : j # FirstLeader => AcksOk(Main', seqs[j], chan[FirstLeader][j])
    BY <1>3, <1>11, <1>18, AcksKept DEF Sound, Acks
  <2>4. \A j \in Node : chan'[FirstLeader][j] = chan[FirstLeader][j]  BY SMT DEF AppendStep
  <2>. QED  BY <1>1, <2>1, <2>2, <2>3, <2>4 DEF Acks
<1>20. Settled'
  <2>1. \A n \in 1..commit[FirstLeader] : Main'[n] = Main[n]
    <3>1. commit[FirstLeader] <= Len(Main)  BY <1>0 DEF Sound, Copies, Main
    <3>2. \A n \in 1..commit[FirstLeader] : n \in 1..Len(Main)  BY <1>3, <3>1, SMTT(30)
    <3>. QED  BY <1>11, <3>2 DEF Grows
  <2>2. Settled  BY SMT DEF Sound
  <2>3. commit' = commit /\ seqs' = seqs /\ committedFwd' = committedFwd  BY SMT, <1>1
  <2>. QED  BY <2>1, <2>2, <2>3 DEF Settled
<1>21. Tracked'
  <2>1. Len(ap) = Len(Main) - commit[FirstLeader]  BY DEF Sound, Tracked
  <2>2. Len(ap2) = Len(Main') - commit[FirstLeader]
    <3>1. Len(Main') = Len(Main) + Len(list)  BY SMT, <1>11 DEF Extends
    <3>2. Len(ap2) = Len(ap) + Len(list)  BY <1>6, <1>9
    <3>. QED  BY <1>3, <1>4, <2>1, <3>1, <3>2, SMTT(30)
  <2>3. ASSUME NEW m \in 1..Len(ap2)
        PROVE  /\ ap2[m].index = commit[FirstLeader] + m
               /\ ap2[m].seq \in 1..Len(seqs[ap2[m].origin])
               /\ Main'[ap2[m].index].op = seqs[ap2[m].origin][ap2[m].seq]
    <3>1. CASE m \in 1..Len(ap)
      <4>1. ap2[m] = ap[m]  BY <1>9, <3>1 DEF Grows
      <4>2. /\ ap[m].index = commit[FirstLeader] + m /\ ap[m].seq \in 1..Len(seqs[ap[m].origin])
            /\ Main[ap[m].index].op = seqs[ap[m].origin][ap[m].seq]
        BY <3>1 DEF Sound, Tracked
      <4>3. commit[FirstLeader] + m \in 1..Len(Main)  BY <1>3, <2>1, <3>1, SMTT(30)
      <4>4. Main'[ap[m].index] = Main[ap[m].index]  BY <1>11, <4>2, <4>3 DEF Grows
      <4>. QED  BY <4>1, <4>2, <4>4
    <3>2. CASE m \notin 1..Len(ap)
      <4>1. m - Len(ap) \in 1..Len(list) /\ m = Len(ap) + (m - Len(ap))
        BY <1>3, <1>4, <1>6, <1>9, <3>2, SMTT(30)
      <4>2. PICK k \in 1..Len(list) : m = Len(ap) + k  BY <4>1
      <4>3. ap2[m] = as[k]  BY <1>6, <1>9, <4>2
      <4>4. /\ ap2[m].index = Len(Main) + k /\ ap2[m].origin = o /\ ap2[m].seq = list[k].seq
        BY <1>6, <4>3
      <4>5. ap2[m].index = commit[FirstLeader] + m  BY <1>3, <2>1, <4>2, <4>4, SMTT(30)
      <4>6. Main'[Len(Main) + k].op = list[k].op  BY <1>11 DEF Extends
      <4>7. list[k].seq \in 1..Len(seqs[o]) /\ list[k].op = seqs[o][list[k].seq]  BY SMT, <1>16
      <4>. QED  BY <4>4, <4>5, <4>6, <4>7
    <3>. QED  BY SMT, <3>1, <3>2
  <2>4. HasTops(ap2)
    <3>1. HasTops(ap)  BY DEF Sound, Tracked
    <3>2. \A k, m \in 1..Len(list) : k < m => as[k].seq < as[m].seq  BY <1>6 DEF Ascending
    <3>3. /\ as \in Seq(AckEntry) /\ Len(as) = Len(list)
          /\ \A k \in 1..Len(list) : as[k].origin = o
      BY <1>6
    <3>. HIDE DEF as
    <3>4. /\ \A k \in 1..Len(as) : as[k].origin = o
          /\ \A k, m \in 1..Len(as) : k < m => as[k].seq < as[m].seq
      BY <3>2, <3>3
    <3>5. HasTops(ap \o as)  BY <1>3, <3>1, <3>3, <3>4, TopsAppend
    <3>. QED  BY <3>5 DEF ap2
  <2>. QED  BY <1>1, <1>10, <2>2, <2>3, <2>4 DEF Tracked
<1>22. Reported'
  <2>. SUFFICES ASSUME NEW j \in Node  PROVE ReportedOk(log'[j], commit[j], seqs[j], done[j])
    BY <1>1 DEF Reported
  <2>1. ReportedOk(log[j], commit[j], seqs[j], done[j])  BY DEF Sound, Reported
  <2>2. CASE j = FirstLeader
    <3>1. log[j] = Main /\ log'[j] = Main'  BY SMT, <2>2 DEF Main
    <3>2. commit[j] \in Nat /\ commit[j] <= commit[j] /\ commit[j] <= Len(Main)
      <4>1. commit[j] \in Nat  BY <1>2, NodeData
      <4>2. commit[j] <= commit[j]  BY <4>1, SMTT(30)
      <4>. QED  BY <3>1, <4>1, <4>2 DEF Sound, Copies
    <3>. QED  BY <1>3, <1>11, <1>18, <2>1, <3>1, <3>2, ReportedKept
  <2>3. CASE j # FirstLeader  BY <1>10, <2>1, <2>3
  <2>. QED  BY SMT, <2>2, <2>3
<1>. QED
  BY SMT, <1>3, <1>4, <1>11, <1>12, <1>13, <1>14, <1>15, <1>17, <1>19, <1>20, <1>21, <1>22

\* drain_inbox() on the leader.
LEMMA LeaderDrainKeeps ==
    ASSUME Sound, NEW i \in Node, NEW e, DrainInbox(i, e), leading[i]
    PROVE  Sound' /\ AppendsNew
<1>. USE ZenonT(30)
<1>0. FirstLeader \in Node /\ i = FirstLeader  BY ForwardingAssumption DEF Sound, OneLeader
<1>1. /\ LeaderAppend(FirstLeader, FirstLeader, inbox[FirstLeader])
      /\ inbox' = [inbox EXCEPT ![FirstLeader] = <<>>]
      /\ happened' = happened /\ chan' = chan /\ fwdPending' = fwdPending
      /\ UNCHANGED <<term, leading, leaderId, commit, link, seqs, drawn, statusVars, committedFwd>>
  BY <1>0 DEF DrainInbox
<1>. DEFINE list == inbox[FirstLeader]
            sq == seqs[FirstLeader]
<1>2. Data  BY SMT DEF Sound
<1>3. list \in Seq(Proposal) /\ Len(sq) \in Nat /\ drawn[FirstLeader] \in SUBSET Proposal
  BY <1>0, <1>2, NodeData
<1>4. Line(FirstLeader) = list
  <2>1. fwdPending[FirstLeader] = <<>>  BY SMT DEF Sound, Own
  <2>2. <<>> \o list = list  BY <1>3, SeqConcatEmpty
  <2>. QED  BY SMT, <2>1, <2>2 DEF Line
<1>5. BacklogOk(Main, sq, drawn[FirstLeader], list)  BY <1>0, <1>4 DEF Sound, Backlog
<1>. HIDE DEF list, sq
<1>6. NoGap(Main, sq, list)
  <2>1. \A k \in 1..Len(list) : Proper(sq, list[k])  BY <1>5 DEF BacklogOk
  <2>2. \A k \in 1..Len(list) : \A s \in 1..(list[k].seq - 1) :
            Logs(Main, sq[s]) \/ \E b \in 1..(k - 1) : list[b].seq = s
    BY <1>3, <1>5, LineHasNoGap
  <2>. QED  BY <2>1, <2>2 DEF NoGap
<1>7. /\ inbox' \in [Node -> Seq(Proposal)] /\ inbox'[FirstLeader] = <<>>
      /\ \A j \in Node : j # FirstLeader => inbox'[j] = inbox[j]
  <2>1. <<>> \in Seq(Proposal)  BY SeqEmpty
  <2>. QED  BY <1>0, <1>1, <1>2, <2>1 DEF Data
<1>8. /\ chan' \in [Node -> [Node -> Seq(Frame)]] /\ fwdPending' \in [Node -> Seq(Proposal)]
      /\ happened'["op"] = happened["op"]
  BY <1>1, <1>2 DEF Data
<1>9. /\ Extends(Main, Main', list) /\ Len(Main) \in Nat /\ Len(Main') \in Nat
      /\ Len(list) \in Nat
      /\ Data' /\ OneLeader' /\ Copies' /\ Distinct' /\ LogOrder' /\ Acks'
      /\ Settled' /\ Tracked' /\ Reported'
  <2>1. NoGap(Main, seqs[FirstLeader], inbox[FirstLeader])  BY SMT, <1>6 DEF sq, list
  <2>2. inbox[FirstLeader] \in Seq(Proposal)  BY SMT, <1>3 DEF list
  <2>3. \A j \in Node : chan'[FirstLeader][j] = chan[FirstLeader][j]  BY <1>1
  <2>4. AppendStep(FirstLeader, inbox[FirstLeader])
    BY <1>1, <1>7, <1>8, <2>3 DEF AppendStep
  <2>5. Ascending(inbox[FirstLeader])  BY <1>5 DEF BacklogOk, list
  <2>. QED  BY <1>0, <2>1, <2>2, <2>4, <2>5, AppendKeeps DEF list
<1>10. Grows(Main, Main')  BY <1>9 DEF Extends
<1>11. /\ seqs' = seqs /\ drawn' = drawn /\ link' = link  BY <1>1
<1>12. Backlog'
  <2>. SUFFICES ASSUME NEW j \in Node  PROVE BacklogOk(Main', seqs[j], drawn[j], Line(j)')
    BY <1>11 DEF Backlog
  <2>1. CASE j = FirstLeader
    <3>1. Line(j)' = <<>>
      <4>1. Line(j)' = <<>> \o <<>>  BY <1>1, <1>7, <2>1 DEF Sound, Own, Line
      <4>2. <<>> \o <<>> = <<>>  BY SeqEmpty, SeqConcatEmpty, SMTT(30)
      <4>. QED  BY SMT, <4>1, <4>2
    <3>2. Len(<<>>) = 0 /\ 0 \in 0..0 /\ \A k \in 1..0 : FALSE  BY SMTT(30)
    <3>3. \A s \in 1..Len(sq) : Has(list, s) => Logs(Main', sq[s])
      <4>1. \A a \in 1..Len(list) : list[a].op = sq[list[a].seq]  BY <1>5 DEF BacklogOk, Proper
      <4>2. \A a \in 1..Len(list) : Logs(Main', list[a].op)  BY <1>9, ExtendsLogs
      <4>. QED  BY <4>1, <4>2 DEF Has
    <3>4. \A s \in 1..Len(sq) : Logs(Main, sq[s]) => Logs(Main', sq[s])
      BY <1>9, <1>10, LogsKept
    <3>5. \A s \in 1..Len(sq) : Logs(Main', sq[s]) \/ \E p \in drawn[FirstLeader] : p.seq = s
      BY <1>5, <3>3, <3>4 DEF BacklogOk
    <3>6. \A p \in drawn[FirstLeader] :
            drawn[FirstLeader] = {p} /\ p.seq = Len(sq) /\ Proper(sq, p)
      BY <1>5 DEF BacklogOk
    <3>7. BacklogOk(Main', sq, drawn[FirstLeader], <<>>)
      BY <3>2, <3>5, <3>6 DEF BacklogOk, Ascending, HasCuts, CutAt
    <3>. QED  BY <2>1, <3>1, <3>7 DEF sq
  <2>2. CASE j # FirstLeader
    <3>1. Line(j)' = Line(j)  BY <1>1, <1>7, <2>2 DEF Line
    <3>2. BacklogOk(Main, seqs[j], drawn[j], Line(j))  BY DEF Sound, Backlog
    <3>. QED  BY <1>9, <1>10, <3>1, <3>2, BacklogKept
  <2>. QED  BY SMT, <2>1, <2>2
<1>13. \A j \in Node : Len(seqs[j]) \in Nat /\ Grows(seqs[j], seqs[j])
  <2>1. \A j \in Node : Len(seqs[j]) \in Nat  BY <1>2, NodeData
  <2>. QED  BY <2>1, SMTT(30) DEF Grows
<1>14. Wire'
  <2>1. \A j \in Node : WireOk(Main', seqs[j], chan[j][FirstLeader])
    BY <1>9, <1>10, <1>13, WireKept DEF Sound, Wire
  <2>. QED  BY <1>1, <1>11, <2>1 DEF Wire
<1>15. OnWire'
  <2>1. \A j \in Node : \A a \in 1..Len(fwdPending[j]) : Proper(seqs[j], fwdPending[j][a])
    BY PendingProper DEF Sound
  <2>2. \A j \in Node : <<j, FirstLeader>> \in link =>
            Underway(Main', seqs[j], chan[j][FirstLeader], fwdPending[j])
    BY <1>9, <1>10, <1>13, <2>1, UnderwayKept DEF Sound, OnWire
  <2>. QED  BY <1>1, <1>11, <2>2 DEF OnWire
<1>16. Silent'  BY <1>1 DEF Sound, Silent
<1>17. Own'
  <2>1. fwdPending'[FirstLeader] = <<>>  BY <1>1 DEF Sound, Own
  <2>2. Len(<<>>) = 0 /\ \A k \in 1..0 : FALSE  BY SMTT(30)
  <2>3. ASSUME NEW p \in drawn[FirstLeader], Logs(Main', p.op)  PROVE FALSE
    <3>1. PICK n \in 1..Len(Main') : Main'[n].op = p.op  BY <2>3 DEF Logs
    <3>2. CASE n \in 1..Len(Main)
      <4>1. Main[n].op = p.op  BY <1>10, <3>1, <3>2 DEF Grows
      <4>. QED  BY <3>2, <4>1 DEF Sound, Own, Logs
    <3>3. CASE n \notin 1..Len(Main)
      <4>1. PICK k \in 1..Len(list) : n = Len(Main) + k  BY <1>9, <3>3, ExtendsIndex, SMTT(30)
      <4>2. list[k].op = p.op  BY <1>9, <3>1, <4>1 DEF Extends
      <4>3. Proper(sq, list[k]) /\ Proper(sq, p) /\ list[k].seq < p.seq
        BY <1>5 DEF BacklogOk
      <4>4. \A s, t \in 1..Len(sq) : sq[s] = sq[t] => s = t
        BY <1>0 DEF Sound, Distinct, sq
      <4>5. list[k].seq = p.seq  BY <4>2, <4>3, <4>4 DEF Proper
      <4>. QED  BY <4>3, <4>5, SMTT(30) DEF Proper
    <3>. QED  BY SMT, <3>2, <3>3
  <2>. QED  BY <1>7, <1>11, <2>1, <2>2, <2>3 DEF Own
<1>18. AppendsNew
  <2>. SUFFICES ASSUME NEW n \in 1..Len(Main'), n \notin 1..Len(Main), NEW m \in 1..commit[FirstLeader]
       PROVE  Main[m].op # Main'[n].op
    BY DEF AppendsNew
  <2>1. n \in 1..Len(Main) \/ \E k \in 1..Len(list) : n = Len(Main) + k
    BY <1>9, ExtendsIndex, SMTT(30)
  <2>2. PICK k \in 1..Len(list) : n = Len(Main) + k  BY SMT, <2>1
  <2>3. Main'[n].op = list[k].op  BY <1>9, <2>2 DEF Extends
  <2>4. ~Logs(Main, list[k].op)  BY DEF Sound, Own, list
  <2>5. m \in 1..Len(Main)
    <3>1. commit[FirstLeader] <= Len(Main) /\ commit[FirstLeader] \in Nat
      BY <1>0, <1>2, NodeData DEF Sound, Copies, Main
    <3>. QED  BY <1>9, <3>1, SMTT(30)
  <2>. QED  BY <2>3, <2>4, <2>5 DEF Logs
<1>. QED  BY SMT, <1>9, <1>12, <1>14, <1>15, <1>16, <1>17, <1>18 DEF Sound

\* Two submissions of the same operation are one.
LEMMA OnceSubmitted ==
    ASSUME Distinct, NEW i \in Node, NEW j \in Node, NEW s \in 1..Len(seqs[i]),
           NEW t \in 1..Len(seqs[j]), seqs[i][s] = seqs[j][t]
    PROVE  i = j /\ s = t
BY ZenonT(30) DEF Distinct

\* The first frame from j to i is taken from the channel.
FrameTaken(i, j, type) ==
    /\ chan[j][i] \in Seq(Frame) /\ chan[j][i] # <<>> /\ 1 \in 1..Len(chan[j][i])
    /\ Head(chan[j][i]) = chan[j][i][1] /\ chan[j][i][1].type = type
    /\ chan[j][i][1] \in Frame /\ Tail(chan[j][i]) \in Seq(Frame)
    /\ chan' \in [Node -> [Node -> Seq(Frame)]] /\ chan'[j][i] = Tail(chan[j][i])
    /\ \A h, k \in Node : ~(h = j /\ k = i) => chan'[h][k] = chan[h][k]

\* A frame is read: the first one of a channel.
LEMMA FirstFrame ==
    ASSUME Data, NEW i \in Node, NEW j \in Node, NEW type, Arrived(i, j, type), chan' = Read(i, j)
    PROVE  FrameTaken(i, j, type)
<1>. USE ZenonT(30)
<1>. DEFINE up == chan[j][i]
<1>1. chan \in [Node -> [Node -> Seq(Frame)]] /\ up \in Seq(Frame) /\ up # <<>> /\ Head(up).type = type
  BY NodeData DEF Data, Arrived
<1>2. chan' = [chan EXCEPT ![j][i] = Tail(up)]  BY DEF Read
<1>. HIDE DEF up
<1>3. Len(up) \in Nat /\ Len(up) # 0 /\ Tail(up) \in Seq(Frame)
  BY <1>1, SeqTail, SeqFields, SeqEmpty
<1>4. 1 \in 1..Len(up) /\ Head(up) = up[1]
  <2>1. 1 \in 1..Len(up)  BY <1>3, SMTT(30)
  <2>2. Head(up) = up[1]  BY <1>1, SMTT(30)
  <2>. QED  BY SMT, <2>1, <2>2
<1>5. up[1] \in Frame  BY <1>1, <1>4, SeqElement
<1>6. /\ chan' \in [Node -> [Node -> Seq(Frame)]] /\ chan'[j][i] = Tail(up)
      /\ \A h, k \in Node : ~(h = j /\ k = i) => chan'[h][k] = chan[h][k]
  <2>1. chan[j] \in [Node -> Seq(Frame)]  BY <1>1
  <2>2. /\ [chan[j] EXCEPT ![i] = Tail(up)] \in [Node -> Seq(Frame)]
        /\ [chan[j] EXCEPT ![i] = Tail(up)][i] = Tail(up)
        /\ \A k \in Node : k # i => [chan[j] EXCEPT ![i] = Tail(up)][k] = chan[j][k]
    BY <1>3, <2>1
  <2>3. /\ chan' \in [Node -> [Node -> Seq(Frame)]] /\ chan'[j] = [chan[j] EXCEPT ![i] = Tail(up)]
        /\ \A h \in Node : h # j => chan'[h] = chan[h]
    BY <1>1, <1>2, <2>2
  <2>. QED  BY <2>2, <2>3
<1>. QED  BY <1>1, <1>3, <1>4, <1>5, <1>6 DEF up, FrameTaken

\* cl_dispatch(CL_FRAME_FORWARD).
LEMMA ReceiveForwardKeeps ==
    ASSUME Sound, NEW i \in Node, NEW j \in Node, ReceiveForward(i, j)
    PROVE  Sound' /\ AppendsNew
<1>. USE ZenonT(30)
<1>0. FirstLeader \in Node  BY SMT, ForwardingAssumption
<1>1. Data  BY SMT DEF Sound
<1>2. Arrived(i, j, "FORWARD") /\ chan' = Read(i, j)  BY DEF ReceiveForward
<1>3. /\ chan[j][i] \in Seq(Frame) /\ chan[j][i] # <<>> /\ 1 \in 1..Len(chan[j][i])
      /\ Head(chan[j][i]) = chan[j][i][1] /\ chan[j][i][1].type = "FORWARD"
      /\ chan[j][i][1] \in Frame
      /\ chan' \in [Node -> [Node -> Seq(Frame)]] /\ chan'[j][i] = Tail(chan[j][i])
      /\ \A h, k \in Node : ~(h = j /\ k = i) => chan'[h][k] = chan[h][k]
  <2>1. FrameTaken(i, j, "FORWARD")  BY <1>1, <1>2, FirstFrame
  <2>. QED  BY <2>1 DEF FrameTaken
<1>4. i = FirstLeader /\ j # FirstLeader
  <2>1. ASSUME j = FirstLeader, i # FirstLeader  PROVE FALSE
    <3>1. chan[j][i][1].type = "FORWARD_ACK"  BY <1>3, <2>1 DEF Sound, Acks, AcksOk
    <3>. QED  BY <1>3, <3>1
  <2>2. Silent  BY SMT DEF Sound
  <2>. QED  BY <1>3, <2>1, <2>2 DEF Silent
<1>. DEFINE up == chan[j][FirstLeader]
            p == up[1].p
            sq == seqs[j]
<1>5. /\ term' = term /\ leading' = leading /\ leaderId' = leaderId /\ commit' = commit
      /\ link' = link /\ drawn' = drawn /\ fwdPending' = fwdPending /\ fwdAcked' = fwdAcked
      /\ fwdMarked' = fwdMarked /\ done' = done /\ committedFwd' = committedFwd
      /\ happened' = happened
  BY DEF ReceiveForward, statusVars
<1>6. /\ up \in Seq(Frame) /\ up # <<>> /\ 1 \in 1..Len(up) /\ up[1] \in Frame
      /\ up[1].type = "FORWARD"
      /\ chan'[j][FirstLeader] = Tail(up)
  BY <1>3, <1>4
<1>7. /\ \A k \in Node : chan'[FirstLeader][k] = chan[FirstLeader][k]
      /\ \A k \in Node : k # j => chan'[k][FirstLeader] = chan[k][FirstLeader]
  BY <1>0, <1>3, <1>4
<1>8. p \in Proposal  BY <1>6 DEF Frame
<1>9. /\ AlreadyCommitted(FirstLeader, j, p) /\ UNCHANGED <<seqs, inboxVars, log, ackPending>>
      \/ /\ ~AlreadyCommitted(FirstLeader, j, p) /\ LeaderAppend(FirstLeader, j, <<p>>)
         /\ UNCHANGED <<seqs, inboxVars>>
  <2>1. leading[FirstLeader]  BY <1>0 DEF Sound, OneLeader
  <2>2. Head(chan[j][i]).p = p  BY <1>3, <1>4
  <2>. QED  BY <1>4, <2>1, <2>2 DEF ReceiveForward
<1>10. seqs' = seqs /\ inbox' = inbox  BY <1>9 DEF inboxVars
<1>11. WireOk(Main, sq, up)  BY DEF Sound, Wire
<1>. HIDE DEF up
<1>12. Proper(sq, p) /\ \A s \in 1..(p.seq - 1) : Logs(Main, sq[s])
  <2>1. /\ Proper(sq, up[1].p)
        /\ \A s \in 1..(up[1].p.seq - 1) : Logs(Main, sq[s]) \/ \E k \in 1..(1 - 1) : up[k].p.seq = s
    BY <1>6, <1>11 DEF WireOk
  <2>2. \A k \in 1..(1 - 1) : FALSE  BY SMTT(30)
  <2>. QED  BY <2>1, <2>2
<1>. HIDE DEF p
<1>13. Len(Main) \in Nat /\ \A k \in Node : Len(seqs[k]) \in Nat /\ Grows(seqs[k], seqs[k])
  <2>1. Len(Main) \in Nat /\ \A k \in Node : Len(seqs[k]) \in Nat
    BY <1>0, <1>1, NodeData DEF Main
  <2>. QED  BY <2>1, SMTT(30) DEF Grows
<1>14. /\ Grows(Main, Main') /\ Len(Main') \in Nat /\ Logs(Main', sq[p.seq])
       /\ Data' /\ OneLeader' /\ Copies' /\ Distinct' /\ LogOrder' /\ Acks'
       /\ Settled' /\ Tracked' /\ Reported'
       /\ \A n \in 1..Len(Main') : n \in 1..Len(Main) \/ Main'[n].op = p.op
  <2>1. CASE AlreadyCommitted(FirstLeader, j, p)
    <3>1. log' = log /\ ackPending' = ackPending  BY <1>9, <2>1
    <3>2. /\ OneLeader' /\ Copies' /\ Distinct' /\ LogOrder' /\ Settled' /\ Tracked'
          /\ Main' = Main
      BY <1>5, <1>10, <3>1, LogKept
    <3>3. Grows(Main, Main)  BY <1>13, SMTT(30) DEF Grows
    <3>4. Logs(Main, sq[p.seq])
      <4>1. AckOk(Main, sq, committedFwd[FirstLeader][j])  BY DEF Sound, Acks
      <4>2. committedFwd[FirstLeader][j].seq \in Nat
        <5>1. committedFwd[FirstLeader][j] \in Acked  BY <1>0, <1>1, NodeData
        <5>. QED  BY <5>1 DEF Acked
      <4>3. p.seq \in 1..committedFwd[FirstLeader][j].seq
        <5>1. p.seq <= committedFwd[FirstLeader][j].seq  BY <2>1 DEF AlreadyCommitted
        <5>2. p.seq \in 1..Len(sq) /\ Len(sq) \in Nat  BY <1>12, <1>13 DEF Proper
        <5>. QED  BY <4>2, <5>1, <5>2, SMTT(30)
      <4>. QED  BY <4>1, <4>3 DEF AckOk, InLog, Logs
    <3>5. Data'
      <4>1. chan' \in [Node -> [Node -> Seq(Frame)]]  BY SMT, <1>3
      <4>. QED  BY <1>1, <1>5, <1>10, <3>1, <4>1, ZenonT(60) DEF Data
    <3>6. Acks'  BY <1>5, <1>7, <1>10, <3>2 DEF Sound, Acks
    <3>7. Reported'  BY <1>5, <1>10, <3>1 DEF Sound, Reported
    <3>. QED  BY <1>13, <3>2, <3>3, <3>4, <3>5, <3>6, <3>7
  <2>2. CASE ~AlreadyCommitted(FirstLeader, j, p)
    <3>. DEFINE one == <<p>>
    <3>1. LeaderAppend(FirstLeader, j, one)  BY <1>9, <2>2
    <3>2. /\ one \in Seq(Proposal) /\ Len(one) = 1 /\ one[1] = p
          /\ \A k \in 1..1 : k = 1
      BY <1>8, SMTT(30)
    <3>. HIDE DEF one
    <3>3. NoGap(Main, sq, one)  BY <1>12, <3>2 DEF NoGap
    <3>10. Ascending(one)
      <4>1. \A a, b \in 1..1 : ~(a < b)  BY SMTT(30)
      <4>. QED  BY <3>2, <4>1 DEF Ascending
    <3>4. AppendStep(j, one)
      <4>1. /\ chan' \in [Node -> [Node -> Seq(Frame)]]
            /\ inbox' \in [Node -> Seq(Proposal)] /\ fwdPending' \in [Node -> Seq(Proposal)]
        BY <1>1, <1>3, <1>5, <1>10 DEF Data
      <4>. QED  BY <1>5, <1>7, <1>10, <3>1, <4>1 DEF AppendStep, statusVars
    <3>5. /\ Extends(Main, Main', one) /\ Len(Main') \in Nat
          /\ Data' /\ OneLeader' /\ Copies' /\ Distinct' /\ LogOrder' /\ Acks'
          /\ Settled' /\ Tracked' /\ Reported'
      BY <3>2, <3>3, <3>4, <3>10, AppendKeeps
    <3>6. 1 \in 1..1 /\ 1 \in Nat  BY SMTT(30)
    <3>7. Logs(Main', sq[p.seq])
      <4>1. Logs(Main', one[1].op)  BY <1>13, <3>2, <3>5, <3>6, ExtendsLogs
      <4>2. p.op = sq[p.seq]  BY <1>12 DEF Proper
      <4>. QED  BY <3>2, <4>1, <4>2
    <3>8. ASSUME NEW n \in 1..Len(Main'), n \notin 1..Len(Main)  PROVE Main'[n].op = p.op
      <4>1. PICK k \in 1..Len(one) : n = Len(Main) + k
        <5>1. Len(one) \in Nat  BY <3>2, <3>6
        <5>2. n \in 1..Len(Main) \/ \E k \in 1..Len(one) : n = Len(Main) + k
          BY <1>13, <3>5, <5>1, ExtendsIndex, SMTT(30)
        <5>. QED  BY <3>8, <5>2
      <4>2. k = 1 /\ k \in 1..1  BY <3>2
      <4>3. Main'[Len(Main) + k].op = one[k].op  BY <3>5 DEF Extends
      <4>. QED  BY <3>2, <4>1, <4>2, <4>3
    <3>9. Grows(Main, Main')  BY <3>5 DEF Extends
    <3>. QED  BY <3>5, <3>7, <3>8, <3>9
  <2>. QED  BY SMT, <2>1, <2>2
<1>15. Backlog'
  <2>1. \A k \in Node : Line(k)' = Line(k)  BY <1>5, <1>10 DEF Line
  <2>2. \A k \in Node : BacklogOk(Main', seqs[k], drawn[k], Line(k))
    BY <1>13, <1>14, BacklogKept DEF Sound, Backlog
  <2>. QED  BY <1>5, <1>10, <2>1, <2>2 DEF Backlog
<1>16. /\ WireOk(Main', sq, Tail(up))
       /\ \A pend : Underway(Main, sq, up, pend) => Underway(Main', sq, Tail(up), pend)
  <2>1. Logs(Main', sq[up[1].p.seq])  BY <1>14 DEF p
  <2>. QED  BY <1>6, <1>11, <1>13, <1>14, <2>1, FrameRead
<1>17. Wire'
  <2>. SUFFICES ASSUME NEW k \in Node  PROVE WireOk(Main', seqs[k], chan'[k][FirstLeader])
    BY <1>10 DEF Wire
  <2>1. CASE k = j  BY <1>6, <1>16, <2>1
  <2>2. CASE k # j
    <3>1. WireOk(Main, seqs[k], chan[k][FirstLeader])  BY DEF Sound, Wire
    <3>2. WireOk(Main', seqs[k], chan[k][FirstLeader])  BY <1>13, <1>14, <3>1, WireKept
    <3>. QED  BY <1>7, <2>2, <3>2
  <2>. QED  BY SMT, <2>1, <2>2
<1>18. OnWire'
  <2>. SUFFICES ASSUME NEW k \in Node, <<k, FirstLeader>> \in link
       PROVE  Underway(Main', seqs[k], chan'[k][FirstLeader], fwdPending[k])
    BY <1>5, <1>10 DEF OnWire
  <2>1. Underway(Main, seqs[k], chan[k][FirstLeader], fwdPending[k])  BY DEF Sound, OnWire
  <2>2. CASE k = j  BY <1>6, <1>16, <2>1, <2>2 DEF up
  <2>3. CASE k # j
    <3>1. \A a \in 1..Len(fwdPending[k]) : Proper(seqs[k], fwdPending[k][a])
      BY PendingProper DEF Sound
    <3>2. Underway(Main', seqs[k], chan[k][FirstLeader], fwdPending[k])
      BY <1>13, <1>14, <2>1, <3>1, UnderwayKept
    <3>. QED  BY <1>7, <2>3, <3>2
  <2>. QED  BY SMT, <2>2, <2>3
<1>19. Silent'
  <2>1. \A h, k \in Node :
          (h # FirstLeader /\ k # FirstLeader) \/ (h = FirstLeader /\ k = FirstLeader) =>
              chan'[h][k] = chan[h][k]
    BY <1>3, <1>4
  <2>. QED  BY <2>1 DEF Sound, Silent
<1>20. Own'
  <2>1. ASSUME NEW q, Proper(seqs[FirstLeader], q), ~Logs(Main, q.op)  PROVE ~Logs(Main', q.op)
    <3>. SUFFICES ASSUME NEW n \in 1..Len(Main'), Main'[n].op = q.op  PROVE FALSE
      BY DEF Logs
    <3>1. CASE n \in 1..Len(Main)
      <4>1. Main'[n] = Main[n]  BY <1>14, <3>1 DEF Grows
      <4>. QED  BY <2>1, <3>1, <4>1 DEF Logs
    <3>2. CASE n \notin 1..Len(Main)
      <4>1. p.op = q.op  BY <1>14, <3>2
      <4>2. /\ p.seq \in 1..Len(seqs[j]) /\ p.op = seqs[j][p.seq]
            /\ q.seq \in 1..Len(seqs[FirstLeader]) /\ q.op = seqs[FirstLeader][q.seq]
        BY <1>12, <2>1 DEF Proper
      <4>3. Distinct  BY SMT DEF Sound
      <4>4. seqs[j][p.seq] = seqs[FirstLeader][q.seq]  BY <4>1, <4>2
      <4>. QED  BY <1>0, <1>4, <4>2, <4>3, <4>4, OnceSubmitted
    <3>. QED  BY SMT, <3>1, <3>2
  <2>2. /\ \A a \in 1..Len(inbox[FirstLeader]) : Proper(seqs[FirstLeader], inbox[FirstLeader][a])
        /\ \A q \in drawn[FirstLeader] : Proper(seqs[FirstLeader], q)
    <3>1. Line(FirstLeader) = inbox[FirstLeader]
      <4>1. fwdPending[FirstLeader] = <<>>  BY SMT DEF Sound, Own
      <4>2. inbox[FirstLeader] \in Seq(Proposal)  BY <1>0, <1>1, NodeData
      <4>3. <<>> \o inbox[FirstLeader] = inbox[FirstLeader]  BY <4>2, SeqConcatEmpty
      <4>. QED  BY SMT, <4>1, <4>3 DEF Line
    <3>2. BacklogOk(Main, seqs[FirstLeader], drawn[FirstLeader], inbox[FirstLeader])
      BY <1>0, <3>1 DEF Sound, Backlog
    <3>. QED  BY <3>2 DEF BacklogOk
  <2>3. \A a \in 1..Len(inbox[FirstLeader]) : ~Logs(Main', inbox[FirstLeader][a].op)
    BY <2>1, <2>2 DEF Sound, Own
  <2>4. \A q \in drawn[FirstLeader] : ~Logs(Main', q.op)
    BY <2>1, <2>2 DEF Sound, Own
  <2>5. fwdPending[FirstLeader] = <<>>  BY SMT DEF Sound, Own
  <2>. QED  BY <1>5, <1>10, <2>3, <2>4, <2>5 DEF Own
<1>21. AppendsNew
  <2>. SUFFICES ASSUME NEW n \in 1..Len(Main'), n \notin 1..Len(Main), NEW m \in 1..commit[FirstLeader],
                       Main[m].op = Main'[n].op
       PROVE  FALSE
    BY DEF AppendsNew
  <2>1. ~AlreadyCommitted(FirstLeader, j, p)
    <3>1. AlreadyCommitted(FirstLeader, j, p) => Main' = Main  BY <1>9 DEF Main
    <3>. QED  BY <3>1
  <2>2. Main[m].op = p.op  BY <1>14
  <2>3. PICK o \in Node : \E q \in 1..Len(seqs[o]) :
          Main[m].op = seqs[o][q] /\ (o = FirstLeader \/ q <= committedFwd[FirstLeader][o].seq)
    BY DEF Sound, Settled
  <2>4. PICK q \in 1..Len(seqs[o]) :
          Main[m].op = seqs[o][q] /\ (o = FirstLeader \/ q <= committedFwd[FirstLeader][o].seq)
    BY SMT, <2>3
  <2>5. p.seq \in 1..Len(seqs[j]) /\ p.op = seqs[j][p.seq]  BY <1>12 DEF Proper
  <2>6. seqs[o][q] = seqs[j][p.seq]  BY <2>2, <2>4, <2>5
  <2>7. Distinct  BY SMT DEF Sound
  <2>8. o = j /\ q = p.seq  BY <2>5, <2>6, <2>7, OnceSubmitted, SMTT(30)
  <2>. QED  BY <1>4, <2>1, <2>4, <2>8 DEF AlreadyCommitted
<1>. QED  BY SMT, <1>14, <1>15, <1>17, <1>18, <1>19, <1>20, <1>21 DEF Sound

\* resolve_local_fwd_acks(): what it reports is applied.
LEMMA MarkedReported ==
    ASSUME Data, NEW i \in Node, NEW applied \in Nat, NEW k \in Acked, NEW others \in SUBSET Nat,
           MarkResolved(i, applied, k, others),
           NEW ap, NEW lg, NEW sq, Grows(ap, lg), Len(ap) \in Nat, Len(lg) \in Nat,
           applied <= Len(ap), AckOk(lg, sq, k),
           ReportedOk(ap, applied, sq, done[i]), ReportedOk(ap, applied, sq, others)
    PROVE  /\ done' \in [Node -> SUBSET Nat] /\ fwdMarked' \in [Node -> Nat]
           /\ \A j \in Node : j # i => done'[j] = done[j]
           /\ ReportedOk(ap, applied, sq, done'[i])
<1>. USE ZenonT(30)
<1>. DEFINE R == Resolved(i, applied, k)
<1>1. fwdMarked[i] \in Nat /\ k.seq \in Nat /\ k.index \in Nat  BY NodeData DEF Acked
<1>2. R \in SUBSET Nat /\ ReportedOk(ap, applied, sq, R)
  <2>1. CASE applied < k.index
    <3>1. R = {}  BY <2>1 DEF Resolved
    <3>. QED  BY <3>1 DEF ReportedOk
  <2>2. CASE ~(applied < k.index)
    <3>1. R = fwdMarked[i] + 1 .. k.seq  BY <2>2 DEF Resolved
    <3>2. k.index <= applied  BY <1>1, <2>2, SMTT(30)
    <3>3. ReportedOk(ap, applied, sq, fwdMarked[i] + 1 .. k.seq)
      BY <1>1, <3>2, ResolvedReported
    <3>4. \A x \in Nat : \A s \in x + 1 .. k.seq : s \in Nat  BY <1>1, SMTT(30)
    <3>5. \A s \in fwdMarked[i] + 1 .. k.seq : s \in Nat  BY <1>1, <3>4
    <3>. QED  BY <3>1, <3>3, <3>5
  <2>. QED  BY <2>1, <2>2
<1>3. /\ done' = [done EXCEPT ![i] = @ \cup R \cup others]
      /\ fwdMarked' = [fwdMarked EXCEPT ![i] = IF R = {} THEN @ ELSE k.seq]
  BY DEF MarkResolved
<1>. HIDE DEF R
<1>4. done \in [Node -> SUBSET Nat] /\ fwdMarked \in [Node -> Nat]  BY DEF Data
<1>5. done'[i] = done[i] \cup R \cup others /\ \A j \in Node : j # i => done'[j] = done[j]
  BY <1>3, <1>4
<1>6. done[i] \cup R \cup others \in SUBSET Nat  BY <1>2, <1>4
<1>7. done' \in [Node -> SUBSET Nat]  BY <1>3, <1>4, <1>6
<1>8. fwdMarked' \in [Node -> Nat]  BY <1>1, <1>3, <1>4
<1>9. ReportedOk(ap, applied, sq, done'[i])  BY <1>2, <1>5 DEF ReportedOk
<1>. QED  BY <1>5, <1>7, <1>8, <1>9

\* cl_dispatch(CL_FRAME_FORWARD_ACK).
LEMMA ReceiveAckKeeps ==
    ASSUME Sound, NEW i \in Node, NEW j \in Node, ReceiveAck(i, j)
    PROVE  Sound'
<1>. USE ZenonT(30)
<1>0. FirstLeader \in Node  BY SMT, ForwardingAssumption
<1>1. Data  BY SMT DEF Sound
<1>2. Arrived(i, j, "FORWARD_ACK") /\ chan' = Read(i, j)  BY DEF ReceiveAck
<1>3. /\ chan[j][i] \in Seq(Frame) /\ chan[j][i] # <<>> /\ 1 \in 1..Len(chan[j][i])
      /\ Head(chan[j][i]) = chan[j][i][1] /\ chan[j][i][1].type = "FORWARD_ACK"
      /\ chan[j][i][1] \in Frame
      /\ chan' \in [Node -> [Node -> Seq(Frame)]] /\ chan'[j][i] = Tail(chan[j][i])
      /\ \A h, k \in Node : ~(h = j /\ k = i) => chan'[h][k] = chan[h][k]
  <2>1. FrameTaken(i, j, "FORWARD_ACK")  BY <1>1, <1>2, FirstFrame
  <2>. QED  BY <2>1 DEF FrameTaken
<1>4. j = FirstLeader /\ i # FirstLeader
  <2>1. i # FirstLeader
    <3>. SUFFICES ASSUME i = FirstLeader  PROVE FALSE
      BY SMT
    <3>1. chan[j][i][1].type = "FORWARD"  BY <1>3 DEF Sound, Wire, WireOk
    <3>. QED  BY <1>3, <3>1
  <2>2. Silent  BY SMT DEF Sound
  <2>. QED  BY <1>3, <2>1, <2>2 DEF Silent
<1>. DEFINE down == chan[FirstLeader][i]
            upto == down[1].upto
            acked == Furthest(fwdAcked[i], upto)
<1>5. /\ term' = term /\ leading' = leading /\ leaderId' = leaderId /\ log' = log
      /\ commit' = commit /\ link' = link /\ seqs' = seqs /\ drawn' = drawn /\ inbox' = inbox
      /\ ackPending' = ackPending /\ committedFwd' = committedFwd /\ happened' = happened
  BY DEF ReceiveAck, raftVars, inboxVars, leaderVars
<1>6. Head(chan[j][i]).upto = upto  BY <1>3, <1>4
<1>7. /\ fwdAcked' = [fwdAcked EXCEPT ![i] = acked]
      /\ fwdPending' = [fwdPending EXCEPT ![i] = Newer(@, upto.seq)]
      /\ MarkResolved(i, commit[i], fwdAcked'[i], {})
  BY <1>6 DEF ReceiveAck
<1>8. upto \in Acked /\ AckOk(Main, seqs[i], upto)
  <2>1. down[1] \in Frame /\ down[1].type = "FORWARD_ACK"  BY <1>3, <1>4
  <2>2. upto \in Acked  BY <2>1 DEF Frame
  <2>. QED  BY <1>3, <1>4, <2>2 DEF Sound, Acks, AcksOk
<1>. HIDE DEF upto
<1>9. Len(Main) \in Nat /\ Len(seqs[i]) \in Nat /\ Len(log[i]) \in Nat /\ commit[i] \in Nat
      /\ fwdPending[i] \in Seq(Proposal) /\ inbox[i] \in Seq(Proposal) /\ fwdAcked[i] \in Acked
  BY <1>0, <1>1, NodeData DEF Main
<1>10. acked \in Acked /\ AckOk(Main, seqs[i], acked)
  BY <1>8, <1>9, FurthestOk DEF Sound, Acks
<1>. HIDE DEF acked
<1>11. /\ fwdAcked' \in [Node -> Acked] /\ fwdAcked'[i] = acked
       /\ \A k \in Node : k # i => fwdAcked'[k] = fwdAcked[k]
  BY <1>1, <1>7, <1>10 DEF Data
<1>12. /\ Newer(fwdPending[i], upto.seq) \in Seq(Proposal)
       /\ BacklogOk(Main, seqs[i], drawn[i], Newer(fwdPending[i], upto.seq) \o inbox[i])
       /\ \A up : Underway(Main, seqs[i], up, fwdPending[i]) =>
                    Underway(Main, seqs[i], up, Newer(fwdPending[i], upto.seq))
  <2>1. BacklogOk(Main, seqs[i], drawn[i], fwdPending[i] \o inbox[i])
    BY DEF Sound, Backlog, Line
  <2>. QED  BY <1>8, <1>9, <2>1, AckBacklog
<1>13. /\ fwdPending' \in [Node -> Seq(Proposal)]
       /\ fwdPending'[i] = Newer(fwdPending[i], upto.seq)
       /\ \A k \in Node : k # i => fwdPending'[k] = fwdPending[k]
  BY <1>1, <1>7, <1>12 DEF Data
<1>14. /\ done' \in [Node -> SUBSET Nat] /\ fwdMarked' \in [Node -> Nat]
       /\ \A k \in Node : k # i => done'[k] = done[k]
       /\ ReportedOk(log[i], commit[i], seqs[i], done'[i])
  <2>1. Grows(log[i], Main) /\ commit[i] <= Len(log[i])  BY DEF Sound, Copies
  <2>2. ReportedOk(log[i], commit[i], seqs[i], done[i])  BY DEF Sound, Reported
  <2>3. ReportedOk(log[i], commit[i], seqs[i], {}) /\ {} \in SUBSET Nat  BY DEF ReportedOk
  <2>4. MarkResolved(i, commit[i], acked, {})  BY <1>7, <1>11
  <2>. QED  BY <1>1, <1>9, <1>10, <2>1, <2>2, <2>3, <2>4, MarkedReported
<1>15. /\ OneLeader' /\ Copies' /\ Distinct' /\ LogOrder' /\ Settled' /\ Tracked'
       /\ Main' = Main
  BY <1>5, LogKept
<1>16. Data'
  <2>1. /\ chan' \in [Node -> [Node -> Seq(Frame)]] /\ fwdAcked' \in [Node -> Acked]
        /\ fwdPending' \in [Node -> Seq(Proposal)]
        /\ done' \in [Node -> SUBSET Nat] /\ fwdMarked' \in [Node -> Nat]
    BY <1>3, <1>11, <1>13, <1>14
  <2>. QED  BY <1>1, <1>5, <2>1, ZenonT(60) DEF Data
<1>17. Backlog'
  <2>. SUFFICES ASSUME NEW k \in Node  PROVE BacklogOk(Main, seqs[k], drawn[k], Line(k)')
    BY <1>5, <1>15 DEF Backlog
  <2>1. CASE k = i  BY <1>5, <1>12, <1>13, <2>1 DEF Line
  <2>2. CASE k # i
    <3>1. Line(k)' = Line(k)  BY <1>5, <1>13, <2>2 DEF Line
    <3>. QED  BY <3>1 DEF Sound, Backlog
  <2>. QED  BY SMT, <2>1, <2>2
<1>18. \A k \in Node : chan'[k][FirstLeader] = chan[k][FirstLeader]  BY <1>0, <1>3, <1>4
<1>19. Wire'  BY <1>5, <1>15, <1>18 DEF Sound, Wire
<1>20. OnWire'
  <2>. SUFFICES ASSUME NEW k \in Node, <<k, FirstLeader>> \in link
       PROVE  Underway(Main, seqs[k], chan[k][FirstLeader], fwdPending'[k])
    BY <1>5, <1>15, <1>18 DEF OnWire
  <2>1. Underway(Main, seqs[k], chan[k][FirstLeader], fwdPending[k])  BY DEF Sound, OnWire
  <2>. QED  BY <1>12, <1>13, <2>1
<1>21. Silent'
  <2>1. \A h, k \in Node :
          (h # FirstLeader /\ k # FirstLeader) \/ (h = FirstLeader /\ k = FirstLeader) =>
              chan'[h][k] = chan[h][k]
    BY <1>3, <1>4
  <2>. QED  BY <2>1 DEF Sound, Silent
<1>22. Acks'
  <2>1. \A k \in Node : AckOk(Main, seqs[k], fwdAcked'[k])  BY <1>10, <1>11 DEF Sound, Acks
  <2>2. \A k \in Node : AckOk(Main, seqs[k], committedFwd[FirstLeader][k])  BY DEF Sound, Acks
  <2>3. \A k \in Node : k # FirstLeader => AcksOk(Main, seqs[k], chan'[FirstLeader][k])
    <3>. SUFFICES ASSUME NEW k \in Node, k # FirstLeader
         PROVE  AcksOk(Main, seqs[k], chan'[FirstLeader][k])
      BY SMT
    <3>1. AcksOk(Main, seqs[k], chan[FirstLeader][k])  BY DEF Sound, Acks
    <3>2. CASE k = i
      <4>1. /\ chan'[FirstLeader][k] = Tail(down) /\ down \in Seq(Frame) /\ down # <<>>
        BY <1>3, <1>4, <3>2
      <4>. HIDE DEF down
      <4>2. AcksOk(Main, seqs[k], down)  BY <3>1, <3>2 DEF down
      <4>3. Len(down) \in Nat /\ Len(Tail(down)) = Len(down) - 1
            /\ \A x \in 1..Len(Tail(down)) : Tail(down)[x] = down[x + 1]
        BY <4>1, SeqTail, SeqFields
      <4>4. \A x \in 1..Len(Tail(down)) : x + 1 \in 1..Len(down)  BY <4>3, SMTT(30)
      <4>5. AcksOk(Main, seqs[k], Tail(down))  BY <4>2, <4>3, <4>4 DEF AcksOk
      <4>. QED  BY <4>1, <4>5
    <3>3. CASE k # i
      <4>1. chan'[FirstLeader][k] = chan[FirstLeader][k]  BY <1>0, <1>3, <3>3
      <4>. QED  BY <3>1, <4>1
    <3>. QED  BY SMT, <3>2, <3>3
  <2>. QED  BY <1>5, <1>15, <2>1, <2>2, <2>3 DEF Acks
<1>23. Own'
  <2>1. fwdPending'[FirstLeader] = fwdPending[FirstLeader]  BY <1>0, <1>4, <1>13
  <2>. QED  BY <1>5, <1>15, <2>1 DEF Sound, Own
<1>24. Reported'
  <2>1. \A k \in Node : ReportedOk(log[k], commit[k], seqs[k], done'[k])
    BY <1>14 DEF Sound, Reported
  <2>. QED  BY <1>5, <2>1 DEF Reported
<1>. QED
  BY SMT, <1>15, <1>16, <1>17, <1>19, <1>20, <1>21, <1>22, <1>23, <1>24 DEF Sound

\* AppendEntries: a node takes over the leader's log and commit index.
LEMMA ReplicateKeeps ==
    ASSUME Sound, NEW l \in Node, NEW j \in Node, Replicate(l, j)
    PROVE  Sound'
<1>. USE ZenonT(30)
<1>0. FirstLeader \in Node  BY SMT, ForwardingAssumption
<1>1. Data  BY SMT DEF Sound
<1>2. l = FirstLeader /\ j # FirstLeader
  BY DEF Sound, OneLeader, Replicate, Newest
<1>3. /\ term' = [term EXCEPT ![j] = term[FirstLeader]]
      /\ leading' = [leading EXCEPT ![j] = FALSE]
      /\ leaderId' = [leaderId EXCEPT ![j] = FirstLeader]
      /\ log' = [log EXCEPT ![j] = Main]
      /\ commit' = [commit EXCEPT ![j] = commit[FirstLeader]]
      /\ MarkResolved(j, commit[FirstLeader], fwdAcked[j], {})
  BY <1>2 DEF Replicate, Main
<1>4. /\ happened' = happened /\ link' = link /\ chan' = chan /\ seqs' = seqs /\ drawn' = drawn
      /\ inbox' = inbox /\ fwdPending' = fwdPending /\ fwdAcked' = fwdAcked
      /\ ackPending' = ackPending /\ committedFwd' = committedFwd
  BY DEF Replicate, inboxVars, leaderVars
<1>5. /\ Main \in Seq(LogEntry) /\ Len(Main) \in Nat /\ commit[FirstLeader] \in Nat
      /\ term[FirstLeader] \in Nat
      /\ Len(log[j]) \in Nat /\ commit[j] \in Nat /\ Len(seqs[j]) \in Nat /\ fwdAcked[j] \in Acked
  <2>1. term[FirstLeader] \in Nat  BY <1>0, <1>1 DEF Data
  <2>. QED  BY <1>0, <1>1, <2>1, NodeData DEF Main
<1>6. /\ term' \in [Node -> Nat] /\ log' \in [Node -> Seq(LogEntry)] /\ commit' \in [Node -> Nat]
      /\ log'[j] = Main /\ commit'[j] = commit[FirstLeader]
      /\ \A k \in Node : k # j => log'[k] = log[k] /\ commit'[k] = commit[k]
  <2>1. term' \in [Node -> Nat]  BY <1>1, <1>3, <1>5 DEF Data
  <2>2. /\ log' \in [Node -> Seq(LogEntry)] /\ log'[j] = Main
        /\ \A k \in Node : k # j => log'[k] = log[k]
    BY <1>1, <1>3, <1>5 DEF Data
  <2>3. /\ commit' \in [Node -> Nat] /\ commit'[j] = commit[FirstLeader]
        /\ \A k \in Node : k # j => commit'[k] = commit[k]
    BY <1>1, <1>3, <1>5 DEF Data
  <2>. QED  BY SMT, <2>1, <2>2, <2>3
<1>7. Main' = Main /\ commit'[FirstLeader] = commit[FirstLeader]
  BY <1>0, <1>2, <1>6 DEF Main
<1>8. Grows(Main, Main) /\ Grows(seqs[j], seqs[j])  BY <1>5, SMTT(30) DEF Grows
<1>9. /\ Grows(log[j], Main) /\ commit[j] <= Len(log[j]) /\ commit[j] <= commit[FirstLeader]
      /\ commit[FirstLeader] <= Len(Main)
  BY <1>0 DEF Sound, Copies, Main
<1>10. /\ done' \in [Node -> SUBSET Nat] /\ fwdMarked' \in [Node -> Nat]
       /\ \A k \in Node : k # j => done'[k] = done[k]
       /\ ReportedOk(Main, commit[FirstLeader], seqs[j], done'[j])
  <2>1. ReportedOk(log[j], commit[j], seqs[j], done[j])  BY DEF Sound, Reported
  <2>2. ReportedOk(Main, commit[FirstLeader], seqs[j], done[j])
    BY <1>5, <1>8, <1>9, <2>1, ReportedKept
  <2>3. ReportedOk(Main, commit[FirstLeader], seqs[j], {}) /\ {} \in SUBSET Nat
    BY DEF ReportedOk
  <2>4. AckOk(Main, seqs[j], fwdAcked[j])  BY DEF Sound, Acks
  <2>. QED  BY <1>1, <1>3, <1>5, <1>8, <1>9, <2>2, <2>3, <2>4, MarkedReported
<1>11. Data'
  <2>1. /\ term' \in [Node -> Nat] /\ log' \in [Node -> Seq(LogEntry)] /\ commit' \in [Node -> Nat]
        /\ done' \in [Node -> SUBSET Nat] /\ fwdMarked' \in [Node -> Nat]
    BY <1>6, <1>10
  <2>. QED  BY <1>1, <1>4, <2>1, ZenonT(60) DEF Data
<1>12. OneLeader'
  <2>1. /\ leading = [k \in Node |-> k = FirstLeader]
        /\ leaderId = [k \in Node |-> FirstLeader]
    BY SMT DEF Sound, OneLeader
  <2>2. leading' = [k \in Node |-> k = FirstLeader]  BY <1>2, <1>3, <2>1
  <2>3. leaderId' = [k \in Node |-> FirstLeader]  BY <1>3, <2>1
  <2>. QED  BY SMT, <2>2, <2>3 DEF OneLeader
<1>13. Copies'
  <2>. SUFFICES ASSUME NEW k \in Node
       PROVE  /\ Grows(log'[k], Main) /\ commit'[k] <= Len(log'[k])
              /\ commit'[k] <= commit[FirstLeader]
    BY <1>7 DEF Copies
  <2>1. CASE k = j
    <3>1. commit[FirstLeader] <= commit[FirstLeader]  BY <1>5, SMTT(30)
    <3>. QED  BY <1>6, <1>8, <1>9, <2>1, <3>1
  <2>2. CASE k # j  BY <1>6, <2>2 DEF Sound, Copies
  <2>. QED  BY SMT, <2>1, <2>2
<1>14. Distinct'
  <2>1. Distinct  BY SMT DEF Sound
  <2>. QED  BY <1>4, <2>1, SMTT(30) DEF Distinct
<1>15. LogOrder'  BY <1>4, <1>7 DEF Sound, LogOrder
<1>16. Backlog'
  <2>1. \A k \in Node : Line(k)' = Line(k)  BY <1>4 DEF Line
  <2>. QED  BY <1>4, <1>7, <2>1 DEF Sound, Backlog
<1>17. Wire'  BY <1>4, <1>7 DEF Sound, Wire
<1>18. OnWire'  BY <1>4, <1>7 DEF Sound, OnWire
<1>19. Silent'  BY <1>4 DEF Sound, Silent
<1>20. Acks'  BY <1>4, <1>7 DEF Sound, Acks
<1>21. Own'  BY <1>4, <1>7 DEF Sound, Own
<1>22. Settled'  BY <1>4, <1>7 DEF Sound, Settled
<1>23. Tracked'  BY <1>4, <1>7 DEF Sound, Tracked
<1>24. Reported'
  <2>. SUFFICES ASSUME NEW k \in Node  PROVE ReportedOk(log'[k], commit'[k], seqs[k], done'[k])
    BY <1>4 DEF Reported
  <2>1. CASE k = j  BY <1>6, <1>10, <2>1
  <2>2. CASE k # j  BY <1>6, <1>10, <2>2 DEF Sound, Reported
  <2>. QED  BY SMT, <2>1, <2>2
<1>. QED
  BY SMT, <1>11, <1>12, <1>13, <1>14, <1>15, <1>16, <1>17, <1>18, <1>19, <1>20, <1>21, <1>22, <1>23,
     <1>24 DEF Sound

-----------------------------------------------------------------------------
(* advance_commit().                                                       *)

\* An entry of fwd_ack_pending and the entry of the log it stands for.
LEMMA TrackedEntry ==
    ASSUME Data, Tracked, NEW m \in 1..Len(ackPending[FirstLeader])
    PROVE  LET a == ackPending[FirstLeader][m]
           IN  /\ a \in AckEntry /\ a.origin \in Node /\ a.seq \in Nat /\ a.index \in Nat
               /\ a.index = commit[FirstLeader] + m
               /\ a.seq \in 1..Len(seqs[a.origin]) /\ Main[a.index].op = seqs[a.origin][a.seq]
<1>. USE ZenonT(30)
<1>0. FirstLeader \in Node  BY SMT, ForwardingAssumption
<1>. DEFINE a == ackPending[FirstLeader][m]
<1>1. ackPending[FirstLeader] \in Seq(AckEntry)  BY <1>0, NodeData
<1>2. a \in AckEntry  BY <1>1, SeqElement
<1>3. a.origin \in Node /\ a.seq \in Nat /\ a.index \in Nat  BY <1>2 DEF AckEntry
<1>4. /\ a.index = commit[FirstLeader] + m
      /\ a.seq \in 1..Len(seqs[a.origin]) /\ Main[a.index].op = seqs[a.origin][a.seq]
  BY DEF Tracked
<1>. QED  BY SMT, <1>2, <1>3, <1>4

\* A commit up to n releases the entries up to it.
LEMMA ReleasedRange ==
    ASSUME Data, Tracked, commit[FirstLeader] <= Len(Main),
           NEW n \in 1..Len(Main), n > commit[FirstLeader]
    PROVE  /\ Released(FirstLeader, n) = 1..(n - commit[FirstLeader])
           /\ HeadAfter(ackPending[FirstLeader], 1..(n - commit[FirstLeader])) = n - commit[FirstLeader] + 1
           /\ n - commit[FirstLeader] \in 1..Len(ackPending[FirstLeader])
           /\ \A m \in 1..(n - commit[FirstLeader]) :
                m \in 1..Len(ackPending[FirstLeader]) /\ commit[FirstLeader] + m \in 1..n
<1>0. FirstLeader \in Node  BY ForwardingAssumption
<1>. DEFINE A == ackPending[FirstLeader]
            c == commit[FirstLeader]
<1>1. A \in Seq(AckEntry) /\ Len(A) \in Nat /\ c \in Nat /\ Len(Main) \in Nat /\ DOMAIN A = 1..Len(A)
  <2>1. A \in Seq(AckEntry) /\ Len(A) \in Nat /\ c \in Nat /\ Len(Main) \in Nat
    BY <1>0, NodeData, ZenonT(30) DEF Main
  <2>. QED  BY <2>1, SeqFields, ZenonT(30)
<1>2. Len(A) = Len(Main) - c  BY ZenonT(30) DEF Tracked
<1>3. \A m \in 1..Len(A) : A[m].index = c + m  BY TrackedEntry, ZenonT(30)
<1>4. Released(FirstLeader, n) = {m \in DOMAIN A : \A k \in 1..m : A[k].index <= n}
  BY ZenonT(30) DEF Released
<1>. HIDE DEF A, c
<1>5. /\ n - c \in 1..Len(A)
      /\ \A m \in 1..(n - c) : m \in 1..Len(A) /\ c + m \in 1..n
  <2>1. \A x, y, z \in Nat : (x = y - z /\ z < n /\ n <= y) =>
          n - z \in 1..x /\ \A m \in 1..(n - z) : m \in 1..x /\ z + m \in 1..n
    OBVIOUS
  <2>2. c < n /\ n <= Len(Main)
    <3>1. n > c  BY DEF c
    <3>. QED  BY <1>1, <3>1, SMTT(30)
  <2>. QED  BY <1>1, <1>2, <2>1, <2>2, ZenonT(30)
<1>6. \A m \in 1..Len(A) : (\A k \in 1..m : A[k].index <= n) <=> m \in 1..(n - c)
  <2>. SUFFICES ASSUME NEW m \in 1..Len(A)
       PROVE  (\A k \in 1..m : A[k].index <= n) <=> m \in 1..(n - c)
    OBVIOUS
  <2>1. \A k \in 1..m : k \in 1..Len(A) /\ A[k].index = c + k
    <3>1. \A x \in Nat : \A y \in 1..x : \A k \in 1..y : k \in 1..x  OBVIOUS
    <3>. QED  BY <1>1, <1>3, <3>1, ZenonT(30)
  <2>2. m \in 1..m /\ (c + m <= n <=> m \in 1..(n - c))  BY <1>1, SMTT(30)
  <2>3. m \in 1..(n - c) => \A k \in 1..m : c + k <= n  BY <1>1
  <2>. QED  BY <2>1, <2>2, <2>3, ZenonT(30)
<1>7. Released(FirstLeader, n) = 1..(n - c)  BY <1>1, <1>4, <1>5, <1>6, ZenonT(30)
<1>8. HeadAfter(A, 1..(n - c)) = n - c + 1
  <2>1. n - c + 1 \in 1..(Len(A) + 1) /\ 1..(n - c) = 1..(n - c + 1 - 1)  BY <1>1, <1>5
  <2>2. \A m \in 1..(Len(A) + 1) : 1..(n - c) = 1..(m - 1) => m = n - c + 1  BY <1>1, <1>5
  <2>. DEFINE h == HeadAfter(A, 1..(n - c))
  <2>3. h \in 1..(Len(A) + 1) /\ 1..(n - c) = 1..(h - 1)
    <3>. DEFINE S == 1..(n - c)
    <3>1. PICK w : w = n - c + 1  OBVIOUS
    <3>2. w \in 1..(Len(A) + 1) /\ w - 1 = n - c  BY <1>1, <2>1, <3>1
    <3>3. S = 1..(w - 1)  BY <3>2
    <3>. HIDE DEF S
    <3>4. HeadAfter(A, S) \in 1..(Len(A) + 1) /\ S = 1..(HeadAfter(A, S) - 1)
      BY <3>2, <3>3, ZenonT(30) DEF HeadAfter
    <3>. QED  BY <3>4, ZenonT(30) DEF S
  <2>. HIDE DEF h
  <2>4. h = n - c + 1  BY <2>2, <2>3
  <2>. QED  BY <2>4 DEF h
<1>. QED  BY <1>5, <1>7, <1>8 DEF A, c

\* What the leader tells a node about a commit is in the log, and covers every
\* entry of that node that is released.
LEMMA BumpOk ==
    ASSUME Data, Tracked, LogOrder, commit[FirstLeader] <= Len(Main),
           NEW n \in 1..Len(Main), n > commit[FirstLeader], NEW j \in Node
    PROVE  LET R == 1..(n - commit[FirstLeader])
               b == Bump(FirstLeader, R, j)
           IN  /\ b \in Acked /\ AckOk(Main, seqs[j], b)
               /\ \A m \in R : ackPending[FirstLeader][m].origin = j =>
                        b # Nothing /\ ackPending[FirstLeader][m].seq <= b.seq
<1>. USE ZenonT(30)
<1>0. FirstLeader \in Node  BY SMT, ForwardingAssumption
<1>. DEFINE A == ackPending[FirstLeader]
            c == commit[FirstLeader]
            R == 1..(n - c)
            b == Bump(FirstLeader, R, j)
            mine == {m \in R : A[m].origin = j}
            top == {m \in mine : \A k \in mine : A[k].seq <= A[m].seq}
            first == CHOOSE m \in top : \A k \in top : m <= k
<1>1. b = IF mine = {} THEN Nothing ELSE [seq |-> A[first].seq, index |-> A[first].index]
  BY DEF Bump
<1>2. \A m \in R : m \in 1..Len(A) /\ c + m \in 1..n  BY ReleasedRange
<1>3. Len(seqs[j]) \in Nat /\ Len(Main) \in Nat /\ c \in Nat /\ Len(A) \in Nat
  BY <1>0, NodeData DEF Main
<1>4. ASSUME NEW m \in mine
      PROVE  /\ m \in R /\ m \in Nat /\ A[m].seq \in 1..Len(seqs[j]) /\ A[m].seq \in Nat
             /\ A[m].index \in Nat /\ A[m].index \in 1..Len(Main)
             /\ Main[A[m].index].op = seqs[j][A[m].seq]
  <2>1. m \in R /\ A[m].origin = j /\ m \in 1..Len(A) /\ c + m \in 1..n  BY <1>2, <1>4
  <2>2. /\ A[m].seq \in 1..Len(seqs[j]) /\ A[m].seq \in Nat /\ A[m].index \in Nat
        /\ Main[A[m].index].op = seqs[j][A[m].seq] /\ A[m].index = c + m
    BY <2>1, TrackedEntry
  <2>3. m \in Nat /\ c + m \in 1..Len(Main)  BY <1>3, <2>1, SMTT(30)
  <2>. QED  BY <2>1, <2>2, <2>3
<1>. HIDE DEF A, R, b, mine
<1>5. CASE mine = {}
  <2>1. b = Nothing  BY <1>1, <1>5
  <2>2. b \in Acked /\ b.seq = 0
    <3>1. 0 \in Nat  BY SMTT(30)
    <3>. QED  BY <2>1, <3>1 DEF Acked, Nothing
  <2>3. \A s \in 1..0 : FALSE  BY SMTT(30)
  <2>4. AckOk(Main, seqs[j], b)  BY <2>2, <2>3 DEF AckOk
  <2>5. \A m \in R : A[m].origin # j  BY <1>5 DEF mine
  <2>. QED  BY <2>2, <2>4, <2>5 DEF A, R, b
<1>6. CASE mine # {}
  <2>3. first \in top
    <3>1. PICK e \in R : A[e].origin = j  BY <1>6 DEF mine
    <3>2. n - c \in 1..Len(A) /\ 1 \in 1..Len(A)
      <4>1. n - c \in R  BY <1>3, SMTT(30) DEF R
      <4>2. n - c \in 1..Len(A)  BY <1>2, <4>1
      <4>3. \A x \in Nat : \A y \in 1..x : 1 \in 1..x  BY SMTT(30)
      <4>. QED  BY <1>3, <4>2, <4>3
    <3>3. PICK m \in R : TopAt(A, 1, n - c, j, m)
      BY <3>1, <3>2 DEF Tracked, HasTops, A, R
    <3>4. m \in mine /\ \A k \in mine : A[k].seq <= A[m].seq /\ (A[k].seq = A[m].seq => m <= k)
      BY <3>3 DEF TopAt, mine, R
    <3>5. \A k \in mine : A[m].seq <= A[k].seq => A[k].seq = A[m].seq
      <4>1. \A u, v \in Nat : u <= v /\ v <= u => u = v  BY SMTT(30)
      <4>. QED  BY <1>4, <3>4, <4>1
    <3>6. m \in top /\ \A k \in top : m <= k  BY <3>4, <3>5
    <3>. HIDE DEF top
    <3>. QED  BY <3>6
  <2>4. first \in mine /\ \A k \in mine : A[k].seq <= A[first].seq  BY <2>3
  <2>. HIDE DEF first
  <2>5. b.seq = A[first].seq /\ b.index = A[first].index /\ b \in Acked
    <3>1. b = [seq |-> A[first].seq, index |-> A[first].index]  BY <1>1, <1>6
    <3>2. A[first].seq \in Nat /\ A[first].index \in Nat  BY <1>4, <2>4
    <3>. QED  BY <3>1, <3>2 DEF Acked
  <2>6. /\ b.seq \in 1..Len(seqs[j]) /\ b.index \in 1..Len(Main)
        /\ Main[b.index].op = seqs[j][b.seq]
    BY <1>4, <2>4, <2>5
  <2>7. AckOk(Main, seqs[j], b)
    <3>1. \A s \in 1..b.seq : InLog(Main, seqs[j][s], b.index)
      BY <2>6 DEF LogOrder, Ordered
    <3>2. \A x \in Nat : \A y \in 1..x : \A s \in 1..y : s \in 1..x  BY SMTT(30)
    <3>3. \A s \in 1..b.seq : s \in 1..Len(seqs[j])  BY <1>3, <2>6, <3>2
    <3>. QED  BY <3>1, <3>3 DEF AckOk
  <2>8. b # Nothing
    <3>1. \A x \in Nat : 0 \notin 1..x  BY SMTT(30)
    <3>2. b.seq # 0  BY <1>3, <2>6, <3>1
    <3>3. Nothing.seq = 0  BY DEF Nothing
    <3>. QED  BY <3>2, <3>3
  <2>9. \A m \in R : A[m].origin = j => A[m].seq <= b.seq
    <3>1. \A m \in R : A[m].origin = j => m \in mine  BY DEF mine
    <3>. QED  BY <2>4, <2>5, <3>1
  <2>. QED  BY <2>5, <2>7, <2>8, <2>9 DEF A, R, b
<1>. QED  BY <1>5, <1>6

\* An acknowledgement that is merged with another still covers what it did.
LEMMA FurthestCovers ==
    ASSUME NEW a \in Acked, NEW b \in Acked
    PROVE  a.seq <= Furthest(a, b).seq /\ b.seq <= Furthest(a, b).seq /\ Furthest(a, b).seq \in Nat
<1>. USE ZenonT(30)
<1>1. a.seq \in Nat /\ b.seq \in Nat  BY DEF Acked
<1>2. Furthest(a, b).seq = Greater(a.seq, b.seq)  BY DEF Furthest
<1>. QED  BY <1>1, <1>2, SMTT(30) DEF Greater

\* resolve_fwd_acks() at the leader.
LEMMA AdvanceCommitKeeps ==
    ASSUME Sound, NEW n \in DOMAIN Main, AdvanceCommit(FirstLeader, n)
    PROVE  Sound'
<1>. USE ZenonT(30)
<1>. DEFINE F == FirstLeader
            A == ackPending[F]
            c == commit[F]
            R == 1..(n - c)
            own == {A[m].seq : m \in {k \in R : A[k].origin = F}}
            told == {j \in Node \ {F} : Bump(F, R, j) # Nothing}
            ack(j) == [type |-> "FORWARD_ACK", upto |-> committedFwd'[F][j]]
<1>0. F \in Node  BY SMT, ForwardingAssumption
<1>1. /\ Data /\ OneLeader /\ Copies /\ Distinct /\ LogOrder /\ Settled /\ Tracked  BY SMT DEF Sound
<1>3. Main \in Seq(LogEntry) /\ Len(Main) \in Nat /\ c \in Nat /\ c <= Len(Main)
      /\ A \in Seq(AckEntry) /\ Len(A) \in Nat
  <2>1. Main \in Seq(LogEntry) /\ Len(Main) \in Nat /\ c \in Nat /\ A \in Seq(AckEntry) /\ Len(A) \in Nat
    BY <1>0, <1>1, NodeData DEF Main
  <2>2. c <= Len(Main)  BY <1>0, <1>1 DEF Copies, Main
  <2>. QED  BY SMT, <2>1, <2>2
<1>4. n \in 1..Len(Main) /\ n > c
  <2>1. n > c  BY DEF AdvanceCommit
  <2>. QED  BY <1>3, <2>1, SeqFields
<1>5. /\ Released(F, n) = R /\ HeadAfter(A, R) = n - c + 1 /\ n - c \in 1..Len(A)
      /\ \A m \in R : m \in 1..Len(A) /\ c + m \in 1..n
  BY <1>1, <1>3, <1>4, ReleasedRange
<1>6. /\ commit' = [commit EXCEPT ![F] = n]
      /\ ackPending' = [ackPending EXCEPT ![F] = SubSeq(A, n - c + 1, Len(A))]
      /\ committedFwd' = [committedFwd EXCEPT ![F] =
            [j \in Node |-> IF j \in told THEN Furthest(committedFwd[F][j], Bump(F, R, j))
                           ELSE committedFwd[F][j]]]
      /\ chan' = [chan EXCEPT ![F] =
            [j \in Node |-> IF j \in told /\ <<F, j>> \in link THEN Append(chan[F][j], ack(j))
                           ELSE chan[F][j]]]
      /\ MarkResolved(F, n, fwdAcked[F], own)
  <2>. DEFINE Q == Released(F, n)
              toldQ == {j \in Node \ {F} : Bump(F, Q, j) # Nothing}
              ownQ == {A[m].seq : m \in {k \in Q : A[k].origin = F}}
  <2>1. Q = R  BY <1>5
  <2>2. toldQ = told /\ ownQ = own  BY <2>1
  <2>3. /\ commit' = [commit EXCEPT ![F] = n]
        /\ ackPending' = [ackPending EXCEPT ![F] = SubSeq(A, HeadAfter(A, Q), Len(A))]
        /\ committedFwd' = [committedFwd EXCEPT ![F] =
              [j \in Node |-> IF j \in toldQ THEN Furthest(committedFwd[F][j], Bump(F, Q, j))
                             ELSE committedFwd[F][j]]]
        /\ chan' = [chan EXCEPT ![F] =
              [j \in Node |-> IF j \in toldQ /\ <<F, j>> \in link THEN Append(chan[F][j], ack(j))
                             ELSE chan[F][j]]]
        /\ MarkResolved(F, n, fwdAcked[F], ownQ)
    BY DEF AdvanceCommit
  <2>. HIDE DEF Q, toldQ, ownQ, R, told, own, ack
  <2>. QED  BY <1>5, <2>1, <2>2, <2>3
<1>7. /\ term' = term /\ happened' = happened /\ leading' = leading /\ leaderId' = leaderId
      /\ log' = log /\ link' = link /\ seqs' = seqs /\ drawn' = drawn /\ inbox' = inbox
      /\ fwdPending' = fwdPending /\ fwdAcked' = fwdAcked
  BY DEF AdvanceCommit, inboxVars
<1>8. Main' = Main  BY SMT, <1>7 DEF Main
<1>9. \A j \in Node :
        /\ Bump(F, R, j) \in Acked /\ AckOk(Main, seqs[j], Bump(F, R, j))
        /\ \A m \in R : A[m].origin = j => Bump(F, R, j) # Nothing /\ A[m].seq <= Bump(F, R, j).seq
  BY <1>1, <1>3, <1>4, BumpOk
<1>10. \A m \in R : /\ A[m].origin \in Node /\ A[m].seq \in Nat /\ A[m].index = c + m
                    /\ A[m].seq \in 1..Len(seqs[A[m].origin])
                    /\ Main[c + m].op = seqs[A[m].origin][A[m].seq]
  <2>. SUFFICES ASSUME NEW m \in R
       PROVE  /\ A[m].origin \in Node /\ A[m].seq \in Nat /\ A[m].index = c + m
              /\ A[m].seq \in 1..Len(seqs[A[m].origin])
              /\ Main[c + m].op = seqs[A[m].origin][A[m].seq]
    OBVIOUS
  <2>1. m \in 1..Len(A)  BY SMT, <1>5
  <2>2. /\ A[m].origin \in Node /\ A[m].seq \in Nat /\ A[m].index = c + m
        /\ A[m].seq \in 1..Len(seqs[A[m].origin])
        /\ Main[A[m].index].op = seqs[A[m].origin][A[m].seq]
    BY <1>1, <2>1, TrackedEntry
  <2>. QED  BY <2>2
<1>. HIDE DEF A, c, R, told, ack
<1>11. /\ commit' \in [Node -> Nat] /\ commit'[F] = n
       /\ \A k \in Node : k # F => commit'[k] = commit[k]
  <2>1. n \in Nat  BY <1>3, <1>4, SMTT(30)
  <2>. QED  BY <1>0, <1>1, <1>6, <2>1 DEF Data
<1>12. \A j \in Node :
         /\ committedFwd'[F][j] = IF j \in told THEN Furthest(committedFwd[F][j], Bump(F, R, j))
                                  ELSE committedFwd[F][j]
         /\ committedFwd[F][j] \in Acked /\ committedFwd'[F][j] \in Acked
         /\ AckOk(Main, seqs[j], committedFwd'[F][j])
         /\ committedFwd[F][j].seq <= committedFwd'[F][j].seq
         /\ j \in told => Bump(F, R, j).seq <= committedFwd'[F][j].seq
  <2>. SUFFICES ASSUME NEW j \in Node
       PROVE  /\ committedFwd'[F][j] = IF j \in told THEN Furthest(committedFwd[F][j], Bump(F, R, j))
                                       ELSE committedFwd[F][j]
              /\ committedFwd[F][j] \in Acked /\ committedFwd'[F][j] \in Acked
              /\ AckOk(Main, seqs[j], committedFwd'[F][j])
              /\ committedFwd[F][j].seq <= committedFwd'[F][j].seq
              /\ j \in told => Bump(F, R, j).seq <= committedFwd'[F][j].seq
    OBVIOUS
  <2>1. committedFwd[F][j] \in Acked /\ committedFwd[F][j].seq <= committedFwd[F][j].seq
    <3>1. committedFwd[F][j] \in Acked  BY <1>0, <1>1, NodeData
    <3>2. committedFwd[F][j].seq \in Nat  BY <3>1 DEF Acked
    <3>. QED  BY <3>1, <3>2, SMTT(30)
  <2>2. AckOk(Main, seqs[j], committedFwd[F][j])  BY DEF Sound, Acks
  <2>3. committedFwd'[F][j] = IF j \in told THEN Furthest(committedFwd[F][j], Bump(F, R, j))
                             ELSE committedFwd[F][j]
    <3>1. F \in DOMAIN committedFwd  BY <1>0, <1>1 DEF Data
    <3>. QED  BY <1>6, <3>1
  <2>4. CASE j \in told
    <3>1. /\ Furthest(committedFwd[F][j], Bump(F, R, j)) \in Acked
          /\ AckOk(Main, seqs[j], Furthest(committedFwd[F][j], Bump(F, R, j)))
      BY <1>3, <1>9, <2>1, <2>2, FurthestOk
    <3>2. /\ committedFwd[F][j].seq <= Furthest(committedFwd[F][j], Bump(F, R, j)).seq
          /\ Bump(F, R, j).seq <= Furthest(committedFwd[F][j], Bump(F, R, j)).seq
      BY <1>9, <2>1, FurthestCovers
    <3>. QED  BY <2>1, <2>3, <2>4, <3>1, <3>2
  <2>5. CASE j \notin told  BY <2>1, <2>2, <2>3, <2>5
  <2>. QED  BY <2>4, <2>5
<1>13. /\ committedFwd' \in [Node -> [Node -> Acked]]
  <2>. DEFINE f == [j \in Node |-> IF j \in told THEN Furthest(committedFwd[F][j], Bump(F, R, j))
                                  ELSE committedFwd[F][j]]
  <2>1. f \in [Node -> Acked]  BY <1>12
  <2>2. committedFwd \in [Node -> [Node -> Acked]]  BY <1>1 DEF Data
  <2>3. committedFwd' = [committedFwd EXCEPT ![F] = f]  BY <1>6
  <2>. HIDE DEF f
  <2>. QED  BY <2>1, <2>2, <2>3
<1>14. /\ chan' \in [Node -> [Node -> Seq(Frame)]]
       /\ \A k \in Node : k # F => chan'[k] = chan[k]
       /\ chan'[F][F] = chan[F][F]
       /\ \A j \in Node : j # F => AcksOk(Main, seqs[j], chan'[F][j])
  <2>. DEFINE f == [j \in Node |-> IF j \in told /\ <<F, j>> \in link THEN Append(chan[F][j], ack(j))
                                  ELSE chan[F][j]]
  <2>1. chan \in [Node -> [Node -> Seq(Frame)]]  BY <1>1 DEF Data
  <2>2. ASSUME NEW j \in Node
        PROVE  /\ f[j] \in Seq(Frame)
               /\ j # F => AcksOk(Main, seqs[j], f[j])
    <3>1. chan[F][j] \in Seq(Frame)  BY <1>0, <2>1
    <3>2. j # F => AcksOk(Main, seqs[j], chan[F][j])  BY DEF Sound, Acks
    <3>3. /\ ack(j) \in Frame /\ ack(j).type = "FORWARD_ACK"
          /\ AckOk(Main, seqs[j], ack(j).upto)
      BY <1>12 DEF ack, Frame
    <3>4. /\ Append(chan[F][j], ack(j)) \in Seq(Frame)
          /\ j # F => AcksOk(Main, seqs[j], Append(chan[F][j], ack(j)))
      <4>. DEFINE x == chan[F][j]
                  e == ack(j)
      <4>. HIDE DEF x, e
      <4>1. /\ Append(x, e) \in Seq(Frame) /\ Len(Append(x, e)) = Len(x) + 1 /\ Grows(x, Append(x, e))
            /\ Append(x, e)[Len(x) + 1] = e /\ Len(x) \in Nat
        BY <3>1, <3>3, AppendGrows, SeqFields DEF x, e
      <4>2. \A k \in 1..Len(Append(x, e)) : k \in 1..Len(x) \/ k = Len(x) + 1  BY <4>1, SMTT(30)
      <4>3. \A k \in 1..Len(x) : Append(x, e)[k] = x[k]  BY <4>1 DEF Grows
      <4>4. e.type = "FORWARD_ACK" /\ AckOk(Main, seqs[j], e.upto)  BY SMT, <3>3 DEF e
      <4>5. AcksOk(Main, seqs[j], x) => AcksOk(Main, seqs[j], Append(x, e))
        BY <4>1, <4>2, <4>3, <4>4 DEF AcksOk
      <4>. QED  BY <3>2, <4>1, <4>5 DEF x, e
    <3>5. f[j] = IF j \in told /\ <<F, j>> \in link THEN Append(chan[F][j], ack(j)) ELSE chan[F][j]
      BY SMT
    <3>. HIDE DEF f
    <3>. QED  BY <3>1, <3>2, <3>4, <3>5
  <2>3. f \in [Node -> Seq(Frame)]  BY <2>2
  <2>4. f[F] = chan[F][F]  BY <1>0 DEF told
  <2>5. chan' = [chan EXCEPT ![F] = f]  BY <1>6
  <2>. HIDE DEF f
  <2>6. /\ chan' \in [Node -> [Node -> Seq(Frame)]] /\ chan'[F] = f
        /\ \A k \in Node : k # F => chan'[k] = chan[k]
    BY <1>0, <2>1, <2>3, <2>5
  <2>. QED  BY <2>2, <2>4, <2>6
<1>15. /\ ackPending' \in [Node -> Seq(AckEntry)]
       /\ Tracked'
  <2>. DEFINE B == SubSeq(A, n - c + 1, Len(A))
              d == n - c
  <2>1. d \in Nat /\ d \in 0..Len(A)  BY <1>3, <1>5, SMTT(30)
  <2>3. /\ B \in Seq(AckEntry) /\ Len(B) = Len(A) - d
        /\ \A m \in 1..(Len(A) - d) : B[m] = A[d + m]
    <3>. HIDE DEF d
    <3>1. B = SubSeq(A, d + 1, Len(A))  BY SMT DEF d
    <3>. QED  BY <1>3, <2>1, <3>1, SeqSuffix
  <2>. HIDE DEF B, d
  <2>4. ackPending' = [ackPending EXCEPT ![F] = B] /\ ackPending \in [Node -> Seq(AckEntry)]
    BY <1>1, <1>6 DEF B, Data
  <2>5. ackPending' \in [Node -> Seq(AckEntry)] /\ ackPending'[F] = B
    BY <1>0, <2>3, <2>4
  <2>6. Len(A) = Len(Main) - c  BY <1>1 DEF Tracked, A, c
  <2>7. Len(B) = Len(Main) - n /\ n = c + d
    BY <1>3, <1>4, <2>3, <2>6, SMTT(30) DEF d
  <2>8. ASSUME NEW m \in 1..Len(B)
        PROVE  /\ B[m].index = n + m
               /\ B[m].seq \in 1..Len(seqs[B[m].origin])
               /\ Main[B[m].index].op = seqs[B[m].origin][B[m].seq]
    <3>1. d + m \in 1..Len(A) /\ m \in 1..(Len(A) - d) /\ c + (d + m) = n + m
      <4>1. \A x, y, z \in Nat : \A k \in 1..(x - z) :
              /\ z + k \in 1..x /\ y + (z + k) = (y + z) + k
        BY SMTT(30)
      <4>2. m \in 1..(Len(A) - d)  BY SMT, <2>3
      <4>. QED  BY <1>3, <2>1, <2>7, <4>1, <4>2
    <3>2. B[m] = A[d + m]  BY <2>3, <3>1
    <3>3. PICK k \in 1..Len(A) : k = d + m  BY SMT, <3>1
    <3>4. /\ A[k].index = c + k
          /\ A[k].seq \in 1..Len(seqs[A[k].origin]) /\ Main[A[k].index].op = seqs[A[k].origin][A[k].seq]
      BY <1>1, TrackedEntry DEF A, c
    <3>. QED  BY <3>1, <3>2, <3>3, <3>4
  <2>10. HasTops(B)
    <3>1. HasTops(A) /\ Len(A) \in Nat  BY <1>1, <1>3 DEF Tracked, A
    <3>. QED  BY <2>1, <2>3, <3>1, TopsSuffix
  <2>9. Tracked'  BY <1>7, <1>8, <1>11, <2>5, <2>7, <2>8, <2>10 DEF Tracked
  <2>. QED  BY SMT, <2>5, <2>9
<1>16. /\ done' \in [Node -> SUBSET Nat] /\ fwdMarked' \in [Node -> Nat]
       /\ \A k \in Node : k # F => done'[k] = done[k]
       /\ ReportedOk(Main, n, seqs[F], done'[F])
  <2>1. own \in SUBSET Nat /\ ReportedOk(Main, n, seqs[F], own)
    <3>1. ASSUME NEW s \in own
          PROVE  s \in Nat /\ s \in 1..Len(seqs[F]) /\ \E m \in 1..n : Main[m].op = seqs[F][s]
      <4>1. PICK m \in R : A[m].origin = F /\ s = A[m].seq  BY <3>1
      <4>2. c + m \in 1..n  BY SMT, <1>5
      <4>. QED  BY <1>10, <4>1, <4>2
    <3>. QED  BY <3>1 DEF ReportedOk
  <2>. HIDE DEF own
  <2>2. n \in Nat /\ n <= Len(Main) /\ c <= n /\ Grows(Main, Main)  BY <1>3, <1>4, SMTT(30) DEF Grows
  <2>3. Len(seqs[F]) \in Nat /\ fwdAcked[F] \in Acked  BY <1>0, <1>1, NodeData
  <2>4. Grows(seqs[F], seqs[F])  BY <2>3, SMTT(30) DEF Grows
  <2>5. ReportedOk(Main, c, seqs[F], done[F])  BY <1>0 DEF Sound, Reported, Main, c
  <2>6. ReportedOk(Main, n, seqs[F], done[F])
    BY <1>3, <2>2, <2>3, <2>4, <2>5, ReportedKept
  <2>7. AckOk(Main, seqs[F], fwdAcked[F])  BY <1>0 DEF Sound, Acks
  <2>. QED  BY <1>0, <1>1, <1>3, <1>6, <2>1, <2>2, <2>3, <2>6, <2>7, MarkedReported
<1>17. Data'
  <2>1. /\ commit' \in [Node -> Nat] /\ chan' \in [Node -> [Node -> Seq(Frame)]]
        /\ ackPending' \in [Node -> Seq(AckEntry)] /\ committedFwd' \in [Node -> [Node -> Acked]]
        /\ done' \in [Node -> SUBSET Nat] /\ fwdMarked' \in [Node -> Nat]
    BY <1>11, <1>13, <1>14, <1>15, <1>16
  <2>. QED  BY <1>1, <1>7, <2>1, ZenonT(60) DEF Data
<1>18. OneLeader'  BY <1>1, <1>7 DEF OneLeader
<1>19. Copies'
  <2>. SUFFICES ASSUME NEW k \in Node
       PROVE  Grows(log[k], Main) /\ commit'[k] <= Len(log[k]) /\ commit'[k] <= n
    BY <1>7, <1>8, <1>11 DEF Copies
  <2>1. Grows(log[k], Main) /\ commit[k] <= Len(log[k]) /\ commit[k] <= c
    BY <1>1 DEF Copies, c
  <2>2. n <= Len(Main) /\ n <= n  BY <1>3, <1>4, SMTT(30)
  <2>3. commit[k] <= n
    <3>1. commit[k] \in Nat  BY <1>1, NodeData
    <3>. QED  BY <1>3, <1>4, <2>1, <3>1, SMTT(30)
  <2>4. CASE k = F  BY <1>11, <2>1, <2>2, <2>4 DEF Main
  <2>5. CASE k # F  BY <1>11, <2>1, <2>3, <2>5
  <2>. QED  BY SMT, <2>4, <2>5
<1>20. Distinct'  BY <1>1, <1>7, SMTT(30) DEF Distinct
<1>21. LogOrder'  BY <1>1, <1>7, <1>8 DEF LogOrder
<1>22. Backlog'
  <2>1. \A k \in Node : Line(k)' = Line(k)  BY <1>7 DEF Line
  <2>. QED  BY <1>7, <1>8, <2>1 DEF Sound, Backlog
<1>23. \A k \in Node : chan'[k][F] = chan[k][F]  BY <1>14
<1>24. Wire'  BY <1>7, <1>8, <1>23 DEF Sound, Wire
<1>25. OnWire'  BY <1>7, <1>8, <1>23 DEF Sound, OnWire
<1>26. Silent'
  <2>1. \A h, k \in Node : (h # F /\ k # F) \/ (h = F /\ k = F) => chan'[h][k] = chan[h][k]
    BY <1>14
  <2>. QED  BY <2>1 DEF Sound, Silent
<1>27. Acks'
  <2>1. \A k \in Node : AckOk(Main, seqs[k], fwdAcked[k])  BY DEF Sound, Acks
  <2>. QED  BY <1>7, <1>8, <1>12, <1>14, <2>1 DEF Acks
<1>28. Own'  BY <1>7, <1>8 DEF Sound, Own
<1>29. Settled'
  <2>. SUFFICES ASSUME NEW x \in 1..n
       PROVE  \E o \in Node : \E q \in 1..Len(seqs[o]) :
                /\ Main[x].op = seqs[o][q] /\ (o = F \/ q <= committedFwd'[F][o].seq)
    BY <1>7, <1>8, <1>11 DEF Settled
  <2>1. CASE x \in 1..c
    <3>1. PICK o \in Node : \E q \in 1..Len(seqs[o]) :
            Main[x].op = seqs[o][q] /\ (o = F \/ q <= committedFwd[F][o].seq)
      BY <1>1, <2>1 DEF Settled, c
    <3>2. PICK q \in 1..Len(seqs[o]) :
            Main[x].op = seqs[o][q] /\ (o = F \/ q <= committedFwd[F][o].seq)
      BY SMT, <3>1
    <3>3. /\ committedFwd[F][o].seq \in Nat /\ committedFwd'[F][o].seq \in Nat
          /\ committedFwd[F][o].seq <= committedFwd'[F][o].seq
      BY <1>12 DEF Acked
    <3>4. q <= committedFwd[F][o].seq => q <= committedFwd'[F][o].seq  BY <3>3, SMTT(30)
    <3>. QED  BY <3>2, <3>4
  <2>2. CASE x \notin 1..c
    <3>1. x - c \in R /\ c + (x - c) = x  BY <1>3, <1>4, <2>2, SMTT(30) DEF R
    <3>2. PICK m \in R : c + m = x  BY SMT, <3>1
    <3>. DEFINE o == A[m].origin
                q == A[m].seq
    <3>3. /\ o \in Node /\ q \in Nat /\ q \in 1..Len(seqs[o]) /\ Main[x].op = seqs[o][q]
      BY <1>10, <3>2
    <3>4. Bump(F, R, o) # Nothing /\ q <= Bump(F, R, o).seq /\ Bump(F, R, o) \in Acked
      BY <1>9, <3>3
    <3>. HIDE DEF o, q
    <3>5. o = F \/ q <= committedFwd'[F][o].seq
      <4>1. o # F => o \in told  BY <3>3, <3>4 DEF told
      <4>2. Bump(F, R, o).seq \in Nat /\ committedFwd'[F][o].seq \in Nat
        BY <1>12, <3>3, <3>4 DEF Acked
      <4>3. o # F => Bump(F, R, o).seq <= committedFwd'[F][o].seq  BY <1>12, <3>3, <4>1
      <4>. QED  BY <3>3, <3>4, <4>2, <4>3, SMTT(30)
    <3>. QED  BY <3>3, <3>5
  <2>. QED  BY SMT, <2>1, <2>2
<1>30. Reported'
  <2>. SUFFICES ASSUME NEW k \in Node  PROVE ReportedOk(log[k], commit'[k], seqs[k], done'[k])
    BY <1>7 DEF Reported
  <2>1. CASE k = F  BY <1>11, <1>16, <2>1 DEF Main
  <2>2. CASE k # F  BY <1>11, <1>16, <2>2 DEF Sound, Reported
  <2>. QED  BY SMT, <2>1, <2>2
<1>. QED
  BY SMT, <1>15, <1>17, <1>18, <1>19, <1>20, <1>21, <1>22, <1>24, <1>25, <1>26, <1>27, <1>28, <1>29,
     <1>30 DEF Sound

-----------------------------------------------------------------------------
(* The invariant holds.                                                    *)

\* Events are only counted up, and within the scenario's limits.
LEMMA Spending ==
    ASSUME Settings, NEW E \in SUBSET Events, Spend(E)
    PROVE  /\ happened' \in [Events -> Nat] /\ happened'["op"] <= MaxOps
           /\ \A e \in Events : happened[e] <= happened'[e] /\ (e \in E => happened'[e] # 0)
<1>. USE ZenonT(30)
<1>1. happened \in [Events -> Nat] /\ happened["op"] <= MaxOps /\ setup \in Scenarios
  BY SMT DEF Settings
<1>2. /\ happened' = [e \in Events |-> happened[e] + (IF e \in E THEN 1 ELSE 0)]
      /\ \A e \in E : happened[e] < setup.may[e]
  BY SMT DEF Spend
<1>3. \A x \in Nat : \A y \in {0, 1} : x + y \in Nat /\ x <= x + y /\ (y = 1 => x + y # 0)  BY SMTT(30)
<1>4. ASSUME NEW e \in Events
      PROVE  happened'[e] \in Nat /\ happened[e] <= happened'[e] /\ (e \in E => happened'[e] # 0)
  <2>1. happened'[e] = happened[e] + (IF e \in E THEN 1 ELSE 0) /\ happened[e] \in Nat
    BY <1>1, <1>2
  <2>. QED  BY <1>3, <2>1, SMTT(30)
<1>5. happened' \in [Events -> Nat]  BY <1>2, <1>4
<1>6. happened'["op"] <= MaxOps
  <2>1. MaxOps \in Nat /\ setup \in Scenario  BY <1>1, ForwardingAssumption
  <2>2. setup.may["op"] \in 0..MaxOps /\ "op" \in Events /\ happened["op"] \in Nat
    BY <1>1, <2>1 DEF Scenario, Events
  <2>3. CASE "op" \in E
    <3>1. happened'["op"] = happened["op"] + 1 /\ happened["op"] < setup.may["op"]
      BY <1>2, <2>2, <2>3
    <3>. QED  BY <2>1, <2>2, <3>1, SMTT(30)
  <2>4. CASE "op" \notin E
    <3>1. happened'["op"] = happened["op"] + 0  BY <1>2, <2>2, <2>4
    <3>. QED  BY <1>1, <2>1, <2>2, <3>1, SMTT(30)
  <2>. QED  BY SMT, <2>3, <2>4
<1>. QED  BY SMT, <1>4, <1>5, <1>6

\* What a step counts.
LEMMA StepCounts ==
    ASSUME [Next]_vars
    PROVE  /\ setup' = setup
           /\ happened' = happened \/ \E E \in SUBSET Events : Spend(E)
<1>. USE ZenonT(30)
<1>. DEFINE Counts == /\ setup' = setup
                      /\ happened' = happened \/ \E E \in SUBSET Events : Spend(E)
<1>. SUFFICES Counts
  BY SMT
<1>0. /\ {"op"} \in SUBSET Events /\ {"reset"} \in SUBSET Events /\ {"sweep"} \in SUBSET Events
      /\ {"election"} \in SUBSET Events /\ {"restart"} \in SUBSET Events /\ {} \in SUBSET Events
      /\ {"nomem"} \in SUBSET Events /\ {"storage"} \in SUBSET Events
      /\ {} \cup {"fail"} \in SUBSET Events /\ {"sweep"} \cup {"fail"} \in SUBSET Events
  BY DEF Events
<1>1. ASSUME NEW i, NEW list, NEW rest, NEW pending, NEW d, NEW lk, NEW E \in {{}, {"sweep"}},
             ForwardBatch(i, list, rest, pending, d, lk, E)
      PROVE  \E F \in SUBSET Events : Spend(F)
  <2>1. Spend(E) \/ Spend(E \cup {"fail"})  BY <1>1 DEF ForwardBatch
  <2>. QED  BY <1>0, <1>1, <2>1
<1>2. CASE UNCHANGED vars  BY SMT, <1>2 DEF vars
<1>3. ASSUME NEW i \in Node, Draw(i)  PROVE Counts  BY <1>0, <1>3 DEF Draw
<1>4. ASSUME NEW i \in Node, NEW p \in drawn[i], Submit(i, p)  PROVE Counts  BY <1>4 DEF Submit
<1>5. ASSUME NEW i \in Node, NEW e, DrainInbox(i, e)  PROVE Counts
  <2>1. setup' = setup  BY <1>5 DEF DrainInbox
  <2>2. happened' = happened \/ ForwardBatch(i, inbox[i], <<>>, fwdPending[i], due[i] \ {e}, link, {})
    BY <1>5 DEF DrainInbox
  <2>. QED  BY <1>1, <2>1, <2>2
<1>6. ASSUME NEW i \in Node, Sweep(i)  PROVE Counts
  <2>1. /\ setup' = setup
        /\ ForwardBatch(i, fwdPending[i], inbox[i], <<>>, due[i], link, {"sweep"})
    BY <1>6 DEF Sweep
  <2>. QED  BY <1>1, <2>1
<1>7. ASSUME NEW l \in Node, NEW n \in DOMAIN log[l], AdvanceCommit(l, n)  PROVE Counts
  BY <1>7 DEF AdvanceCommit
<1>8. ASSUME NEW i \in Node, NEW V \in SUBSET Node, Elect(i, V)  PROVE Counts
  BY <1>0, <1>8 DEF Elect
<1>9. ASSUME NEW i \in Node, Restart(i)  PROVE Counts  BY <1>0, <1>9 DEF Restart
<1>10. ASSUME NEW i \in Node, NEW j \in Node, ReceiveForward(i, j)  PROVE Counts
  BY <1>10 DEF ReceiveForward
<1>11. ASSUME NEW i \in Node, NEW j \in Node, ReceiveAck(i, j)  PROVE Counts
  BY <1>11 DEF ReceiveAck
<1>12. ASSUME NEW i \in Node, NEW j \in Node, LinkDown(i, j)  PROVE Counts
  BY <1>0, <1>12 DEF LinkDown
<1>13. ASSUME NEW i \in Node, NEW j \in Node, LinkUp(i, j)  PROVE Counts
  <2>1. setup' = setup  BY <1>13 DEF LinkUp
  <2>2. happened' = happened \/ ForwardBatch(i, fwdPending[i], inbox[i], <<>>, due[i], link', {})
    BY <1>13 DEF LinkUp
  <2>. QED  BY <1>1, <2>1, <2>2
<1>14. ASSUME NEW i \in Node, NEW j \in Node, Replicate(i, j)  PROVE Counts
  BY <1>14 DEF Replicate
<1>15. ASSUME NEW i \in Node, NEW e, NEW k, DrainFails(i, e, k)  PROVE Counts
  BY <1>0, <1>15 DEF DrainFails, AppendFails
<1>16. ASSUME NEW i \in Node, NEW j \in Node, NEW n, ReceiveForwardFails(i, j, n)  PROVE Counts
  BY <1>0, <1>16 DEF ReceiveForwardFails, AppendFails
<1>. HIDE DEF Counts
<1>. QED
  BY <1>2, <1>3, <1>4, <1>5, <1>6, <1>7, <1>8, <1>9, <1>10, <1>11, <1>12, <1>13, <1>14, <1>15,
     <1>16 DEF Next

\* The settings stay as they are, and circumstances that are steady after a step
\* were so before it.
LEMMA SettingsKept ==
    ASSUME Settings, [Next]_vars
    PROVE  Settings' /\ (Steady' => Steady)
<1>. USE ZenonT(30)
<1>1. setup' = setup /\ (happened' = happened \/ \E E \in SUBSET Events : Spend(E))  BY SMT, StepCounts
<1>2. CASE happened' = happened  BY <1>1, <1>2 DEF Settings, Steady
<1>3. CASE \E E \in SUBSET Events : Spend(E)
  <2>1. PICK E \in SUBSET Events : Spend(E)  BY SMT, <1>3
  <2>2. /\ happened' \in [Events -> Nat] /\ happened'["op"] <= MaxOps
        /\ \A e \in Events : happened[e] <= happened'[e]
    BY <2>1, Spending
  <2>3. Settings'  BY <1>1, <2>2 DEF Settings
  <2>4. \A e \in Events : happened[e] \in Nat /\ (happened'[e] = 0 => happened[e] = 0)
    <3>1. \A e \in Events : happened[e] \in Nat  BY DEF Settings
    <3>2. \A x \in Nat : x <= 0 => x = 0  BY SMTT(30)
    <3>. QED  BY <2>2, <3>1, <3>2
  <2>5. {"election", "restart", "nomem", "storage"} \subseteq Events  BY DEF Events
  <2>6. Steady' => Steady
    <3>. SUFFICES ASSUME Steady'  PROVE Steady
      BY SMT
    <3>1. /\ happened'["election"] = 0 /\ happened'["restart"] = 0
          /\ happened'["nomem"] = 0 /\ happened'["storage"] = 0 /\ setup.threads = 1
      BY <1>1 DEF Steady
    <3>. QED  BY <2>4, <2>5, <3>1 DEF Steady
  <2>. QED  BY SMT, <2>3, <2>6
<1>. QED  BY SMT, <1>1, <1>2, <1>3

\* An election, a restart or a failure to append ends what is steady.
LEMMA SteadyStep ==
    ASSUME Settings, NEW i \in Node,
           \/ Restart(i) \/ \E V \in SUBSET Node : Elect(i, V)
           \/ AppendFails(i)
    PROVE  ~Steady'
<1>. USE ZenonT(30)
<1>1. /\ {"election"} \in SUBSET Events /\ {"restart"} \in SUBSET Events
      /\ {"nomem"} \in SUBSET Events /\ {"storage"} \in SUBSET Events
      /\ {"election", "restart", "nomem", "storage"} \subseteq Events
  BY DEF Events
<1>2. CASE Restart(i)
  <2>1. Spend({"restart"})  BY <1>2 DEF Restart
  <2>2. happened'["restart"] # 0  BY <1>1, <2>1, Spending
  <2>. QED  BY <2>2 DEF Steady
<1>3. CASE \E V \in SUBSET Node : Elect(i, V)
  <2>1. Spend({"election"})  BY <1>3 DEF Elect
  <2>2. happened'["election"] # 0  BY <1>1, <2>1, Spending
  <2>. QED  BY <2>2 DEF Steady
<1>4. CASE AppendFails(i)
  <2>1. Spend({"nomem"}) \/ Spend({"storage"})  BY <1>4 DEF AppendFails
  <2>2. happened'["nomem"] # 0 \/ happened'["storage"] # 0  BY <1>1, <2>1, Spending
  <2>. QED  BY <2>2 DEF Steady
<1>. QED  BY SMT, <1>2, <1>3, <1>4

\* One step.
LEMMA StepSound ==
    ASSUME Settings, Steady, Sound, [Next]_vars, Steady'
    PROVE  Sound' /\ AppendsNew
<1>. USE ZenonT(30)
<1>0. FirstLeader \in Node  BY SMT, ForwardingAssumption
<1>1. ASSUME log'[FirstLeader] = log[FirstLeader]  PROVE AppendsNew
  BY <1>1 DEF AppendsNew, Main
<1>2. CASE UNCHANGED vars
  <2>1. UNCHANGED <<happened, raftVars, link, chan, seqs, drawn, inboxVars, fwdPending, statusVars,
                    leaderVars>>
    BY SMT, <1>2 DEF vars
  <2>2. /\ happened' = happened /\ term' = term /\ leading' = leading /\ leaderId' = leaderId
        /\ log' = log /\ commit' = commit /\ link' = link /\ chan' = chan /\ seqs' = seqs
        /\ drawn' = drawn /\ inbox' = inbox /\ fwdPending' = fwdPending /\ fwdAcked' = fwdAcked
        /\ fwdMarked' = fwdMarked /\ done' = done /\ ackPending' = ackPending
        /\ committedFwd' = committedFwd
    BY SMT, <2>1 DEF raftVars, inboxVars, statusVars, leaderVars
  <2>3. Sound'
    <3>1. /\ OneLeader' /\ Copies' /\ Distinct' /\ LogOrder' /\ Settled' /\ Tracked'
          /\ Main' = Main
      BY <2>2, LogKept
    <3>2. Data'  BY <2>2, ZenonT(60) DEF Sound, Data
    <3>3. Backlog'
      <4>1. \A k \in Node : Line(k)' = Line(k)  BY <2>2 DEF Line
      <4>. QED  BY <2>2, <3>1, <4>1 DEF Sound, Backlog
    <3>4. Wire'  BY <2>2, <3>1 DEF Sound, Wire
    <3>5. OnWire'  BY <2>2, <3>1 DEF Sound, OnWire
    <3>6. Silent'  BY <2>2 DEF Sound, Silent
    <3>7. Acks'  BY <2>2, <3>1 DEF Sound, Acks
    <3>8. Own'  BY <2>2, <3>1 DEF Sound, Own
    <3>9. Reported'  BY <2>2 DEF Sound, Reported
    <3>. QED  BY SMT, <3>1, <3>2, <3>3, <3>4, <3>5, <3>6, <3>7, <3>8, <3>9 DEF Sound
  <2>. QED  BY <1>1, <2>2, <2>3
<1>3. ASSUME NEW i \in Node, Draw(i)  PROVE Sound' /\ AppendsNew
  <2>1. log' = log  BY <1>3 DEF Draw, raftVars
  <2>. QED  BY <1>1, <1>3, <2>1, DrawKeeps
<1>4. ASSUME NEW i \in Node, NEW p \in drawn[i], Submit(i, p)  PROVE Sound' /\ AppendsNew
  <2>1. log' = log  BY <1>4 DEF Submit, raftVars
  <2>. QED  BY <1>1, <1>4, <2>1, SubmitKeeps
<1>5. ASSUME NEW i \in Node, NEW e, DrainInbox(i, e)  PROVE Sound' /\ AppendsNew
  <2>1. CASE leading[i]  BY <1>5, <2>1, LeaderDrainKeeps
  <2>2. CASE ~leading[i]
    <3>1. log' = log  BY <1>5, <2>2 DEF DrainInbox
    <3>. QED  BY <1>1, <1>5, <2>2, <3>1, FollowerDrainKeeps
  <2>. QED  BY SMT, <2>1, <2>2
<1>6. ASSUME NEW i \in Node, Sweep(i)  PROVE Sound' /\ AppendsNew
  <2>1. log' = log  BY <1>6 DEF Sweep, raftVars
  <2>. QED  BY <1>1, <1>6, <2>1, SweepKeeps
<1>7. ASSUME NEW l \in Node, NEW n \in DOMAIN log[l], AdvanceCommit(l, n)  PROVE Sound' /\ AppendsNew
  <2>1. log' = log  BY <1>7 DEF AdvanceCommit
  <2>2. l = FirstLeader  BY <1>7 DEF Sound, OneLeader, AdvanceCommit, Newest
  <2>. QED  BY <1>1, <1>7, <2>1, <2>2, AdvanceCommitKeeps DEF Main
<1>8. ASSUME NEW i \in Node, Restart(i) \/ \E V \in SUBSET Node : Elect(i, V)
      PROVE  Sound' /\ AppendsNew
  BY <1>8, SteadyStep
<1>9. ASSUME NEW i \in Node, NEW j \in Node, ReceiveForward(i, j)  PROVE Sound' /\ AppendsNew
  BY <1>9, ReceiveForwardKeeps
<1>10. ASSUME NEW i \in Node, NEW j \in Node, ReceiveAck(i, j)  PROVE Sound' /\ AppendsNew
  <2>1. log' = log  BY <1>10 DEF ReceiveAck, raftVars
  <2>. QED  BY <1>1, <1>10, <2>1, ReceiveAckKeeps
<1>11. ASSUME NEW i \in Node, NEW j \in Node, LinkDown(i, j)  PROVE Sound' /\ AppendsNew
  <2>1. log' = log  BY <1>11 DEF LinkDown, raftVars
  <2>. QED  BY <1>1, <1>11, <2>1, LinkDownKeeps
<1>12. ASSUME NEW i \in Node, NEW j \in Node, LinkUp(i, j)  PROVE Sound' /\ AppendsNew
  <2>1. log' = log  BY <1>12 DEF LinkUp, raftVars
  <2>. QED  BY <1>1, <1>12, <2>1, LinkUpKeeps
<1>13. ASSUME NEW l \in Node, NEW j \in Node, Replicate(l, j)  PROVE Sound' /\ AppendsNew
  <2>1. l = FirstLeader /\ j # FirstLeader /\ log' = [log EXCEPT ![j] = log[l]]
    BY <1>13 DEF Sound, OneLeader, Replicate, Newest
  <2>2. log'[FirstLeader] = log[FirstLeader]  BY <1>0, <2>1 DEF Sound, Data
  <2>. QED  BY <1>1, <1>13, <2>2, ReplicateKeeps
<1>14. ASSUME NEW i \in Node, NEW e, NEW k, DrainFails(i, e, k)  PROVE Sound' /\ AppendsNew
  <2>1. AppendFails(i)  BY <1>14 DEF DrainFails
  <2>. QED  BY <2>1, SteadyStep
<1>15. ASSUME NEW i \in Node, NEW j \in Node, NEW n, ReceiveForwardFails(i, j, n)
       PROVE  Sound' /\ AppendsNew
  <2>1. AppendFails(i)  BY <1>15 DEF ReceiveForwardFails
  <2>. QED  BY <2>1, SteadyStep
<1>. QED
  BY <1>2, <1>3, <1>4, <1>5, <1>6, <1>7, <1>8, <1>9, <1>10, <1>11, <1>12, <1>13, <1>14, <1>15
     DEF Next

\* The initial states.
LEMMA InitSteady ==
    ASSUME Init
    PROVE  SteadyInv
<1>. USE ZenonT(30)
<1>0. FirstLeader \in Node /\ MaxOps \in Nat  BY ForwardingAssumption
<1>1. /\ <<>> \in Seq(LogEntry) /\ <<>> \in Seq(Frame) /\ <<>> \in Seq(1..MaxOps)
      /\ <<>> \in Seq(Proposal) /\ <<>> \in Seq(AckEntry)
      /\ Len(<<>>) = 0 /\ <<>> \o <<>> = <<>>
  <2>1. <<>> \o <<>> = <<>>  BY SMTT(30)
  <2>. QED  BY <2>1, SeqEmpty
<1>2. 0 \in Nat /\ 1 \in Nat /\ 0 \in 0..0 /\ 0 <= 0 /\ 0 - 0 = 0 /\ \A x \in 1..0 : FALSE  BY SMTT(30)
<1>3. Nothing \in Acked /\ Nothing.seq = 0  BY <1>2 DEF Nothing, Acked
<1>4. Settings
  <2>1. 0 <= MaxOps  BY <1>0, SMTT(30)
  <2>. QED  BY <1>2, <2>1 DEF Init, Settings, Events
<1>5. Data
  <2>1. /\ term \in [Node -> Nat] /\ log \in [Node -> Seq(LogEntry)] /\ commit \in [Node -> Nat]
        /\ link \subseteq Node \X Node
        /\ chan \in [Node -> [Node -> Seq(Frame)]]
    BY <1>1, <1>2 DEF Init
  <2>2. /\ seqs \in [Node -> Seq(1..MaxOps)] /\ drawn \in [Node -> SUBSET Proposal]
        /\ inbox \in [Node -> Seq(Proposal)] /\ fwdPending \in [Node -> Seq(Proposal)]
    BY <1>1 DEF Init
  <2>3. /\ fwdAcked \in [Node -> Acked] /\ fwdMarked \in [Node -> Nat]
        /\ done \in [Node -> SUBSET Nat]
        /\ ackPending \in [Node -> Seq(AckEntry)]
        /\ committedFwd \in [Node -> [Node -> Acked]]
    BY <1>1, <1>2, <1>3 DEF Init
  <2>. QED  BY <2>1, <2>2, <2>3 DEF Data
<1>6. /\ Main = <<>> /\ commit[FirstLeader] = 0 /\ ackPending[FirstLeader] = <<>>
      /\ \A i \in Node : /\ log[i] = <<>> /\ commit[i] = 0 /\ seqs[i] = <<>> /\ drawn[i] = {}
                          /\ inbox[i] = <<>> /\ fwdPending[i] = <<>> /\ done[i] = {}
                          /\ fwdAcked[i] = Nothing /\ committedFwd[FirstLeader][i] = Nothing
                          /\ \A j \in Node : chan[i][j] = <<>>
  BY <1>0 DEF Init, Main
<1>7. OneLeader  BY DEF Init, OneLeader
<1>8. Copies  BY <1>1, <1>2, <1>6 DEF Copies, Grows
<1>9. Distinct  BY <1>1, <1>2, <1>6 DEF Distinct
<1>10. LogOrder  BY <1>1, <1>2, <1>6 DEF LogOrder, Ordered
<1>11. Backlog
  <2>1. \A i \in Node : Line(i) = <<>>  BY <1>1, <1>6 DEF Line
  <2>. QED  BY <1>1, <1>2, <1>6, <2>1 DEF Backlog, BacklogOk, Ascending, HasCuts, CutAt
<1>12. Wire  BY <1>0, <1>1, <1>2, <1>6 DEF Wire, WireOk
<1>13. OnWire  BY <1>1, <1>2, <1>6 DEF OnWire, Underway
<1>14. Silent  BY <1>6 DEF Silent
<1>15. Acks  BY <1>0, <1>1, <1>2, <1>3, <1>6 DEF Acks, AckOk, AcksOk
<1>16. Own  BY <1>0, <1>1, <1>2, <1>6 DEF Own
<1>17. Settled  BY <1>2, <1>6 DEF Settled
<1>18. Tracked  BY <1>1, <1>2, <1>6 DEF Tracked, HasTops
<1>19. Reported  BY <1>6 DEF Reported, ReportedOk
<1>. QED
  BY SMT, <1>4, <1>5, <1>7, <1>8, <1>9, <1>10, <1>11, <1>12, <1>13, <1>14, <1>15, <1>16, <1>17, <1>18,
     <1>19 DEF SteadyInv, Sound

\* One step of the specification.
LEMMA StepSteady ==
    ASSUME SteadyInv, [Next]_vars
    PROVE  SteadyInv' /\ (Steady' => Steady /\ AppendsNew)
<1>1. Settings' /\ (Steady' => Steady)  BY SettingsKept DEF SteadyInv
<1>2. Steady' => Sound' /\ AppendsNew  BY <1>1, StepSound, ZenonT(30) DEF SteadyInv
<1>. QED  BY <1>1, <1>2 DEF SteadyInv

-----------------------------------------------------------------------------
(* Theorems.                                                               *)

\* While one leader leads, nothing a node has submitted gets lost, out of order
\* or reported too early between its inbox, the connections and the logs.
THEOREM SteadyInvHolds == Spec => []SteadyInv
<1>1. Init => SteadyInv  BY InitSteady
<1>2. SteadyInv /\ [Next]_vars => SteadyInv'  BY StepSteady
<1>. QED  BY <1>1, <1>2, PTL DEF Spec

\* What a node reports as committed is applied there (resolve_fwd_acks(),
\* resolve_local_fwd_acks()), whatever was lost and sent again.
THEOREM ConfirmedIsAppliedHolds == Spec => []ConfirmedIsApplied
<1>. USE ZenonT(30)
<1>1. ASSUME SteadyInv  PROVE ConfirmedIsApplied
  <2>. SUFFICES ASSUME Sound, NEW i \in Node, NEW s \in done[i]
       PROVE  seqs[i][s] \in AppliedAt(i)
    BY <1>1 DEF SteadyInv, ConfirmedIsApplied, Confirmed
  <2>1. PICK m \in 1..commit[i] : log[i][m].op = seqs[i][s]
    BY DEF Sound, Reported, ReportedOk
  <2>. QED  BY <2>1 DEF AppliedAt
<1>. QED  BY <1>1, SteadyInvHolds, PTL

\* Operations enter every log in the order in which their node submitted them.
THEOREM SubmissionOrderHolds == Spec => []SubmissionOrder
<1>. USE ZenonT(30)
<1>1. ASSUME SteadyInv  PROVE SubmissionOrder
  <2>. SUFFICES ASSUME Sound, NEW i \in Node, NEW k \in Node, NEW t \in DOMAIN seqs[i],
                       NEW s \in 1..(t - 1), NEW n \in DOMAIN log[k], log[k][n].op = seqs[i][t]
       PROVE  \E m \in 1..n : log[k][m].op = seqs[i][s]
    BY <1>1 DEF SteadyInv, SubmissionOrder
  <2>0. FirstLeader \in Node /\ Data  BY SMT, ForwardingAssumption DEF Sound
  <2>1. /\ DOMAIN seqs[i] = 1..Len(seqs[i]) /\ Len(seqs[i]) \in Nat
        /\ DOMAIN log[k] = 1..Len(log[k]) /\ Len(log[k]) \in Nat /\ Len(Main) \in Nat
    BY <2>0, NodeData, SeqFields DEF Main
  <2>2. Grows(log[k], Main)  BY DEF Sound, Copies
  <2>3. n \in 1..Len(log[k]) /\ t \in 1..Len(seqs[i])  BY SMT, <2>1
  <2>4. n \in 1..Len(Main) /\ s \in 1..t
    <3>1. Len(log[k]) <= Len(Main)  BY SMT, <2>2 DEF Grows
    <3>. QED  BY <2>1, <2>3, <3>1, SMTT(30)
  <2>5. Main[n].op = seqs[i][t]  BY <2>2, <2>3 DEF Grows
  <2>6. InLog(Main, seqs[i][s], n)  BY <2>3, <2>4, <2>5 DEF Sound, LogOrder, Ordered
  <2>7. PICK m \in 1..Len(Main) : m <= n /\ Main[m].op = seqs[i][s]  BY SMT, <2>6 DEF InLog
  <2>8. m \in 1..n /\ m \in 1..Len(log[k])  BY <2>1, <2>3, <2>7, SMTT(30)
  <2>9. log[k][m] = Main[m]  BY <2>2, <2>8 DEF Grows
  <2>. QED  BY <2>7, <2>8, <2>9
<1>. QED  BY <1>1, SteadyInvHolds, PTL

\* The leader appends no operation that it has committed, however often it is
\* sent again (cl_dispatch(CL_FRAME_FORWARD)).
THEOREM CommittedNotReappendedHolds == Spec => CommittedNotReappended
<1>. USE ZenonT(30)
<1>. DEFINE New == Steady' => \A i \in Node : leading[i] =>
                     \A n \in DOMAIN log'[i] \ DOMAIN log[i] : log'[i][n].op \notin AppliedAt(i)
<1>1. ASSUME SteadyInv, SteadyInv', [Next]_vars  PROVE New
  <2>. SUFFICES ASSUME Steady', NEW i \in Node, leading[i],
                       NEW n \in DOMAIN log'[i] \ DOMAIN log[i]
       PROVE  log'[i][n].op \notin AppliedAt(i)
    BY SMT
  <2>1. Steady /\ AppendsNew  BY SMT, <1>1, StepSteady
  <2>2. Sound /\ Data /\ Data'  BY SMT, <1>1, <2>1 DEF SteadyInv, Sound
  <2>3. i = FirstLeader  BY <2>2 DEF Sound, OneLeader
  <2>4. log \in [Node -> Seq(LogEntry)] /\ log' \in [Node -> Seq(LogEntry)]  BY <2>2 DEF Data
  <2>5. DOMAIN log[i] = 1..Len(Main) /\ DOMAIN log'[i] = 1..Len(Main')
    <3>1. Main \in Seq(LogEntry) /\ Main' \in Seq(LogEntry) /\ log[i] = Main /\ log'[i] = Main'
      BY <2>3, <2>4 DEF Main
    <3>. QED  BY <3>1, SeqFields
  <2>6. n \in 1..Len(Main') /\ n \notin 1..Len(Main)  BY <2>5
  <2>7. \A m \in 1..commit[FirstLeader] : Main[m].op # Main'[n].op  BY <2>1, <2>6 DEF AppendsNew
  <2>. QED  BY <2>3, <2>7 DEF AppliedAt, Main
<1>2. SteadyInv /\ SteadyInv' /\ [Next]_vars => [New]_vars  BY SMT, <1>1
<1>3. CommittedNotReappended <=> [][New]_vars  BY SMT DEF CommittedNotReappended
<1>. HIDE DEF New
<1>. QED  BY <1>2, <1>3, SteadyInvHolds, PTL DEF Spec

=============================================================================
