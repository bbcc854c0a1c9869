-------------------------- MODULE RaftSafetyProofs --------------------------
(***************************************************************************)
(* Election safety and log matching of Raft, for every cluster size, sync  *)
(* policy and bound, as long as no write to stable storage fails.          *)
(*                                                                         *)
(* The state of the cluster forgets who voted for whom once the voters     *)
(* move on, and what a leader had in its log once it is gone.  The         *)
(* invariant therefore says that there EXIST a ballot box and the logs of  *)
(* all leaders so far that explain the state: each step extends both.      *)
(* StepExplained says what a step must do for that; then come the actions  *)
(* that elect nobody and extend no leader's log, those that ask for and    *)
(* give votes, those that count them, and those that extend a leader's     *)
(* log.                                                                    *)
(***************************************************************************)
EXTENDS RaftProofs, FiniteSetTheorems

-----------------------------------------------------------------------------
(* Majorities and counted votes.                                           *)

\* A term has one winner: every node is in the box once per term.
LEMMA OneWinner ==
    ASSUME NEW b, NEW c, NEW d, NEW t, Won(b, c, t), Won(b, d, t)
    PROVE  c = d
\* Two sets of voters that are both a majority meet.
<1>. USE ZenonT(30)
<1>meet. ASSUME NEW S \in SUBSET Node, NEW T \in SUBSET Node,
             Cardinality(S) >= QuorumSize, Cardinality(T) >= QuorumSize
      PROVE  S \cap T # {}
  <2>. USE <1>meet
  <2>1. IsFiniteSet(Node)  BY NodeAssumption
  <2>2. /\ IsFiniteSet(S) /\ IsFiniteSet(T) /\ IsFiniteSet(S \cup T)
        /\ Cardinality(S \cup T) <= Cardinality(Node)
    <3>1. S \cup T \in SUBSET Node  OBVIOUS
    <3>. QED  BY <2>1, <3>1, FS_Subset
  <2>3. /\ Cardinality(S) \in Nat /\ Cardinality(T) \in Nat /\ Cardinality(Node) \in Nat
        /\ Cardinality(S \cup T) \in Nat
    BY <2>1, <2>2, FS_CardinalityType
  <2>4. Cardinality(S \cup T) = Cardinality(S) + Cardinality(T) - Cardinality(S \cap T)
    BY <2>2, FS_Union
  <2>5. SUFFICES ASSUME S \cap T = {}  PROVE FALSE
    BY SMT
  <2>6. Cardinality(S \cap T) = 0  BY <2>5, FS_EmptySet
  <2>. QED  BY <2>2, <2>3, <2>4, <2>6, SMTT(30) DEF QuorumSize
<1>. DEFINE S == {v \in Node : b[t][v] = c}
            T == {v \in Node : b[t][v] = d}
<1>1. S \in SUBSET Node /\ T \in SUBSET Node  OBVIOUS
<1>2. Cardinality(S) >= QuorumSize /\ Cardinality(T) >= QuorumSize  BY DEF Won
<1>. HIDE DEF S, T
<1>3. PICK v : v \in S \cap T  BY <1>1, <1>2, <1>meet
<1>. QED  BY <1>3 DEF S, T

\* A won election stays won as the box fills.
LEMMA WonGrows ==
    ASSUME NEW b, NEW b2, Grown(b, b2), NEW c \in Node, NEW t \in Nat, Won(b, c, t)
    PROVE  Won(b2, c, t)
<1>. USE ZenonT(30)
<1>. DEFINE S == {v \in Node : b[t][v] = c}
            T == {v \in Node : b2[t][v] = c}
<1>1. c # Nil /\ IsFiniteSet(Node)  BY NodeAssumption
<1>2. S \in SUBSET T /\ T \in SUBSET Node  BY <1>1 DEF Grown
<1>3. Cardinality(S) >= QuorumSize  BY DEF Won
<1>. HIDE DEF S, T
<1>4. IsFiniteSet(T)  BY <1>1, <1>2, FS_Subset
<1>5. IsFiniteSet(S) /\ Cardinality(S) <= Cardinality(T)  BY <1>2, <1>4, FS_Subset
<1>6. Cardinality(S) \in Nat /\ Cardinality(T) \in Nat /\ Cardinality(Node) \in Nat
  BY <1>1, <1>4, <1>5, FS_CardinalityType
<1>7. Cardinality(T) >= QuorumSize  BY <1>3, <1>5, <1>6, SMTT(30) DEF QuorumSize
<1>. QED  BY <1>7 DEF Won, T

\* While c stays in its term, an orderly step loses none of its voters.
LEMMA CountedGrows ==
    ASSUME LoopTypeOK, NEW b, NEW b2, Grown(b, b2),
           NEW i \in Node, NEW D, NEW frames, Orderly(b2, i, D, frames),
           NEW c \in Node, currentTerm'[c] = currentTerm[c]
    PROVE  /\ Counted(b, c) \subseteq Counted(b2, c)'
           /\ IsFiniteSet(Counted(b, c)) /\ IsFiniteSet(Counted(b2, c)')
<1>. USE ZenonT(30)
<1>. DEFINE t == currentTerm[c]
<1>1. t \in Nat  BY DEF LoopTypeOK
<1>2. ASSUME NEW v \in Counted(b, c)
      PROVE  v \in Counted(b2, c)'
  <2>1. v \in Node /\ b[t][v] = c /\ (v # c => Idle(c, v, t))  BY <1>2 DEF Counted
  <2>2. b2[t][v] = c  BY <1>1, <2>1, NodeAssumption DEF Grown
  <2>3. ASSUME v # c  PROVE Idle(c, v, t)'
    <3>1. Idle(c, v, t)  BY <2>1, <2>3
    <3>. HIDE DEF t
    <3>2. Has(chan'[c][v], Ask(t)) => c = i /\ Has(frames, Ask(t))
      BY <2>1, <3>1 DEF Orderly, Sends, Idle
    <3>3. Has(chan'[v][c], Grant(t)) => v = i /\ c \in D /\ Has(frames, Grant(t))
      <4>1. \/ ~Has(chan'[v][c], Grant(t)) \/ Has(chan[v][c], Grant(t))
            \/ v = i /\ c \in D /\ Has(frames, Grant(t))
        BY <2>1 DEF Orderly, Sends
      <4>. QED  BY <3>1, <4>1 DEF Idle
    <3>4. c = i /\ Has(frames, Ask(t)) => t > currentTerm[c]
      BY <1>1 DEF Orderly
    <3>5. ~(t > currentTerm[c])  BY SMT, <1>1 DEF t
    <3>6. v = i /\ c \in D /\ Has(frames, Grant(t)) => Has(chan[c][v], Ask(t))
      BY <1>1, <2>3 DEF Orderly
    <3>7. ~Has(chan'[c][v], Ask(t))  BY <3>2, <3>4, <3>5
    <3>8. ~Has(chan'[v][c], Grant(t))  BY <3>1, <3>3, <3>6 DEF Idle
    <3>9. ~Has(chan'[c][v], Ask(currentTerm'[c])) /\ ~Has(chan'[v][c], Grant(currentTerm'[c]))
      BY <3>7, <3>8 DEF t
    <3>. QED  BY <3>9 DEF Idle, t
  <2>. QED  BY <2>1, <2>2, <2>3 DEF Counted
<1>3. Counted(b, c) \in SUBSET Node  BY DEF Counted
<1>4. Counted(b2, c)' \in SUBSET Node  BY DEF Counted
<1>5. IsFiniteSet(Node)  BY NodeAssumption
<1>6. IsFiniteSet(Counted(b, c)) /\ IsFiniteSet(Counted(b2, c)')
  BY <1>3, <1>4, <1>5, FS_Subset
<1>. QED  BY <1>2, <1>6

-----------------------------------------------------------------------------
(* The invariant.                                                          *)

\* A node that leads, or is followed, has won the term.
LeaderInv(b) ==
    \A i \in Node :
        /\ role[i] = Leader => Won(b, i, currentTerm[i])
        /\ leaderId[i] # Nil => Won(b, leaderId[i], currentTerm[i])

\* An AppendEntries frame comes from the winner of its term and was cut out of
\* the winner's log.
FrameInv(b, l) ==
    \A a, c \in Node : \A m \in Message :
        (m.type = "APPEND" /\ Has(chan[a][c], {m})) =>
            Won(b, a, m.term) /\ SliceOf(m, l[m.term])

\* c can no longer win term t.
Past(c, t) == t < currentTerm[c] \/ (t = currentTerm[c] /\ role[c] # Candidate)

LogInv(b, l) ==
    /\ l \in LeaderLogs
    /\ \A t \in Nat : l[t] # <<>> => \E c \in Node : Won(b, c, t) /\ Past(c, t)
    /\ \A t \in Nat : Conforms(l[t], l)
    /\ \A i \in Node : Conforms(log[i], l) /\ Conforms(disk[i], l)
    /\ \A i \in Node : role[i] = Leader => log[i] = l[currentTerm[i]]

\* The ballot box b and the leaders' logs l explain the state.
Explained(b, l) ==
    Box(b) /\ PairInv(b) /\ VotesInv(b) /\ LeaderInv(b) /\ FrameInv(b, l) /\ LogInv(b, l)

-----------------------------------------------------------------------------
(* What a step of node i must do for b2 and l2 to explain the next state.  *)

\* The other nodes stay as they are.
Others(i) ==
    \A k \in Node : k # i =>
        /\ role'[k] = role[k] /\ currentTerm'[k] = currentTerm[k] /\ votes'[k] = votes[k]
        /\ leaderId'[k] = leaderId[k] /\ log'[k] = log[k] /\ disk'[k] = disk[k]

\* What i counts, leads and follows is in the box.
Elects(b2, i) ==
    /\ role'[i] = Candidate => votes'[i] <= Cardinality(Counted(b2, i)')
    /\ (role'[i] = Candidate /\ currentTerm'[i] = currentTerm[i]) => role[i] = Candidate
    /\ role'[i] = Leader => Won(b2, i, currentTerm'[i])
    /\ leaderId'[i] # Nil => Won(b2, leaderId'[i], currentTerm'[i])

\* i sends AppendEntries frames only as a leader, out of its log.
AppendsOwn(i, frames) ==
    \A m \in Message : (m.type = "APPEND" /\ Has(frames, {m})) =>
        role'[i] = Leader /\ m.term = currentTerm'[i] /\ SliceOf(m, log'[i])

\* Only the log of the term that i leads grows, and what i holds conforms.
Logs(l, l2, i) ==
    /\ l2 \in LeaderLogs
    /\ Extends(l, l2)
    /\ \A t \in Nat : l2[t] # l[t] => t = currentTerm'[i] /\ role'[i] = Leader
    /\ \A t \in Nat : Conforms(l2[t], l2)
    /\ Conforms(log'[i], l2) /\ Conforms(disk'[i], l2)
    /\ role'[i] = Leader => log'[i] = l2[currentTerm'[i]]

\* The votes stay backed.
LEMMA VotesKept ==
    ASSUME LoopTypeOK, LoopTypeOK', NEW b, VotesInv(b), NEW b2, Grown(b, b2),
           NEW i \in Node, NEW D, NEW frames, Orderly(b2, i, D, frames), Others(i), Elects(b2, i)
    PROVE  VotesInv(b2)'
<1>. USE ZenonT(30)
<1>. SUFFICES ASSUME NEW c \in Node, role'[c] = Candidate
              PROVE  votes'[c] <= Cardinality(Counted(b2, c)')
  BY DEF VotesInv
<1>1. CASE c = i  BY <1>1 DEF Elects
<1>2. CASE c # i
  <2>1. role[c] = Candidate /\ votes'[c] = votes[c] /\ currentTerm'[c] = currentTerm[c]
    BY <1>2 DEF Others
  <2>2. votes[c] <= Cardinality(Counted(b, c)) /\ votes[c] \in Nat
    BY <2>1 DEF VotesInv, LoopTypeOK
  <2>. DEFINE S == Counted(b, c)
              T == Counted(b2, c)'
  <2>3. S \in SUBSET T /\ IsFiniteSet(S) /\ IsFiniteSet(T)  BY <2>1, CountedGrows
  <2>. HIDE DEF S, T
  <2>4. Cardinality(S) <= Cardinality(T)  BY <2>3, FS_Subset
  <2>5. Cardinality(S) \in Nat /\ Cardinality(T) \in Nat  BY <2>3, FS_CardinalityType
  <2>6. votes[c] <= Cardinality(S)  BY <2>2 DEF S
  <2>7. votes[c] <= Cardinality(T)  BY <2>2, <2>4, <2>5, <2>6, SMTT(30)
  <2>. QED  BY <2>1, <2>7 DEF T
<1>. QED  BY <1>1, <1>2

\* Leaders and followed nodes stay winners.
LEMMA LeadersKept ==
    ASSUME LoopTypeOK, LoopTypeOK', NEW b, LeaderInv(b), NEW b2, Grown(b, b2),
           NEW i \in Node, Others(i), Elects(b2, i)
    PROVE  LeaderInv(b2)'
<1>. USE ZenonT(30)
<1>. SUFFICES ASSUME NEW k \in Node
              PROVE  /\ role'[k] = Leader => Won(b2, k, currentTerm'[k])
                     /\ leaderId'[k] # Nil => Won(b2, leaderId'[k], currentTerm'[k])
  BY DEF LeaderInv
<1>1. CASE k = i  BY <1>1 DEF Elects
<1>2. CASE k # i
  <2>1. role'[k] = role[k] /\ currentTerm'[k] = currentTerm[k] /\ leaderId'[k] = leaderId[k]
    BY <1>2 DEF Others
  <2>2. currentTerm[k] \in Nat /\ leaderId[k] \in Node \cup {Nil}
    BY DEF LoopTypeOK
  <2>3. role[k] = Leader => Won(b2, k, currentTerm[k])
    BY <2>2, WonGrows DEF LeaderInv
  <2>4. leaderId[k] # Nil => Won(b2, leaderId[k], currentTerm[k])
    <3>1. leaderId[k] # Nil => Won(b, leaderId[k], currentTerm[k]) /\ leaderId[k] \in Node
      BY <2>2 DEF LeaderInv
    <3>. QED  BY <2>2, <3>1, WonGrows
  <2>. QED  BY <2>1, <2>3, <2>4
<1>. QED  BY <1>1, <1>2

\* Frames stay slices of the winners' logs.
LEMMA FramesKept ==
    ASSUME NEW b, NEW l \in LeaderLogs, FrameInv(b, l), NEW b2, Grown(b, b2), NEW l2,
           NEW i \in Node, NEW D, NEW frames, Sends(i, D, frames),
           Elects(b2, i), AppendsOwn(i, frames), Logs(l, l2, i)
    PROVE  FrameInv(b2, l2)'
<1>. USE ZenonT(30)
<1>. SUFFICES ASSUME NEW a \in Node, NEW c \in Node, NEW m \in Message, m.type = "APPEND",
                     Has(chan'[a][c], {m})
              PROVE  Won(b2, a, m.term) /\ SliceOf(m, l2[m.term])
  BY DEF FrameInv
<1>1. m.term \in Nat  BY FrameFields
<1>2. Has(chan[a][c], {m}) \/ (a = i /\ Has(frames, {m}))  BY ZenonT(60) DEF Sends
<1>3. CASE Has(chan[a][c], {m})
  <2>1. Won(b, a, m.term) /\ SliceOf(m, l[m.term])  BY <1>3 DEF FrameInv
  <2>2. Won(b2, a, m.term)  BY <1>1, <2>1, WonGrows
  <2>3. Agree(l[m.term], l2[m.term], Len(l[m.term]))  BY <1>1 DEF Logs, Extends
  <2>4. l[m.term] \in Seq(Entry) /\ l2[m.term] \in Seq(Entry)
    BY <1>1 DEF Logs, LeaderLogs
  <2>5. SliceOf(m, l2[m.term])  BY <2>1, <2>3, <2>4, SliceExtends
  <2>. QED  BY <2>2, <2>5
<1>4. CASE a = i /\ Has(frames, {m})
  <2>1. role'[i] = Leader /\ m.term = currentTerm'[i] /\ SliceOf(m, log'[i])
    BY <1>4 DEF AppendsOwn
  <2>2. Won(b2, i, m.term) /\ log'[i] = l2[m.term]  BY <2>1 DEF Elects, Logs
  <2>. QED  BY <1>4, <2>1, <2>2
<1>. QED  BY <1>2, <1>3, <1>4

\* Logs stay what the leaders' logs say.
LEMMA LogsKept ==
    ASSUME LoopTypeOK, LoopTypeOK', VoteKept, NEW b, NEW l, LeaderInv(b), LogInv(b, l),
           NEW b2, Grown(b, b2), NEW l2,
           NEW i \in Node, Others(i), Elects(b2, i), Logs(l, l2, i)
    PROVE  LogInv(b2, l2)'
<1>. USE ZenonT(30)
<1>1. l \in LeaderLogs /\ l2 \in LeaderLogs /\ Extends(l, l2)  BY DEF LogInv, Logs
<1>2. ASSUME NEW t \in Nat, l2[t] # <<>>
      PROVE  \E c \in Node : Won(b2, c, t) /\ Past(c, t)'
  <2>1. CASE l[t] # <<>>
    <3>1. PICK c \in Node : Won(b, c, t) /\ Past(c, t)  BY <2>1 DEF LogInv
    <3>2. Won(b2, c, t)  BY <3>1, WonGrows
    <3>3. /\ currentTerm[c] \in Nat /\ currentTerm'[c] \in Nat /\ currentTerm'[c] >= currentTerm[c]
      BY DEF LoopTypeOK, VoteKept
    <3>4. (currentTerm'[c] = currentTerm[c] /\ role'[c] = Candidate) => role[c] = Candidate
      BY DEF Others, Elects
    <3>5. Past(c, t)'
      <4>1. CASE t < currentTerm[c]
        <5>1. t < currentTerm'[c]  BY <3>3, <4>1, SMTT(30)
        <5>. QED  BY <5>1 DEF Past
      <4>2. CASE t = currentTerm[c] /\ role[c] # Candidate
        <5>1. t < currentTerm'[c] \/ t = currentTerm'[c]  BY <3>3, <4>2, SMTT(30)
        <5>. QED  BY <3>4, <4>2, <5>1 DEF Past
      <4>. QED  BY <3>1, <4>1, <4>2 DEF Past
    <3>. QED  BY <3>2, <3>5
  <2>2. CASE l[t] = <<>>
    <3>1. t = currentTerm'[i] /\ role'[i] = Leader  BY <1>2, <2>2 DEF Logs
    <3>2. Leader # Candidate  BY SMT DEF Leader, Candidate
    <3>3. Won(b2, i, t) /\ Past(i, t)'  BY <3>1, <3>2 DEF Elects, Past
    <3>. QED  BY <3>3
  <2>. QED  BY <2>1, <2>2
<1>3. ASSUME NEW k \in Node  PROVE Conforms(log'[k], l2) /\ Conforms(disk'[k], l2)
  <2>1. CASE k = i  BY <2>1 DEF Logs
  <2>2. CASE k # i
    <3>1. log'[k] = log[k] /\ disk'[k] = disk[k]  BY <2>2 DEF Others
    <3>2. log[k] \in Seq(Entry) /\ disk[k] \in Seq(Entry)  BY DEF LoopTypeOK
    <3>3. Conforms(log[k], l) /\ Conforms(disk[k], l)  BY DEF LogInv
    <3>. QED  BY <1>1, <3>1, <3>2, <3>3, ConformsExtends
  <2>. QED  BY <2>1, <2>2
<1>4. ASSUME NEW k \in Node, role'[k] = Leader  PROVE log'[k] = l2[currentTerm'[k]]
  <2>1. CASE k = i  BY <1>4, <2>1 DEF Logs
  <2>2. CASE k # i
    <3>1. role[k] = Leader /\ log'[k] = log[k] /\ currentTerm'[k] = currentTerm[k]
      BY <1>4, <2>2 DEF Others
    <3>. DEFINE t == currentTerm[k]
    <3>2. t \in Nat  BY DEF LoopTypeOK
    <3>3. log[k] = l[t] /\ Won(b, k, t)  BY <3>1 DEF LogInv, LeaderInv
    <3>. HIDE DEF t
    <3>4. Won(b2, k, t)  BY <3>2, <3>3, WonGrows
    <3>5. ~(t = currentTerm'[i] /\ role'[i] = Leader)
      BY <2>2, <3>4, OneWinner DEF Elects
    <3>6. l2[t] = l[t]  BY <3>2, <3>5 DEF Logs
    <3>. QED  BY <3>1, <3>3, <3>6 DEF t
  <2>. QED  BY <2>1, <2>2
<1>5. \A t \in Nat : Conforms(l2[t], l2)  BY DEF Logs
<1>. QED  BY <1>1, <1>2, <1>3, <1>4, <1>5 DEF LogInv

\* The four together.
LEMMA StepExplained ==
    ASSUME LoopTypeOK, LoopTypeOK', VoteKept, NEW b, NEW l, Explained(b, l),
           NEW b2, b2 = CastVotes(b), NEW l2,
           NEW i \in Node, NEW D, NEW frames, Orderly(b2, i, D, frames), Others(i),
           Elects(b2, i), AppendsOwn(i, frames), Logs(l, l2, i)
    PROVE  Explained(b2, l2)'
<1>. USE ZenonT(30)
<1>1. Box(b2)' /\ Grown(b, b2)  BY BoxFills DEF Explained
<1>2. PairInv(b2)'  BY <1>1, PairsKept DEF Explained
<1>3. VotesInv(b2)'  BY <1>1, VotesKept DEF Explained
<1>4. LeaderInv(b2)'  BY <1>1, LeadersKept DEF Explained
<1>5. FrameInv(b2, l2)'
  <2>1. l \in LeaderLogs /\ Sends(i, D, frames) /\ FrameInv(b, l)
    BY DEF Explained, LogInv, Orderly
  <2>. QED  BY <1>1, <2>1, FramesKept
<1>6. LogInv(b2, l2)'  BY <1>1, LogsKept DEF Explained
<1>. QED  BY <1>1, <1>2, <1>3, <1>4, <1>5, <1>6 DEF Explained

-----------------------------------------------------------------------------
(* Steps that elect nobody and extend no leader's log.                     *)

Before(b, l, b2) ==
    LoopTypeOK /\ LoopTypeOK' /\ VoteKept /\ Explained(b, l) /\ b2 = CastVotes(b)

\* i starts no candidacy and no leadership, and follows only a winner.
CalmAt(b, l, i) ==
    /\ role'[i] = Candidate =>
          role[i] = Candidate /\ currentTerm'[i] = currentTerm[i] /\ votes'[i] = votes[i]
    /\ role'[i] = Leader =>
          role[i] = Leader /\ currentTerm'[i] = currentTerm[i] /\ log'[i] = log[i]
    /\ leaderId'[i] # Nil =>
          \/ leaderId'[i] = leaderId[i] /\ currentTerm'[i] = currentTerm[i]
          \/ Won(b, leaderId'[i], currentTerm'[i])
    /\ Conforms(log'[i], l) /\ Conforms(disk'[i], l)

\* A step that appends nothing to a leader's log.
LEMMA LogsSame ==
    ASSUME NEW b, NEW l, LogInv(b, l), NEW i \in Node,
           role'[i] = Leader =>
             role[i] = Leader /\ currentTerm'[i] = currentTerm[i] /\ log'[i] = log[i],
           Conforms(log'[i], l), Conforms(disk'[i], l)
    PROVE  Logs(l, l, i)
<1>. USE ZenonT(30)
<1>1. l \in LeaderLogs  BY DEF LogInv
<1>2. ASSUME NEW t \in Nat  PROVE Agree(l[t], l[t], Len(l[t]))
  <2>1. l[t] \in Seq(Entry)  BY <1>1 DEF LeaderLogs
  <2>2. Len(l[t]) \in Nat /\ Len(l[t]) <= Len(l[t])  BY <2>1, SeqFields, SMTT(30)
  <2>. QED  BY <2>1, <2>2, AgreeProperties
<1>3. role'[i] = Leader => log'[i] = l[currentTerm'[i]]  BY DEF LogInv
<1>. QED  BY <1>1, <1>2, <1>3 DEF Logs, Extends, LogInv

\* Such a step needs no new leader's log.
LEMMA CalmExplained ==
    ASSUME NEW b, NEW l, NEW b2, Before(b, l, b2), NEW i \in Node, NEW D, NEW frames,
           Orderly(b2, i, D, frames), Others(i), CalmAt(b, l, i), AppendsOwn(i, frames)
    PROVE  Explained(b2, l)'
<1>. USE ZenonT(30)
<1>1. /\ LoopTypeOK /\ LoopTypeOK' /\ VoteKept /\ Explained(b, l) /\ b2 = CastVotes(b)
      /\ LeaderInv(b) /\ LogInv(b, l) /\ VotesInv(b) /\ Box(b)
  BY DEF Before, Explained
<1>2. Grown(b, b2)  BY <1>1, BoxFills
<1>3. currentTerm[i] \in Nat /\ currentTerm'[i] \in Nat /\ leaderId'[i] \in Node \cup {Nil}
  BY <1>1 DEF LoopTypeOK
<1>4. Elects(b2, i)
  <2>1. ASSUME role'[i] = Candidate  PROVE votes'[i] <= Cardinality(Counted(b2, i)')
    <3>1. role[i] = Candidate /\ currentTerm'[i] = currentTerm[i] /\ votes'[i] = votes[i]
      BY <2>1 DEF CalmAt
    <3>2. votes[i] <= Cardinality(Counted(b, i)) /\ votes[i] \in Nat
      BY <1>1, <3>1 DEF VotesInv, LoopTypeOK
    <3>. DEFINE S == Counted(b, i)
                T == Counted(b2, i)'
    <3>3. S \in SUBSET T /\ IsFiniteSet(S) /\ IsFiniteSet(T)
      BY <1>1, <1>2, <3>1, CountedGrows
    <3>. HIDE DEF S, T
    <3>4. Cardinality(S) <= Cardinality(T)  BY <3>3, FS_Subset
    <3>5. Cardinality(S) \in Nat /\ Cardinality(T) \in Nat  BY <3>3, FS_CardinalityType
    <3>6. votes[i] <= Cardinality(S)  BY <3>2 DEF S
    <3>7. votes[i] <= Cardinality(T)  BY <3>2, <3>4, <3>5, <3>6, SMTT(30)
    <3>. QED  BY <3>1, <3>7 DEF T
  <2>2. role'[i] = Leader => Won(b2, i, currentTerm'[i])
    BY <1>1, <1>2, <1>3, WonGrows DEF CalmAt, LeaderInv
  <2>3. leaderId'[i] # Nil => Won(b, leaderId'[i], currentTerm'[i])
    BY <1>1 DEF CalmAt, LeaderInv
  <2>4. leaderId'[i] # Nil => Won(b2, leaderId'[i], currentTerm'[i])
    <3>1. leaderId'[i] # Nil => leaderId'[i] \in Node  BY <1>3
    <3>. QED  BY <1>2, <1>3, <2>3, <3>1, WonGrows
  <2>5. role'[i] = Candidate => role[i] = Candidate  BY DEF CalmAt
  <2>. QED  BY <2>1, <2>2, <2>4, <2>5 DEF Elects
<1>5. Logs(l, l, i)  BY <1>1, LogsSame DEF CalmAt
<1>. QED  BY <1>1, <1>4, <1>5, StepExplained

\* Frames that carry no vote.
Plain(frames) == \A t \in Nat : ~Has(frames, Ask(t)) /\ ~Has(frames, Grant(t))

\* Frames that carry neither votes nor entries.
Mute(frames) == Plain(frames) /\ \A m : Has(frames, {m}) => m.type # "APPEND"

\* Sending frames without votes is orderly.
LEMMA PlainOrderly ==
    ASSUME NEW b2, NEW i \in Node, NEW D \in SUBSET Node, NEW frames, Sends(i, D, frames),
           Plain(frames)
    PROVE  Orderly(b2, i, D, frames)
<1>. USE ZenonT(30)
<1>1. \A t \in Nat : Once(frames, Ask(t)) /\ Once(frames, Grant(t))
  BY DEF Plain, Once, Has
<1>. QED  BY <1>1 DEF Orderly, Plain

\* Frames that all are AppendEntries carry no vote.
LEMMA AppendsPlain ==
    ASSUME NEW frames, \A m : Has(frames, {m}) => m.type = "APPEND"
    PROVE  Plain(frames)
<1>. USE ZenonT(30)
<1>1. \A k \in DOMAIN frames : frames[k].type = "APPEND"  BY DEF Has
<1>2. \A k \in DOMAIN frames : frames[k].type # "VOTE_REQ" /\ frames[k].type # "VOTE_RESP"
  BY <1>1, SMTT(30)
<1>. QED  BY <1>2 DEF Plain, Has, Ask, Grant

\* A poll, an answer to one, an answer to AppendEntries, a refused vote.
LEMMA MuteFrame ==
    ASSUME NEW m, \/ m.type \in {"PREVOTE", "PREVOTE_RESP", "APPEND_RESP"}
                  \/ m.type = "VOTE_RESP" /\ ~m.granted
    PROVE  Mute(<<m>>)
<1>. USE ZenonT(30)
<1>1. m.type # "APPEND" /\ m.type # "VOTE_REQ" /\ (m.type = "VOTE_RESP" => ~m.granted)
  BY SMT
<1>2. \A t \in Nat : m \notin Ask(t) /\ m \notin Grant(t)  BY <1>1 DEF Ask, Grant
<1>3. \A x : m \in {x} => x = m  OBVIOUS
<1>. QED  BY <1>1, <1>2, <1>3, SingleHas DEF Mute, Plain

\* No frame at all.
LEMMA MuteNothing == Mute(<<>>)
BY EmptyHas, ZenonT(30) DEF Mute, Plain

\* A calm step that sends neither votes nor entries.
LEMMA MuteExplained ==
    ASSUME NEW b, NEW l, NEW b2, Before(b, l, b2), NEW i \in Node, NEW D \in SUBSET Node,
           NEW frames, Sends(i, D, frames), Mute(frames), Others(i), CalmAt(b, l, i)
    PROVE  Explained(b2, l)'
<1>. USE ZenonT(30)
<1>1. Orderly(b2, i, D, frames)  BY PlainOrderly DEF Mute
<1>2. AppendsOwn(i, frames)  BY DEF AppendsOwn, Mute
<1>. QED  BY <1>1, <1>2, CalmExplained

\* What the state before the step says of i.
LEMMA BeforeFields ==
    ASSUME NEW b, NEW l, NEW b2, Before(b, l, b2), NEW i \in Node
    PROVE  /\ LoopTypeOK /\ LoopTypeOK' /\ chan \in ChannelType /\ chan' \in ChannelType
           /\ Conforms(log[i], l) /\ Conforms(disk[i], l) /\ l \in LeaderLogs
           /\ log[i] \in Seq(Entry) /\ log'[i] \in Seq(Entry) /\ disk[i] \in Seq(Entry)
           /\ currentTerm[i] \in Nat /\ currentTerm'[i] \in Nat
BY ZenonT(30) DEF Before, Explained, LogInv, LoopTypeOK, ChannelType

-----------------------------------------------------------------------------
(* The actions.  First those after which i is what it was, or follows.     *)

\* A step that leaves roles, terms, votes and logs alone.
LEMMA KeptExplained ==
    ASSUME NEW b, NEW l, NEW b2, Before(b, l, b2), NEW i \in Node, NEW D \in SUBSET Node,
           NEW frames, Sends(i, D, frames), Mute(frames),
           UNCHANGED <<role, currentTerm, votes, log>>,
           leaderId' = leaderId \/ leaderId' = [leaderId EXCEPT ![i] = Nil],
           disk' = disk \/ disk' = [disk EXCEPT ![i] = log[i]]
    PROVE  Explained(b2, l)'
<1>. USE ZenonT(30)
<1>1. LoopTypeOK /\ Conforms(log[i], l) /\ Conforms(disk[i], l)  BY BeforeFields
<1>2. leaderId \in [Node -> Node \cup {Nil}] /\ disk \in [Node -> Seq(Entry)]
  BY <1>1 DEF LoopTypeOK
<1>3. /\ leaderId'[i] = Nil \/ leaderId'[i] = leaderId[i]
      /\ \A k \in Node : k # i => leaderId'[k] = leaderId[k]
  BY <1>2
<1>4. /\ disk'[i] = disk[i] \/ disk'[i] = log[i]
      /\ \A k \in Node : k # i => disk'[k] = disk[k]
  BY <1>2
<1>5. Others(i)  BY <1>3, <1>4 DEF Others
<1>6. CalmAt(b, l, i)  BY <1>1, <1>3, <1>4 DEF CalmAt
<1>. QED  BY <1>5, <1>6, MuteExplained

\* A step after which i follows a winner, or nobody, with a log that conforms.
LEMMA FollowerExplained ==
    ASSUME NEW b, NEW l, NEW b2, Before(b, l, b2), NEW i \in Node, NEW D \in SUBSET Node,
           NEW frames, Sends(i, D, frames), Mute(frames), Others(i),
           role'[i] = Follower, leaderId'[i] = Nil \/ Won(b, leaderId'[i], currentTerm'[i]),
           Conforms(log'[i], l), Conforms(disk'[i], l)
    PROVE  Explained(b2, l)'
<1>. USE ZenonT(30)
<1>1. Follower # Candidate /\ Follower # Leader  BY SMT DEF Follower, Candidate, Leader
<1>2. CalmAt(b, l, i)  BY <1>1 DEF CalmAt
<1>. QED  BY <1>2, MuteExplained

\* Frames are lost at most.
LEMMA NothingSent ==
    ASSUME chan \in ChannelType, NEW i \in Node,
           \A a, c \in Node : chan'[a][c] = chan[a][c] \/ chan'[a][c] = <<>>
    PROVE  Sends(i, {}, <<>>) /\ Mute(<<>>) /\ {} \in SUBSET Node
BY LossSends, MuteNothing, ZenonT(30)

\* A frame is read and not answered.
LEMMA OnlyRead ==
    ASSUME chan \in ChannelType, NEW i \in Node, NEW j \in Node \ {i}, chan[j][i] # <<>>,
           ReadAndReply(i, j, <<>>)
    PROVE  Sends(i, {j}, <<>>) /\ Mute(<<>>) /\ {j} \in SUBSET Node
           /\ chan'[j][i] = Tail(chan[j][i])
<1>. USE ZenonT(30)
<1>1. <<>> \in Seq(Message)  BY SeqEmpty
<1>2. j \in Node /\ i # j  OBVIOUS
<1>. QED  BY <1>1, <1>2, ReplySends, MuteNothing

-----------------------------------------------------------------------------
(* AppendEntries: who sends one and who follows it.                        *)

\* A leader that sends frames cut out of its log.
LEMMA LeaderSendsExplained ==
    ASSUME NEW b, NEW l, NEW b2, Before(b, l, b2), NEW i \in Node, NEW D \in SUBSET Node,
           NEW frames, Sends(i, D, frames), role[i] = Leader,
           UNCHANGED <<role, currentTerm, votes, leaderId, log, disk>>,
           \A m : Has(frames, {m}) => CutFrom(m, currentTerm[i], log[i])
    PROVE  Explained(b2, l)'
<1>. USE ZenonT(30)
<1>1. Conforms(log[i], l) /\ Conforms(disk[i], l)  BY BeforeFields
<1>2. Plain(frames)  BY AppendsPlain DEF CutFrom
<1>3. Orderly(b2, i, D, frames)  BY <1>2, PlainOrderly
<1>4. AppendsOwn(i, frames)  BY DEF AppendsOwn, CutFrom
<1>5. Others(i)  BY DEF Others
<1>6. CalmAt(b, l, i)  BY <1>1 DEF CalmAt
<1>. QED  BY <1>3, <1>4, <1>5, <1>6, CalmExplained

\* The sender of the AppendEntries frame that i reads has won the frame's term,
\* and the frame was cut out of its log.
LEMMA ReadFromWinner ==
    ASSUME NEW b, NEW l, NEW b2, Before(b, l, b2), NEW i \in Node, NEW j \in Node,
           Received(i, j, "APPEND")
    PROVE  LET m == Head(chan[j][i])
           IN  /\ m \in Message /\ m.type = "APPEND"
               /\ Won(b, j, m.term) /\ SliceOf(m, l[m.term])
<1>. USE ZenonT(30)
<1>1. LoopTypeOK /\ chan \in ChannelType /\ FrameInv(b, l)
  BY DEF Before, Explained, LoopTypeOK, ChannelType
<1>2. chan[j][i] # <<>> /\ Head(chan[j][i]).type = "APPEND"  BY DEF Received
<1>3. Head(chan[j][i]) \in Message  BY <1>1, <1>2, ReceivedFrame
<1>4. Has(chan[j][i], {Head(chan[j][i])})
  <2>1. chan[j][i] \in Seq(Message)  BY <1>1 DEF ChannelType
  <2>2. 1 \in DOMAIN chan[j][i]  BY <1>2, <2>1, SMTT(30)
  <2>3. Head(chan[j][i]) = chan[j][i][1]  BY <1>2, <2>1, SMTT(30)
  <2>. QED  BY <2>2, <2>3 DEF Has
<1>5. Won(b, j, Head(chan[j][i]).term) /\ SliceOf(Head(chan[j][i]), l[Head(chan[j][i]).term])
  BY <1>1, <1>2, <1>3, <1>4 DEF FrameInv
<1>. QED  BY <1>2, <1>3, <1>5

\* What an AppendEntries of a current or newer term does first.
LEMMA FollowLeaderShape ==
    ASSUME LoopTypeOK, NEW i \in Node, NEW j \in Node, NEW t, FollowLeader(i, j, t),
           NEW lg, log' = [log EXCEPT ![i] = lg] \/ log' = log, disk' = disk
    PROVE  /\ Others(i) /\ role'[i] = Follower /\ leaderId'[i] = j /\ currentTerm'[i] = t
           /\ disk'[i] = disk[i] /\ log'[i] \in {lg, log[i]}
BY ZenonT(30) DEF FollowLeader, Others, LoopTypeOK

-----------------------------------------------------------------------------
(* Votes asked for and given.                                              *)

\* The first frame of a channel is in it.
LEMMA HeadIn ==
    ASSUME NEW s \in Seq(Message), s # <<>>, NEW M, Head(s) \in M
    PROVE  Has(s, M)
<1>1. 1 \in DOMAIN s /\ Head(s) = s[1]  OBVIOUS
<1>. QED  BY <1>1, ZenonT(30) DEF Has

-----------------------------------------------------------------------------
(* Votes counted.                                                          *)

\* A granted answer in the candidate's term that was not counted before.
LEMMA VoteCounted ==
    ASSUME NEW b, NEW l, NEW b2, Before(b, l, b2), NEW i \in Node, NEW j \in Node \ {i},
           Received(i, j, "VOTE_RESP"), Head(chan[j][i]).term = currentTerm[i],
           Head(chan[j][i]).granted, role[i] = Candidate, currentTerm' = currentTerm,
           chan'[j][i] = Tail(chan[j][i]), NEW D, NEW frames, Orderly(b2, i, D, frames)
    PROVE  /\ votes[i] + 1 <= Cardinality(Counted(b2, i)')
           /\ IsFiniteSet(Counted(b2, i)')
<1>. USE ZenonT(30)
<1>. DEFINE t == currentTerm[i]
            S == Counted(b, i)
            T == Counted(b2, i)'
<1>1. /\ LoopTypeOK /\ LoopTypeOK' /\ VoteKept /\ b2 = CastVotes(b) /\ Box(b) /\ PairInv(b)
      /\ VotesInv(b) /\ chan \in ChannelType /\ j \in Node /\ i # j /\ t \in Nat
  BY BeforeFields DEF Before, Explained
<1>2. /\ chan[j][i] # <<>> /\ Head(chan[j][i]).type = "VOTE_RESP" /\ chan[j][i] \in Seq(Message)
  BY <1>1 DEF Received, ChannelType
<1>3. Head(chan[j][i]) \in Message  BY <1>1, <1>2, ReceivedFrame
<1>4. Head(chan[j][i]) \in Grant(t)  BY <1>2, <1>3 DEF Grant
<1>5. Has(chan[j][i], Grant(t))  BY <1>2, <1>4, HeadIn
<1>6. PairOK(b, i, j, t)  BY <1>1 DEF PairInv
<1>7. Once(chan[j][i], Grant(t)) /\ ~Has(chan[i][j], Ask(t)) /\ b[t][j] = i
  BY <1>5, <1>6 DEF PairOK
<1>8. ~Has(chan'[j][i], Grant(t))  BY <1>2, <1>4, <1>7, TailHas, ZenonT(60)
<1>9. ~Has(chan'[i][j], Ask(t))
  <2>1. Has(frames, Ask(t)) => t > currentTerm[i]  BY <1>1 DEF Orderly
  <2>2. ~(t > currentTerm[i])  BY <1>1, SMTT(30)
  <2>. HIDE DEF t
  <2>. QED  BY <1>1, <1>7, <2>1, <2>2 DEF Orderly, Sends
<1>10. Grown(b, b2)  BY <1>1, BoxFills
<1>11. b2[t][j] = i  BY <1>1, <1>7, <1>10, NodeAssumption DEF Grown
<1>12. j \notin S  BY <1>1, <1>5 DEF Counted, Idle
<1>13. j \in T
  <2>1. currentTerm'[i] = t  OBVIOUS
  <2>. HIDE DEF t
  <2>. QED  BY <1>1, <1>8, <1>9, <1>11, <2>1 DEF Counted, Idle
<1>14. S \in SUBSET T /\ IsFiniteSet(S) /\ IsFiniteSet(T)
  <2>1. currentTerm'[i] = currentTerm[i]  OBVIOUS
  <2>. QED  BY <1>1, <1>10, <2>1, CountedGrows
<1>15. votes[i] <= Cardinality(S) /\ votes[i] \in Nat
  BY <1>1 DEF VotesInv, LoopTypeOK
<1>. HIDE DEF S, T, t
<1>16. IsFiniteSet(S \cup {j}) /\ Cardinality(S \cup {j}) = Cardinality(S) + 1
  BY <1>12, <1>14, FS_AddElement
<1>17. Cardinality(S \cup {j}) <= Cardinality(T)
  <2>1. S \cup {j} \in SUBSET T  BY <1>13, <1>14
  <2>. QED  BY <1>14, <2>1, FS_Subset
<1>18. Cardinality(S) \in Nat /\ Cardinality(T) \in Nat  BY <1>14, FS_CardinalityType
<1>19. votes[i] + 1 <= Cardinality(T)  BY <1>15, <1>16, <1>17, <1>18, SMTT(30)
<1>. QED  BY <1>14, <1>19 DEF T

-----------------------------------------------------------------------------
(* A leader's log grows.                                                   *)

\* An entry of term e.term behind x conforms when the result is the log of the
\* leader of that term.
LEMMA AppendConforms ==
    ASSUME NEW x \in Seq(Entry), NEW e \in Entry, NEW l \in LeaderLogs, Conforms(x, l),
           l[e.term] = Append(x, e)
    PROVE  Conforms(Append(x, e), l)
<1>. USE ZenonT(30)
<1>. DEFINE y == Append(x, e)
<1>1. /\ y \in Seq(Entry) /\ Len(y) = Len(x) + 1 /\ y[Len(y)] = e
      /\ \A k \in 1..Len(x) : y[k] = x[k]
  BY SeqAppend, SMTT(30)
<1>2. Len(x) \in Nat /\ DOMAIN x = 1..Len(x) /\ DOMAIN y = 1..Len(y)
  BY <1>1, SeqFields
<1>3. l[e.term] = y  OBVIOUS
<1>. HIDE DEF y
<1>4. ASSUME NEW k \in DOMAIN y  PROVE Agree(y, l[y[k].term], k)
  <2>1. CASE k = Len(y)
    <3>1. k \in Nat /\ k <= k /\ k <= Len(y)  BY <1>1, <1>2, <2>1, SMTT(30)
    <3>2. Agree(y, y, k)  BY <1>1, <3>1, AgreeProperties
    <3>. QED  BY <1>1, <1>3, <2>1, <3>2
  <2>2. CASE k # Len(y)
    <3>1. k \in 1..Len(x) /\ k \in Nat /\ k <= k /\ k <= Len(x) /\ k <= Len(y)
      BY <1>1, <1>2, <1>4, <2>2, SMTT(30)
    <3>2. y[k] = x[k]  BY <1>1, <3>1
    <3>3. Agree(x, l[x[k].term], k)  BY <1>2, <3>1 DEF Conforms
    <3>4. x[k] \in Entry  BY <3>1, SeqElement
    <3>5. x[k].term \in Nat  BY <3>4, SMTT(30) DEF Entry
    <3>. DEFINE z == l[x[k].term]
    <3>6. z \in Seq(Entry) /\ Agree(x, z, k)  BY <3>3, <3>5 DEF LeaderLogs
    <3>. HIDE DEF z
    <3>7. Agree(y, x, k)
      <4>1. \A n \in 1..k : n \in 1..Len(x)  BY <1>2, <3>1, SMTT(30)
      <4>2. \A n \in 1..k : y[n] = x[n]  BY <1>1, <4>1
      <4>. QED  BY <3>1, <4>2 DEF Agree
    <3>8. Agree(y, z, k)  BY <1>1, <3>1, <3>6, <3>7, AgreeProperties
    <3>. QED  BY <3>2, <3>8 DEF z
  <2>. QED  BY <2>1, <2>2
<1>5. Conforms(y, l)  BY <1>4 DEF Conforms
<1>. QED  BY <1>5 DEF y

\* leader_append(): the leader of term t appends an entry of that term, as the
\* first thing it does or later.
LEMMA LeaderAppends ==
    ASSUME NEW b, NEW l, LogInv(b, l), NEW i \in Node, log[i] \in Seq(Entry),
           NEW t \in Nat, NEW e \in Entry, e.term = t, l[t] = <<>> \/ l[t] = log[i],
           role'[i] = Leader, currentTerm'[i] = t, log'[i] = Append(log[i], e),
           disk'[i] = disk[i], disk[i] \in Seq(Entry),
           NEW l2, l2 = [l EXCEPT ![t] = Append(log[i], e)]
    PROVE  Logs(l, l2, i)
<1>. USE ZenonT(30)
<1>. DEFINE x == log[i]
            y == Append(x, e)
<1>1. /\ l \in LeaderLogs /\ Conforms(x, l) /\ Conforms(disk[i], l)
      /\ \A u \in Nat : Conforms(l[u], l)
  BY DEF LogInv
<1>2. /\ y \in Seq(Entry) /\ Len(y) = Len(x) + 1 /\ \A k \in 1..Len(x) : y[k] = x[k]
  BY SeqAppend, SMTT(30)
<1>3. Len(x) \in Nat  BY SeqFields
<1>. HIDE DEF x, y
<1>4. l2 = [l EXCEPT ![t] = y]  BY DEF x, y
<1>5. l2 \in LeaderLogs /\ l2[t] = y /\ \A u \in Nat : u # t => l2[u] = l[u]
  BY <1>1, <1>2, <1>4 DEF LeaderLogs
<1>6. Extends(l, l2)
  <2>. SUFFICES ASSUME NEW u \in Nat  PROVE Agree(l[u], l2[u], Len(l[u]))
    BY DEF Extends
  <2>1. l[u] \in Seq(Entry)  BY <1>1 DEF LeaderLogs
  <2>2. Len(l[u]) \in Nat /\ Len(l[u]) <= Len(l[u])  BY <2>1, SeqFields, SMTT(30)
  <2>3. CASE u # t
    <3>1. Agree(l[u], l[u], Len(l[u]))  BY <2>1, <2>2, AgreeProperties
    <3>. QED  BY <1>5, <2>3, <3>1
  <2>4. CASE u = t /\ l[t] = <<>>
    <3>1. Len(l[u]) = 0 /\ 0 <= 0 /\ 0 <= Len(y) /\ 1..0 = {}  BY <1>2, <1>3, <2>4, SMTT(30)
    <3>2. \A n \in 1..0 : l[u][n] = y[n]  BY <3>1
    <3>3. Agree(l[u], y, 0)  BY <3>1, <3>2 DEF Agree
    <3>. QED  BY <1>5, <2>4, <3>1, <3>3
  <2>5. CASE u = t /\ l[t] = x
    <3>1. Len(x) <= Len(y) /\ Len(x) <= Len(x)  BY <1>2, <1>3, SMTT(30)
    <3>2. Agree(x, y, Len(x))  BY <1>2, <3>1 DEF Agree
    <3>. QED  BY <1>5, <2>5, <3>2
  <2>. QED  BY <2>3, <2>4, <2>5 DEF x
<1>7. Conforms(y, l2)
  <2>1. x \in Seq(Entry)  BY DEF x
  <2>2. Conforms(x, l2)  BY <1>1, <1>5, <1>6, <2>1, ConformsExtends
  <2>3. l2[e.term] = Append(x, e)  BY <1>5 DEF y
  <2>. QED  BY <1>5, <2>1, <2>2, <2>3, AppendConforms DEF y
<1>8. ASSUME NEW u \in Nat  PROVE Conforms(l2[u], l2)
  <2>1. CASE u = t  BY <1>5, <1>7, <2>1
  <2>2. CASE u # t
    <3>1. l[u] \in Seq(Entry)  BY <1>1 DEF LeaderLogs
    <3>2. Conforms(l[u], l2)  BY <1>1, <1>5, <1>6, <3>1, ConformsExtends
    <3>. QED  BY <1>5, <2>2, <3>2
  <2>. QED  BY <2>1, <2>2
<1>9. Conforms(disk'[i], l2)
  <2>1. Conforms(disk[i], l2)  BY <1>1, <1>5, <1>6, ConformsExtends
  <2>. QED  BY <2>1
<1>10. log'[i] = y  BY DEF x, y
<1>. QED  BY <1>5, <1>6, <1>7, <1>8, <1>9, <1>10 DEF Logs

\* The frames pump_peer() sends when the last entry of lg is new.
LEMMA NewEntryFrames ==
    ASSUME NEW x \in Seq(Entry), NEW e \in Entry, NEW t \in Nat, NEW commit \in Nat,
           NEW lg, lg = Append(x, e), NEW frames, frames = PumpFrames(t, lg, Len(lg), commit)
    PROVE  /\ frames \in Seq(Message) /\ Plain(frames)
           /\ \A m : Has(frames, {m}) => CutFrom(m, t, lg)
<1>. USE ZenonT(30)
<1>1. lg \in Seq(Entry) /\ Len(lg) = Len(x) + 1  BY SeqAppend, SMTT(30)
<1>2. Len(x) \in Nat  BY SeqFields
<1>3. Len(lg) \in Nat \ {0} /\ Len(lg) <= Len(lg) + 1 /\ Len(lg) \in 1..(Len(lg) + 1)
  BY <1>1, <1>2, SMTT(30)
<1>4. frames \in Seq(Message)  BY <1>1, <1>3, PumpFramesType
<1>5. \A m : Has(frames, {m}) => CutFrom(m, t, lg)  BY <1>1, <1>3, PumpFramesSlice
<1>6. Plain(frames)  BY <1>5, AppendsPlain DEF CutFrom
<1>. QED  BY <1>4, <1>5, <1>6

\* leader_append(), leader_flush().
LEMMA ProposeExplained ==
    ASSUME MaxFaults = 0, MetaCurrent, NEW b, NEW l, NEW b2, Before(b, l, b2),
           NEW i \in Node, NEW v \in Value, Propose(i, v)
    PROVE  \E l2 : Explained(b2, l2)'
<1>. USE ZenonT(30)
<1>. DEFINE t == currentTerm[i]
            e == [term |-> t, op |-> v]
            lg == Append(log[i], e)
            frames == PumpFrames(t, lg, Len(lg), commitIndex[i])
<1>1. /\ LoopTypeOK /\ LoopTypeOK' /\ VoteKept /\ Explained(b, l) /\ b2 = CastVotes(b)
      /\ chan \in ChannelType /\ t \in Nat /\ log[i] \in Seq(Entry) /\ disk[i] \in Seq(Entry)
      /\ Box(b) /\ LogInv(b, l) /\ LeaderInv(b)
  BY BeforeFields DEF Before, Explained
<1>2. PICK ok \in BOOLEAN :
        /\ Persist(i, <<>>, TRUE, ok)
        /\ log' = [log EXCEPT ![i] = lg]
        /\ IF ok THEN Broadcast(i, frames) /\ UNCHANGED <<role, leaderId, peer>>
                 ELSE StepDown(i) /\ UNCHANGED chan
  BY DEF Propose
<1>3. ok  BY <1>2, NoFault DEF Persist
<1>4. /\ log' = [log EXCEPT ![i] = lg] /\ Broadcast(i, frames) /\ role[i] = Leader
      /\ UNCHANGED <<role, leaderId, currentTerm, votes, disk>>
  BY <1>2, <1>3 DEF Propose, diskVars
<1>5. e \in Entry /\ e.term = t  BY <1>1 DEF Entry
<1>6. commitIndex[i] \in Nat  BY <1>1, NodeFields
<1>. HIDE DEF e
<1>7. /\ frames \in Seq(Message) /\ Plain(frames)
      /\ \A m : Has(frames, {m}) => CutFrom(m, t, lg)
  BY <1>1, <1>5, <1>6, NewEntryFrames
<1>. HIDE DEF frames
<1>8. /\ Others(i) /\ currentTerm'[i] = t /\ role'[i] = Leader /\ leaderId'[i] = leaderId[i]
      /\ log'[i] = Append(log[i], e) /\ disk'[i] = disk[i]
  BY <1>1, <1>4 DEF Others, LoopTypeOK
<1>9. Orderly(b2, i, Node, frames)
  <2>1. Sends(i, Node, frames)  BY <1>1, <1>4, <1>7, BroadcastSends
  <2>2. Node \in SUBSET Node  OBVIOUS
  <2>. QED  BY <1>7, <2>1, <2>2, PlainOrderly
<1>10. AppendsOwn(i, frames)  BY <1>7, <1>8 DEF AppendsOwn, CutFrom
<1>11. Elects(b2, i)
  <2>1. Candidate # Leader  BY SMT DEF Candidate, Leader
  <2>2. Grown(b, b2)  BY <1>1, BoxFills
  <2>3. leaderId[i] \in Node \cup {Nil}  BY <1>1 DEF LoopTypeOK
  <2>4. Won(b, i, t) /\ (leaderId[i] # Nil => Won(b, leaderId[i], t))
    BY <1>1, <1>4 DEF LeaderInv
  <2>5. Won(b2, i, t) /\ (leaderId[i] # Nil => Won(b2, leaderId[i], t))
    BY <1>1, <2>2, <2>3, <2>4, WonGrows
  <2>. QED  BY <1>8, <2>1, <2>5 DEF Elects
<1>12. l[t] = log[i]  BY <1>1, <1>4 DEF LogInv
<1>. HIDE DEF t
<1>13. PICK l2 : l2 = [l EXCEPT ![t] = lg]  OBVIOUS
<1>14. Logs(l, l2, i)  BY <1>13, <1>1, <1>5, <1>8, <1>12, LeaderAppends
<1>15. Explained(b2, l2)'
  BY <1>1, <1>8, <1>9, <1>10, <1>11, <1>14, StepExplained
<1>. QED  BY <1>15

-----------------------------------------------------------------------------
(* The theorems.                                                           *)

SafetyInv == TypeOK /\ MetaCurrent /\ \E b, l : Explained(b, l)

\* Before any election an empty box and empty logs explain the cluster.
LEMMA InitExplained ==
    ASSUME Init
    PROVE  \E b, l : Explained(b, l)
<1>. USE ZenonT(30)
<1>. DEFINE b == [t \in Nat |-> [v \in Node |-> Nil]]
            l == [t \in Nat |-> <<>>]
<1>1. /\ \A i \in Node : role[i] = Follower /\ leaderId[i] = Nil /\ log[i] = <<>> /\ disk[i] = <<>>
      /\ \A i, j \in Node : chan[i][j] = <<>>
  BY DEF Init, Boot
<1>2. Follower # Candidate /\ Follower # Leader  BY SMTT(30) DEF Follower, Candidate, Leader
<1>3. b \in Ballots /\ \A t \in Nat : \A v \in Node : b[t][v] = Nil  BY DEF Ballots
<1>4. \A t \in Nat : l[t] = <<>>  OBVIOUS
<1>5. l \in LeaderLogs
  <2>1. <<>> \in Seq(Entry)  BY SeqEmpty
  <2>. QED  BY <2>1 DEF LeaderLogs
<1>. HIDE DEF b, l
<1>6. Box(b)  BY <1>3 DEF Box
<1>7. \A i, j \in Node : \A M : ~Has(chan[i][j], M) /\ Once(chan[i][j], M)
  BY <1>1, EmptyHas
<1>8. PairInv(b)  BY <1>7 DEF PairInv, PairOK
<1>9. VotesInv(b) /\ LeaderInv(b)  BY <1>1, <1>2 DEF VotesInv, LeaderInv
<1>10. FrameInv(b, l)  BY <1>7 DEF FrameInv
<1>11. Conforms(<<>>, l)
  <2>1. DOMAIN <<>> = {}  BY SMTT(30)
  <2>. QED  BY <2>1 DEF Conforms
<1>12. LogInv(b, l)  BY <1>1, <1>2, <1>4, <1>5, <1>11 DEF LogInv
<1>13. Explained(b, l)  BY <1>6, <1>8, <1>9, <1>10, <1>12 DEF Explained
<1>. QED  BY <1>13

\* Every handler keeps the cluster explained.
LEMMA HandleExplained ==
    ASSUME NEW b, NEW l, NEW b2, Before(b, l, b2), NEW i \in Node, NEW j \in Node \ {i}, Handle(i, j)
    PROVE  \E l2 : Explained(b2, l2)'
\* CL_FRAME_PREVOTE.
<1>. USE ZenonT(30)
<1>handlePreVote. ASSUME HandlePreVote(i, j)  PROVE Explained(b2, l)'
  <2>. USE <1>handlePreVote
  <2>1. LoopTypeOK /\ chan \in ChannelType /\ currentTerm[i] \in Nat  BY BeforeFields
  <2>2. chan[j][i] # <<>> /\ j \in Node /\ i # j  BY DEF HandlePreVote, Received
  <2>3. PICK g \in BOOLEAN :
          ReadAndReply(i, j, <<[type |-> "PREVOTE_RESP", term |-> currentTerm[i], granted |-> g]>>)
    BY DEF HandlePreVote
  <2>. DEFINE m == [type |-> "PREVOTE_RESP", term |-> currentTerm[i], granted |-> g]
  <2>4. m \in Message /\ m.type = "PREVOTE_RESP"  BY <2>1, SMTT(30) DEF Message
  <2>5. ReadAndReply(i, j, <<m>>)  BY <2>3
  <2>. HIDE DEF m
  <2>6. Mute(<<m>>)  BY <2>4, MuteFrame
  <2>7. Sends(i, {j}, <<m>>)
    <3>1. <<m>> \in Seq(Message)  BY <2>4, SMTT(30)
    <3>. QED  BY <2>1, <2>2, <2>5, <3>1, ReplySends
  <2>8. UNCHANGED <<role, currentTerm, votes, log>> /\ disk' = disk /\ leaderId' = leaderId
    BY DEF HandlePreVote, electionVars, logVars, diskVars
  <2>9. {j} \in SUBSET Node  BY <2>2
  <2>. QED  BY <2>6, <2>7, <2>8, <2>9, KeptExplained
\* CL_FRAME_PREVOTE_RESP.
<1>handlePreVoteResp. ASSUME HandlePreVoteResp(i, j)  PROVE Explained(b2, l)'
  <2>. USE <1>handlePreVoteResp
  \* become_candidate(): the term is new, and the candidate's own vote counts.
  <2>candidate. ASSUME chan[j][i] # <<>>, BecomeCandidate(i, j), UNCHANGED <<log, disk>>
        PROVE  Explained(b2, l)'
    <3>. USE <2>candidate
    <3>. DEFINE t == currentTerm[i] + 1
                m == VoteRequest(i, "VOTE_REQ", t)
    <3>1. /\ LoopTypeOK /\ LoopTypeOK' /\ VoteKept /\ Explained(b, l) /\ b2 = CastVotes(b)
          /\ chan \in ChannelType /\ currentTerm[i] \in Nat /\ Conforms(log[i], l)
          /\ Conforms(disk[i], l) /\ Box(b) /\ LogInv(b, l) /\ j \in Node /\ i # j
      BY BeforeFields DEF Before, Explained
    <3>2. t \in Nat /\ t > currentTerm[i] /\ t <= t /\ t # currentTerm[i]  BY <3>1, SMTT(30)
    <3>3. /\ currentTerm' = [currentTerm EXCEPT ![i] = t]
          /\ votedFor' = [votedFor EXCEPT ![i] = i]
          /\ role' = [role EXCEPT ![i] = Candidate]
          /\ leaderId' = [leaderId EXCEPT ![i] = Nil]
          /\ votes' = [votes EXCEPT ![i] = 1]
          /\ ReadAndBroadcast(i, j, <<m>>)
      BY DEF BecomeCandidate
    <3>4. m \in Message /\ m.type = "VOTE_REQ" /\ m.term = t
      <4>1. m \in Message  BY <3>1, <3>2, VoteRequestType
      <4>. QED  BY <4>1 DEF VoteRequest
    <3>. HIDE DEF t, m
    <3>5. /\ Others(i) /\ currentTerm'[i] = t /\ votedFor'[i] = i /\ role'[i] = Candidate
          /\ leaderId'[i] = Nil /\ votes'[i] = 1
      BY <3>1, <3>3 DEF Others, LoopTypeOK
    <3>6. Orderly(b2, i, Node, <<m>>)
      <4>1. <<m>> \in Seq(Message)  BY <3>4, SMTT(30)
      <4>2. Sends(i, Node, <<m>>)  BY <3>1, <3>3, <4>1, ReadAndBroadcastSends
      <4>3. \A u \in Nat : Once(<<m>>, Ask(u)) /\ Once(<<m>>, Grant(u))  BY SingleHas
      <4>4. \A u \in Nat : Has(<<m>>, Ask(u)) => u = t  BY <3>4, SingleHas DEF Ask
      <4>5. m.type # "VOTE_RESP"  BY <3>4, SMTT(30)
      <4>6. \A u \in Nat : ~Has(<<m>>, Grant(u))  BY <4>5, SingleHas DEF Grant
      <4>. QED  BY <3>2, <3>5, <4>2, <4>3, <4>4, <4>6 DEF Orderly
    <3>7. AppendsOwn(i, <<m>>)
      <4>1. m.type # "APPEND"  BY <3>4, SMTT(30)
      <4>2. \A x : Has(<<m>>, {x}) => m \in {x}  BY SingleHas
      <4>. QED  BY <4>1, <4>2 DEF AppendsOwn
    <3>8. votes'[i] <= Cardinality(Counted(b2, i)')
      <4>1. b2[t][i] = i  BY <3>1, <3>5, BoxFills, NodeAssumption
      <4>. DEFINE S == Counted(b2, i)'
      <4>2. i \in S /\ S \in SUBSET Node  BY <3>5, <4>1 DEF Counted
      <4>. HIDE DEF S
      <4>3. IsFiniteSet(S)  BY <4>2, NodeAssumption, FS_Subset
      <4>4. Cardinality(S) # 0 /\ Cardinality(S) \in Nat
        BY <4>2, <4>3, FS_EmptySet, FS_CardinalityType
      <4>5. 1 <= Cardinality(S)  BY <4>4, SMTT(30)
      <4>. QED  BY <3>5, <4>5 DEF S
    <3>9. Candidate # Leader  BY SMTT(30) DEF Candidate, Leader
    <3>10. Elects(b2, i)  BY <3>2, <3>5, <3>8, <3>9 DEF Elects
    <3>11. Logs(l, l, i)  BY <3>1, <3>5, <3>9, LogsSame
    <3>. QED  BY <3>1, <3>5, <3>6, <3>7, <3>10, <3>11, StepExplained
  <2>1. chan[j][i] # <<>> /\ UNCHANGED <<log, disk>>
    BY DEF HandlePreVoteResp, Received, logVars, diskVars
  <2>2. CASE BecomeCandidate(i, j)  BY <2>1, <2>2, <2>candidate
  <2>3. CASE ReadAndReply(i, j, <<>>) /\ UNCHANGED <<role, currentTerm, leaderId, votes>>
    <3>1. chan \in ChannelType  BY BeforeFields
    <3>2. Sends(i, {j}, <<>>) /\ Mute(<<>>) /\ {j} \in SUBSET Node
      BY <2>1, <2>3, <3>1, OnlyRead
    <3>. QED  BY <2>1, <2>3, <3>2, KeptExplained
  <2>. QED  BY <2>2, <2>3 DEF HandlePreVoteResp
\* CL_FRAME_VOTE_REQ.
<1>handleVoteReq. ASSUME HandleVoteReq(i, j)  PROVE Explained(b2, l)'
  <2>. USE <1>handleVoteReq
  \* CL_FRAME_VOTE_REQ that is granted: the request is consumed and the vote is
  \* in the box.
  <2>granting. ASSUME votedFor'[i] = j, NEW t, t = Head(chan[j][i]).term, currentTerm'[i] = t,
               Received(i, j, "VOTE_REQ"), NEW resp, resp = [type |-> "VOTE_RESP", term |-> t, granted |-> TRUE],
               ReadAndReply(i, j, <<resp>>)
        PROVE  Orderly(b2, i, {j}, <<resp>>) /\ AppendsOwn(i, <<resp>>)
    <3>. USE <2>granting
    <3>1. /\ LoopTypeOK /\ LoopTypeOK' /\ VoteKept /\ b2 = CastVotes(b) /\ Box(b) /\ PairInv(b)
          /\ chan \in ChannelType /\ j \in Node /\ i # j /\ {j} \subseteq Node
      BY BeforeFields DEF Before, Explained
    <3>2. /\ chan[j][i] # <<>> /\ Head(chan[j][i]).type = "VOTE_REQ" /\ chan[j][i] \in Seq(Message)
      BY <3>1 DEF Received, ChannelType
    <3>3. Head(chan[j][i]) \in Message /\ t \in Nat
      BY <3>1, <3>2, ReceivedFrame, FrameFields
    <3>4. resp \in Message /\ resp.type = "VOTE_RESP" /\ resp.term = t  BY <3>3, SMTT(30) DEF Message
    <3>5. Sends(i, {j}, <<resp>>) /\ chan'[j][i] = Tail(chan[j][i])
      <4>1. <<resp>> \in Seq(Message)  BY <3>4, SMTT(30)
      <4>. QED  BY <3>1, <3>2, <4>1, ReplySends
    <3>6. Head(chan[j][i]) \in Ask(t)  BY <3>2, <3>3 DEF Ask
    <3>7. Has(chan[j][i], Ask(t))  BY <3>2, <3>6, HeadIn
    <3>8. Once(chan[j][i], Ask(t))  BY <3>1, <3>3 DEF PairInv, PairOK
    <3>9. ~Has(chan'[j][i], Ask(t))  BY <3>2, <3>5, <3>6, <3>8, TailHas
    <3>10. b2[t][i] = j  BY <3>1, BoxFills, NodeAssumption, ZenonT(60)
    <3>11. \A u \in Nat : Once(<<resp>>, Ask(u)) /\ Once(<<resp>>, Grant(u))
      BY SingleHas
    <3>12. \A u \in Nat : Has(<<resp>>, Grant(u)) => u = t  BY <3>4, SingleHas DEF Grant
    <3>13. resp.type # "VOTE_REQ" /\ resp.type # "APPEND"  BY SMT, <3>4
    <3>14. \A u \in Nat : ~Has(<<resp>>, Ask(u))  BY <3>13, SingleHas DEF Ask
    <3>15. \A x : Has(<<resp>>, {x}) => resp \in {x}  BY SingleHas
    <3>16. AppendsOwn(i, <<resp>>)  BY <3>13, <3>15 DEF AppendsOwn
    <3>17. \A u \in Nat : Has(<<resp>>, Grant(u)) => \A c \in {j} :
              c # i => Has(chan[c][i], Ask(u)) /\ ~Has(chan'[c][i], Ask(u)) /\ b2[u][i] = c
      BY <3>7, <3>9, <3>10, <3>12
    <3>. QED  BY <3>1, <3>5, <3>11, <3>14, <3>16, <3>17 DEF Orderly
  <2>. DEFINE m == Head(chan[j][i])
              t == m.term
              vote == IF t > currentTerm[i] THEN Nil ELSE votedFor[i]
              grant == /\ t >= currentTerm[i]
                       /\ LogIsCurrent(log[i], m.last, m.lastTerm)
                       /\ vote \in {Nil, j}
              resp == [type |-> "VOTE_RESP", term |-> currentTerm'[i], granted |-> grant]
  <2>1. /\ LoopTypeOK /\ LoopTypeOK' /\ chan \in ChannelType /\ Conforms(log[i], l)
        /\ Conforms(disk[i], l) /\ currentTerm[i] \in Nat /\ currentTerm'[i] \in Nat
        /\ j \in Node /\ i # j /\ {j} \in SUBSET Node
    BY BeforeFields
  <2>2. /\ Received(i, j, "VOTE_REQ") /\ chan[j][i] # <<>> /\ ObserveTerm(i, t)
        /\ votedFor' = [votedFor EXCEPT ![i] = IF grant THEN j ELSE vote]
        /\ ReadAndReply(i, j, <<resp>>) /\ log' = log /\ disk' = disk
    BY DEF HandleVoteReq, Received, logVars, diskVars
  <2>3. t \in Nat  BY <2>1, <2>2, ReceivedFrame, FrameFields
  <2>4. grant => t >= currentTerm[i]  OBVIOUS
  <2>5. grant \in BOOLEAN  OBVIOUS
  <2>6. grant => votedFor'[i] = j  BY <2>1, <2>2 DEF LoopTypeOK
  <2>. HIDE DEF grant, vote
  <2>7. CASE ~grant
    <3>0. resp = [type |-> "VOTE_RESP", term |-> currentTerm'[i], granted |-> FALSE]
      BY <2>5, <2>7
    <3>. HIDE DEF resp
    <3>1. resp \in Message /\ resp.type = "VOTE_RESP" /\ ~resp.granted
      <4>1. currentTerm'[i] \in Nat  BY <2>1
      <4>. QED  BY <3>0, <4>1, SMTT(30) DEF Message
    <3>2. <<resp>> \in Seq(Message)  BY <3>1, SMTT(30)
    <3>3. Mute(<<resp>>)  BY <3>1, MuteFrame
    <3>4. Sends(i, {j}, <<resp>>)  BY <2>1, <2>2, <3>2, ReplySends
    <3>5. CASE t > currentTerm[i]
      <4>1. /\ currentTerm' = [currentTerm EXCEPT ![i] = t]
            /\ role' = [role EXCEPT ![i] = Follower]
            /\ leaderId' = [leaderId EXCEPT ![i] = Nil]
            /\ votes' = [votes EXCEPT ![i] = 0]
        BY <2>2, <3>5 DEF ObserveTerm
      <4>2. Others(i) /\ role'[i] = Follower /\ leaderId'[i] = Nil
        BY <2>1, <2>2, <4>1 DEF Others, LoopTypeOK
      <4>. QED  BY <2>1, <2>2, <3>3, <3>4, <4>2, FollowerExplained
    <3>6. CASE ~(t > currentTerm[i])
      <4>1. UNCHANGED <<role, currentTerm, votes, log>> /\ leaderId' = leaderId
        BY <2>2, <3>6 DEF ObserveTerm
      <4>. QED  BY <2>1, <2>2, <3>3, <3>4, <4>1, KeptExplained
    <3>. QED  BY <3>5, <3>6
  <2>8. CASE grant
    <3>1. currentTerm'[i] = t /\ Others(i) /\ CalmAt(b, l, i)
      <4>1. CASE t > currentTerm[i]
        <5>1. /\ currentTerm' = [currentTerm EXCEPT ![i] = t]
              /\ role' = [role EXCEPT ![i] = Follower]
              /\ leaderId' = [leaderId EXCEPT ![i] = Nil]
              /\ votes' = [votes EXCEPT ![i] = 0]
          BY <2>2, <4>1 DEF ObserveTerm
        <5>2. Others(i) /\ role'[i] = Follower /\ leaderId'[i] = Nil /\ currentTerm'[i] = t
          BY <2>1, <2>2, <5>1 DEF Others, LoopTypeOK
        <5>3. Follower # Candidate /\ Follower # Leader  BY SMT DEF Follower, Candidate, Leader
        <5>. QED  BY <2>1, <2>2, <5>2, <5>3 DEF CalmAt
      <4>2. CASE ~(t > currentTerm[i])
        <5>1. UNCHANGED <<role, currentTerm, votes, log>> /\ leaderId' = leaderId
          BY <2>2, <4>2 DEF ObserveTerm
        <5>2. t = currentTerm[i]  BY <2>1, <2>3, <2>4, <2>8, <4>2, SMTT(30)
        <5>. QED  BY <2>1, <2>2, <5>1, <5>2 DEF Others, CalmAt
      <4>. QED  BY <4>1, <4>2
    <3>2. resp = [type |-> "VOTE_RESP", term |-> t, granted |-> TRUE]
      BY <2>5, <2>8, <3>1
    <3>. HIDE DEF resp
    <3>3. Orderly(b2, i, {j}, <<resp>>) /\ AppendsOwn(i, <<resp>>)
      BY <2>2, <2>6, <2>8, <3>1, <3>2, <2>granting
    <3>. QED  BY <3>1, <3>3, CalmExplained
  <2>. QED  BY <2>7, <2>8
\* observe_term() on an answer of a newer term.
<1>handleNewerResp. ASSUME HandleNewerResp(i, j)  PROVE Explained(b2, l)'
  <2>. USE <1>handleNewerResp
  <2>1. /\ LoopTypeOK /\ chan \in ChannelType /\ Conforms(log[i], l) /\ Conforms(disk[i], l)
    BY BeforeFields
  <2>2. chan[j][i] # <<>> /\ ReadAndReply(i, j, <<>>)  BY DEF HandleNewerResp, Received
  <2>3. Sends(i, {j}, <<>>) /\ Mute(<<>>) /\ {j} \in SUBSET Node
    BY <2>1, <2>2, OnlyRead
  <2>4. PICK t : /\ currentTerm' = [currentTerm EXCEPT ![i] = t]
                 /\ role' = [role EXCEPT ![i] = Follower]
                 /\ leaderId' = [leaderId EXCEPT ![i] = Nil]
                 /\ votes' = [votes EXCEPT ![i] = 0]
    BY DEF HandleNewerResp, ObserveTerm
  <2>5. log' = log /\ disk' = disk  BY DEF HandleNewerResp, logVars, diskVars
  <2>6. Others(i) /\ role'[i] = Follower /\ leaderId'[i] = Nil
    BY <2>1, <2>4, <2>5 DEF Others, LoopTypeOK
  <2>. QED  BY <2>1, <2>3, <2>5, <2>6, FollowerExplained
\* CL_FRAME_APPEND of a stale leader.
<1>rejectStaleAppend. ASSUME RejectStaleAppend(i, j)  PROVE Explained(b2, l)'
  <2>. USE <1>rejectStaleAppend
  <2>1. LoopTypeOK /\ chan \in ChannelType  BY BeforeFields
  <2>2. chan[j][i] # <<>> /\ j \in Node /\ i # j  BY DEF RejectStaleAppend, Received
  <2>. DEFINE m == AppendResp(currentTerm[i], FALSE, Len(log[i]), durableIndex[i])
  <2>3. <<m>> \in Seq(Message)  BY <2>1, NodeFields, AppendRespType
  <2>4. m.type = "APPEND_RESP"  BY DEF AppendResp
  <2>5. ReadAndReply(i, j, <<m>>)  BY DEF RejectStaleAppend
  <2>. HIDE DEF m
  <2>6. Mute(<<m>>)  BY <2>4, MuteFrame
  <2>7. Sends(i, {j}, <<m>>)  BY <2>1, <2>2, <2>3, <2>5, ReplySends
  <2>8. UNCHANGED <<role, currentTerm, votes, log>> /\ disk' = disk /\ leaderId' = leaderId
    BY DEF RejectStaleAppend, electionVars, logVars, diskVars
  <2>9. {j} \in SUBSET Node  BY <2>2
  <2>. QED  BY <2>6, <2>7, <2>8, <2>9, KeptExplained
\* CL_FRAME_APPEND that does not match.
<1>rejectAppend. ASSUME RejectAppend(i, j)  PROVE Explained(b2, l)'
  <2>. USE <1>rejectAppend
  <2>. DEFINE m == Head(chan[j][i])
              hint == IF m.prev > Len(log[i]) THEN Len(log[i]) ELSE m.prev - 1
              resp == AppendResp(m.term, FALSE, hint, durableIndex[i])
  <2>1. /\ LoopTypeOK /\ chan \in ChannelType /\ Conforms(log[i], l) /\ Conforms(disk[i], l)
        /\ j \in Node /\ i # j /\ {j} \in SUBSET Node
    BY BeforeFields
  <2>2. /\ Received(i, j, "APPEND") /\ chan[j][i] # <<>> /\ ~Matches(i, m)
        /\ FollowLeader(i, j, m.term) /\ ReadAndReply(i, j, <<resp>>)
        /\ log' = log /\ disk' = disk
    BY DEF RejectAppend, Received, logVars, diskVars
  <2>3. m \in Message /\ m.type = "APPEND" /\ Won(b, j, m.term)
    BY <2>1, <2>2, ReadFromWinner
  <2>4. m.term \in Nat /\ m.prev \in Nat  BY <2>3, FrameFields
  <2>5. m.prev <= Len(log[i]) => m.prev > 0  BY <2>2 DEF Matches
  <2>. HIDE DEF m
  <2>6. hint \in Nat
    <3>1. Len(log[i]) \in Nat  BY <2>1, NodeFields
    <3>. QED  BY <2>4, <2>5, <3>1, SMTT(30)
  <2>. HIDE DEF hint
  <2>7. <<resp>> \in Seq(Message)  BY <2>1, <2>4, <2>6, NodeFields, AppendRespType
  <2>8. Mute(<<resp>>)
    <3>1. resp.type = "APPEND_RESP"  BY DEF AppendResp
    <3>. HIDE DEF resp
    <3>. QED  BY <3>1, MuteFrame
  <2>. HIDE DEF resp
  <2>9. Sends(i, {j}, <<resp>>)  BY <2>1, <2>2, <2>7, ReplySends
  <2>10. /\ Others(i) /\ role'[i] = Follower /\ leaderId'[i] = j /\ currentTerm'[i] = m.term
         /\ disk'[i] = disk[i] /\ log'[i] = log[i]
    <3>1. log' = [log EXCEPT ![i] = log[i]] \/ log' = log  BY <2>2
    <3>. QED  BY <2>1, <2>2, <3>1, FollowLeaderShape, ZenonT(60)
  <2>. QED  BY <2>1, <2>3, <2>8, <2>9, <2>10, FollowerExplained
\* CL_FRAME_APPEND that matches: the new log is a prefix of the sender's.
<1>acceptAppend. ASSUME AcceptAppend(i, j)  PROVE Explained(b2, l)'
  <2>. USE <1>acceptAppend
  <2>. DEFINE m == Head(chan[j][i])
              lg == SubSeq(log[i], 1, m.prev) \o m.entries
              resp == AppendResp(m.term, ~storageFailed'[i], Len(lg), durableIndex[i])
  <2>1. /\ LoopTypeOK /\ LoopTypeOK' /\ chan \in ChannelType /\ log[i] \in Seq(Entry)
        /\ Conforms(log[i], l) /\ Conforms(disk[i], l) /\ l \in LeaderLogs
        /\ j \in Node /\ i # j /\ {j} \in SUBSET Node
    BY BeforeFields
  <2>2. /\ Received(i, j, "APPEND") /\ chan[j][i] # <<>> /\ Matches(i, m)
        /\ FollowLeader(i, j, m.term) /\ log' = [log EXCEPT ![i] = lg] /\ disk' = disk
        /\ ReadAndReply(i, j, <<resp>>)
    BY DEF AcceptAppend, Received
  <2>3. /\ m \in Message /\ m.type = "APPEND" /\ Won(b, j, m.term)
        /\ SliceOf(m, l[m.term])
    BY <2>1, <2>2, ReadFromWinner
  <2>4. m.term \in Nat  BY <2>3, FrameFields
  <2>5. l[m.term] \in Seq(Entry) /\ Conforms(l[m.term], l)
    BY <2>4 DEF Before, Explained, LogInv, LeaderLogs
  <2>6. lg \in Seq(Entry) /\ Agree(lg, l[m.term], Len(lg))
    <3>1. m.prev <= Len(log[i]) /\ (m.prev > 0 => LogTermAt(log[i], m.prev) = m.prevTerm)
      BY <2>2 DEF Matches
    <3>. HIDE DEF m
    <3>. QED  BY <2>1, <2>3, <2>5, <3>1, AcceptedAgrees
  <2>. HIDE DEF m, lg
  <2>7. Conforms(lg, l)  BY <2>1, <2>5, <2>6, ConformsPrefix
  <2>8. <<resp>> \in Seq(Message)
    <3>1. Len(lg) \in Nat  BY <2>6, SeqFields
    <3>2. storageFailed' \in [Node -> BOOLEAN]  BY <2>1 DEF LoopTypeOK
    <3>. QED  BY <2>1, <2>4, <3>1, <3>2, NodeFields, AppendRespType
  <2>9. Mute(<<resp>>)
    <3>1. resp.type = "APPEND_RESP"  BY DEF AppendResp
    <3>. HIDE DEF resp
    <3>. QED  BY <3>1, MuteFrame
  <2>. HIDE DEF resp
  <2>10. Sends(i, {j}, <<resp>>)  BY <2>1, <2>2, <2>8, ReplySends
  <2>11. /\ Others(i) /\ role'[i] = Follower /\ leaderId'[i] = j /\ currentTerm'[i] = m.term
         /\ disk'[i] = disk[i] /\ log'[i] \in {lg, log[i]}
    BY <2>1, <2>2, FollowLeaderShape
  <2>12. Conforms(log'[i], l)  BY <2>1, <2>7, <2>11
  <2>. QED  BY <2>1, <2>3, <2>9, <2>10, <2>11, <2>12, FollowerExplained
\* CL_FRAME_APPEND_RESP.
<1>handleAppendResp. ASSUME HandleAppendResp(i, j)  PROVE Explained(b2, l)'
  <2>. USE <1>handleAppendResp
  <2>1. LoopTypeOK /\ chan \in ChannelType /\ j \in Node /\ i # j /\ {j} \in SUBSET Node
    BY BeforeFields
  <2>2. /\ chan[j][i] # <<>> /\ Head(chan[j][i]).type = "APPEND_RESP"
        /\ UNCHANGED <<role, currentTerm, votes, leaderId, log, disk>>
    BY DEF HandleAppendResp, Received, electionVars, diskVars
  <2>3. CASE ReadAndReply(i, j, <<>>)
    <3>1. Sends(i, {j}, <<>>) /\ Mute(<<>>)  BY <2>1, <2>2, <2>3, OnlyRead
    <3>. QED  BY <2>1, <2>2, <3>1, KeptExplained
  <2>. DEFINE hint == Head(chan[j][i]).hint
              from == Lesser(hint, Len(log[i])) + 1
              frames == PumpFrames(currentTerm[i], log[i], from, commitIndex[i])
  <2>4. CASE role[i] = Leader /\ ReadAndReply(i, j, frames)
    <3>1. hint \in Nat  BY <2>1, <2>2, ReceivedFrame, FrameFields
    <3>2. /\ log[i] \in Seq(Entry) /\ currentTerm[i] \in Nat /\ commitIndex[i] \in Nat
          /\ Len(log[i]) \in Nat
      BY <2>1, NodeFields
    <3>. HIDE DEF hint
    <3>3. from \in Nat \ {0} /\ from <= Len(log[i]) + 1 /\ from \in 1..(Len(log[i]) + 1)
      BY <3>1, <3>2, SMTT(30) DEF Lesser
    <3>. HIDE DEF from
    <3>4. frames \in Seq(Message)  BY <3>2, <3>3, PumpFramesType
    <3>5. \A x : Has(frames, {x}) => CutFrom(x, currentTerm[i], log[i])
      BY <3>2, <3>3, PumpFramesSlice
    <3>. HIDE DEF frames
    <3>6. Sends(i, {j}, frames)  BY <2>1, <2>2, <2>4, <3>4, ReplySends
    <3>. QED  BY <2>1, <2>2, <2>4, <3>5, <3>6, LeaderSendsExplained
  <2>5. ReadAndReply(i, j, <<>>) \/ (role[i] = Leader /\ ReadAndReply(i, j, frames))
    BY DEF HandleAppendResp
  <2>. QED  BY <2>3, <2>4, <2>5
\* peer_on_link_up() at both ends.
<1>linkReset. ASSUME LinkReset(i, j)  PROVE Explained(b2, l)'
  <2>. USE <1>linkReset
  <2>1. LoopTypeOK /\ chan \in ChannelType /\ j \in Node /\ i # j  BY BeforeFields
  <2>2. UNCHANGED <<role, currentTerm, votes, log>> /\ leaderId' = leaderId /\ disk' = disk
    BY DEF LinkReset, electionVars, logVars, diskVars
  <2>3. \A a, c \in Node : chan'[a][c] = chan[a][c] \/ chan'[a][c] = <<>>
    <3>. DEFINE half == [chan EXCEPT ![i][j] = <<>>]
    <3>1. DOMAIN chan = Node /\ \A a \in Node : DOMAIN chan[a] = Node
      BY <2>1 DEF ChannelType
    <3>2. \A a, c \in Node : half[a][c] = chan[a][c] \/ half[a][c] = <<>>
      BY <2>1, <3>1
    <3>3. DOMAIN half = Node /\ \A a \in Node : DOMAIN half[a] = Node  BY <2>1, <3>1
    <3>4. chan' = [half EXCEPT ![j][i] = <<>>]  BY DEF LinkReset, Disconnect
    <3>. HIDE DEF half
    <3>5. \A a, c \in Node : chan'[a][c] = half[a][c] \/ chan'[a][c] = <<>>
      BY <2>1, <3>3, <3>4
    <3>. QED  BY <3>2, <3>5
  <2>4. Sends(i, {}, <<>>) /\ Mute(<<>>) /\ {} \in SUBSET Node
    BY <2>1, <2>3, NothingSent
  <2>. QED  BY <2>2, <2>4, KeptExplained
\* CL_FRAME_VOTE_RESP.
<1>handleVoteResp. ASSUME HandleVoteResp(i, j)  PROVE \E l2 : Explained(b2, l2)'
  <2>. USE <1>handleVoteResp
  \* A vote that is counted and does not complete a majority.
  <2>counted. ASSUME Received(i, j, "VOTE_RESP"), Head(chan[j][i]).term = currentTerm[i],
               Head(chan[j][i]).granted, role[i] = Candidate,
               ReadAndReply(i, j, <<>>), votes' = [votes EXCEPT ![i] = @ + 1],
               UNCHANGED <<role, currentTerm, leaderId, log, disk>>
        PROVE  Explained(b2, l)'
    <3>. USE <2>counted
    <3>1. /\ LoopTypeOK /\ LoopTypeOK' /\ VoteKept /\ Explained(b, l) /\ b2 = CastVotes(b)
          /\ chan \in ChannelType /\ currentTerm[i] \in Nat /\ Conforms(log[i], l)
          /\ Conforms(disk[i], l) /\ Box(b) /\ LogInv(b, l) /\ LeaderInv(b)
      BY BeforeFields DEF Before, Explained
    <3>2. chan[j][i] # <<>>  BY DEF Received
    <3>3. /\ Sends(i, {j}, <<>>) /\ Mute(<<>>) /\ {j} \in SUBSET Node
          /\ chan'[j][i] = Tail(chan[j][i])
      BY <3>1, <3>2, OnlyRead
    <3>4. Orderly(b2, i, {j}, <<>>)  BY <3>3, PlainOrderly DEF Mute
    <3>5. AppendsOwn(i, <<>>)  BY EmptyHas DEF AppendsOwn
    <3>6. Others(i) /\ votes'[i] = votes[i] + 1  BY <3>1 DEF Others, LoopTypeOK
    <3>7. votes'[i] <= Cardinality(Counted(b2, i)')
      BY <3>3, <3>4, <3>6, VoteCounted
    <3>8. Candidate # Leader  BY SMT DEF Candidate, Leader
    <3>9. leaderId'[i] # Nil => Won(b2, leaderId'[i], currentTerm'[i])
      <4>1. Grown(b, b2)  BY <3>1, BoxFills
      <4>2. leaderId[i] \in Node \cup {Nil}  BY <3>1 DEF LoopTypeOK
      <4>. QED  BY <3>1, <4>1, <4>2, WonGrows DEF LeaderInv
    <3>10. Elects(b2, i)  BY <3>7, <3>8, <3>9 DEF Elects
    <3>11. Logs(l, l, i)  BY <3>1, <3>8, LogsSame
    <3>. QED  BY <3>1, <3>4, <3>5, <3>6, <3>10, <3>11, StepExplained
  \* become_leader(): the majority is in the box, and no leader of the term came
  \* before, so the log of the term begins with the no-op.
  <2>leads. ASSUME Received(i, j, "VOTE_RESP"), Head(chan[j][i]).term = currentTerm[i],
               Head(chan[j][i]).granted, role[i] = Candidate,
               votes[i] + 1 >= QuorumSize, BecomeLeader(i, j), UNCHANGED <<currentTerm, disk>>
        PROVE  \E l2 : Explained(b2, l2)'
    <3>. USE <2>leads
    <3>. DEFINE t == currentTerm[i]
                e == [term |-> t, op |-> NoOp]
                lg == Append(log[i], e)
                frames == PumpFrames(t, lg, Len(lg), commitIndex[i])
    <3>1. /\ LoopTypeOK /\ LoopTypeOK' /\ VoteKept /\ Explained(b, l) /\ b2 = CastVotes(b)
          /\ chan \in ChannelType /\ t \in Nat /\ log[i] \in Seq(Entry) /\ disk[i] \in Seq(Entry)
          /\ Box(b) /\ LogInv(b, l) /\ j \in Node /\ i # j
      BY BeforeFields DEF Before, Explained
    <3>2. /\ role' = [role EXCEPT ![i] = Leader]
          /\ leaderId' = [leaderId EXCEPT ![i] = i]
          /\ votes' = [votes EXCEPT ![i] = 0]
          /\ log' = [log EXCEPT ![i] = lg]
          /\ ReadAndBroadcast(i, j, frames)
      BY DEF BecomeLeader
    <3>3. e \in Entry /\ e.term = t  BY <3>1 DEF Entry
    <3>4. commitIndex[i] \in Nat /\ chan[j][i] # <<>>  BY <3>1, NodeFields DEF Received
    <3>. HIDE DEF e
    <3>5. /\ frames \in Seq(Message) /\ Plain(frames)
          /\ \A m : Has(frames, {m}) => CutFrom(m, t, lg)
      BY <3>1, <3>3, <3>4, NewEntryFrames
    <3>. HIDE DEF frames
    <3>6. /\ Others(i) /\ currentTerm'[i] = t /\ role'[i] = Leader /\ leaderId'[i] = i
          /\ log'[i] = Append(log[i], e) /\ disk'[i] = disk[i]
      BY <3>1, <3>2, ZenonT(60) DEF Others, LoopTypeOK
    <3>7. Orderly(b2, i, Node, frames) /\ chan'[j][i] = Tail(chan[j][i])
      <4>1. Sends(i, Node, frames) /\ chan'[j][i] = Tail(chan[j][i])
        BY <3>1, <3>2, <3>4, <3>5, ReadAndBroadcastSends
      <4>2. Node \in SUBSET Node  OBVIOUS
      <4>. QED  BY <3>5, <4>1, <4>2, PlainOrderly
    <3>8. AppendsOwn(i, frames)  BY <3>5, <3>6 DEF AppendsOwn, CutFrom
    <3>9. Won(b2, i, t)
      <4>. DEFINE S == Counted(b2, i)'
                  T == {v \in Node : b2[t][v] = i}
      <4>1. votes[i] + 1 <= Cardinality(S) /\ IsFiniteSet(S)  BY <3>7, VoteCounted
      <4>2. S \in SUBSET T /\ T \in SUBSET Node  BY <3>6 DEF Counted
      <4>3. votes[i] \in Nat  BY <3>1 DEF LoopTypeOK
      <4>. HIDE DEF S, T
      <4>4. IsFiniteSet(T)  BY <4>2, NodeAssumption, FS_Subset
      <4>5. Cardinality(S) <= Cardinality(T)  BY <4>2, <4>4, FS_Subset
      <4>6. Cardinality(S) \in Nat /\ Cardinality(T) \in Nat /\ Cardinality(Node) \in Nat
        BY <4>1, <4>4, NodeAssumption, FS_CardinalityType
      <4>7. Cardinality(T) >= QuorumSize  BY <4>1, <4>3, <4>5, <4>6, SMTT(30) DEF QuorumSize
      <4>. QED  BY <4>7 DEF Won, T
    <3>10. Candidate # Leader  BY SMTT(30) DEF Candidate, Leader
    <3>11. Elects(b2, i)  BY <3>6, <3>9, <3>10 DEF Elects
    <3>12. l[t] = <<>>
      <4>1. SUFFICES ASSUME l[t] # <<>>  PROVE FALSE
        BY SMTT(30)
      <4>2. PICK c \in Node : Won(b, c, t) /\ Past(c, t)  BY <3>1, <4>1 DEF LogInv
      <4>3. Grown(b, b2)  BY <3>1, BoxFills
      <4>4. Won(b2, c, t)  BY <3>1, <4>2, <4>3, WonGrows
      <4>5. c = i  BY <3>9, <4>4, OneWinner
      <4>6. ~(t < currentTerm[i])  BY <3>1, SMTT(30)
      <4>. QED  BY <4>2, <4>5, <4>6 DEF Past
    <3>. HIDE DEF t
    <3>13. PICK l2 : l2 = [l EXCEPT ![t] = lg]  OBVIOUS
    <3>14. Logs(l, l2, i)  BY <3>13, <3>1, <3>3, <3>6, <3>12, LeaderAppends
    <3>15. Explained(b2, l2)'
      BY <3>1, <3>6, <3>7, <3>8, <3>11, <3>14, StepExplained
    <3>. QED  BY <3>15
  <2>. DEFINE m == Head(chan[j][i])
              counts == role[i] = Candidate /\ m.term = currentTerm[i] /\ m.granted
  <2>1. /\ Received(i, j, "VOTE_RESP") /\ chan[j][i] # <<>> /\ UNCHANGED <<currentTerm, disk>>
    BY DEF HandleVoteResp, Received, diskVars
  <2>2. CASE counts /\ votes[i] + 1 >= QuorumSize /\ BecomeLeader(i, j)
    BY <2>1, <2>2, <2>leads
  <2>3. CASE /\ votes' = [votes EXCEPT ![i] = IF counts THEN @ + 1 ELSE @]
             /\ ReadAndReply(i, j, <<>>) /\ UNCHANGED <<role, leaderId, log>>
    <3>1. CASE counts
      <4>1. votes' = [votes EXCEPT ![i] = @ + 1]  BY <2>3, <3>1
      <4>2. Explained(b2, l)'  BY <2>1, <2>3, <3>1, <4>1, <2>counted
      <4>. QED  BY <4>2
    <3>2. CASE ~counts
      <4>1. LoopTypeOK /\ chan \in ChannelType  BY BeforeFields
      <4>2. votes' = [votes EXCEPT ![i] = votes[i]]  BY <2>3, <3>2
      <4>3. votes' = votes  BY <4>1, <4>2 DEF LoopTypeOK
      <4>4. Sends(i, {j}, <<>>) /\ Mute(<<>>) /\ {j} \in SUBSET Node
        BY <2>1, <2>3, <4>1, OnlyRead
      <4>5. Explained(b2, l)'  BY <2>1, <2>3, <4>3, <4>4, KeptExplained
      <4>. QED  BY <4>5
    <3>. QED  BY <3>1, <3>2
  <2>. QED  BY <2>2, <2>3 DEF HandleVoteResp
<1>1. CASE HandleVoteResp(i, j)  BY <1>1, <1>handleVoteResp
<1>2. CASE ~HandleVoteResp(i, j)
  <2>1. Explained(b2, l)'
    BY <1>2, <1>handlePreVote, <1>handlePreVoteResp, <1>handleVoteReq,
       <1>handleNewerResp, <1>rejectStaleAppend, <1>rejectAppend,
       <1>acceptAppend, <1>handleAppendResp, <1>linkReset, ZenonT(30) DEF Handle
  <2>. QED  BY <2>1
<1>. QED  BY <1>1, <1>2

\* So do the timers and a restart.
LEMMA LocalExplained ==
    ASSUME MaxFaults = 0, MetaCurrent, NEW b, NEW l, NEW b2, Before(b, l, b2), NEW i \in Node
    PROVE  ElectionTimeout(i) \/ Heartbeat(i) \/ FsyncTimer(i) \/ Crash(i) => Explained(b2, l)'
\* start_prevote().
<1>. USE ZenonT(30)
<1>electionTimeout. ASSUME ElectionTimeout(i)  PROVE Explained(b2, l)'
  <2>. USE <1>electionTimeout
  <2>1. LoopTypeOK /\ chan \in ChannelType /\ currentTerm[i] \in Nat  BY BeforeFields
  <2>. DEFINE m == VoteRequest(i, "PREVOTE", currentTerm[i] + 1)
  <2>2. m \in Message /\ m.type = "PREVOTE"
    <3>1. currentTerm[i] + 1 \in Nat  BY <2>1, SMTT(30)
    <3>2. m \in Message  BY <2>1, <3>1, VoteRequestType
    <3>. QED  BY <3>2 DEF VoteRequest
  <2>3. Broadcast(i, <<m>>)  BY DEF ElectionTimeout
  <2>. HIDE DEF m
  <2>4. Mute(<<m>>)  BY <2>2, MuteFrame
  <2>5. Sends(i, Node, <<m>>)
    <3>1. <<m>> \in Seq(Message)  BY <2>2, SMTT(30)
    <3>. QED  BY <2>1, <2>3, <3>1, BroadcastSends
  <2>6. /\ UNCHANGED <<role, currentTerm, votes, log>> /\ disk' = disk
        /\ leaderId' = [leaderId EXCEPT ![i] = Nil] /\ Node \in SUBSET Node
    BY DEF ElectionTimeout, logVars, diskVars
  <2>. QED  BY <2>4, <2>5, <2>6, KeptExplained
\* heartbeat_timer_cb().
<1>heartbeat. ASSUME Heartbeat(i)  PROVE Explained(b2, l)'
  <2>. USE <1>heartbeat
  <2>1. LoopTypeOK /\ chan \in ChannelType  BY BeforeFields
  <2>2. /\ currentTerm[i] \in Nat /\ log[i] \in Seq(Entry) /\ Len(log[i]) \in Nat
        /\ commitIndex[i] \in Nat
    BY <2>1, NodeFields
  <2>3. /\ Len(log[i]) + 1 \in Nat \ {0} /\ Len(log[i]) <= Len(log[i])
        /\ Len(log[i]) + 1 \in 1..(Len(log[i]) + 1) /\ Len(log[i]) \in 0..Len(log[i])
    BY <2>2, SMTT(30)
  <2>. DEFINE m == KeepAlive(currentTerm[i], log[i], commitIndex[i])
  <2>4. m \in Message /\ CutFrom(m, currentTerm[i], log[i])
    BY <2>2, <2>3, AppendFrameType, AppendFrameSlice DEF KeepAlive
  <2>5. Broadcast(i, <<m>>) /\ role[i] = Leader  BY DEF Heartbeat
  <2>. HIDE DEF m
  <2>6. \A x : Has(<<m>>, {x}) => CutFrom(x, currentTerm[i], log[i])
    <3>1. \A x : Has(<<m>>, {x}) => m \in {x}  BY SingleHas
    <3>. QED  BY <2>4, <3>1
  <2>7. Sends(i, Node, <<m>>)
    <3>1. <<m>> \in Seq(Message)  BY <2>4, SMTT(30)
    <3>. QED  BY <2>1, <2>5, <3>1, BroadcastSends
  <2>8. UNCHANGED <<role, currentTerm, votes, leaderId, log, disk>> /\ Node \in SUBSET Node
    BY DEF Heartbeat, electionVars, logVars, diskVars
  <2>. QED  BY <2>5, <2>6, <2>7, <2>8, LeaderSendsExplained
\* fsync_timer_cb().
<1>fsyncTimer. ASSUME FsyncTimer(i)  PROVE Explained(b2, l)'
  <2>. USE <1>fsyncTimer
  <2>1. LoopTypeOK /\ chan \in ChannelType  BY BeforeFields
  <2>2. UNCHANGED <<role, currentTerm, votes, log>> /\ leaderId' = leaderId /\ chan' = chan
    BY NoFault DEF FsyncTimer, Persist
  <2>3. disk' = disk \/ disk' = [disk EXCEPT ![i] = log[i]]
    BY DEF FsyncTimer, diskVars
  <2>4. Sends(i, {}, <<>>) /\ Mute(<<>>) /\ {} \in SUBSET Node
    BY <2>1, <2>2, NothingSent
  <2>. QED  BY <2>2, <2>3, <2>4, KeptExplained
\* A restart: the log that persist_load() finds is a prefix of the one in
\* memory, or the one last fsynced.
<1>crash. ASSUME Crash(i)  PROVE Explained(b2, l)'
  <2>. USE <1>crash
  <2>1. /\ LoopTypeOK /\ chan \in ChannelType /\ Conforms(log[i], l) /\ Conforms(disk[i], l)
        /\ log[i] \in Seq(Entry) /\ l \in LeaderLogs /\ stable[i] \in Nat
    BY BeforeFields DEF LoopTypeOK
  <2>2. PICK lg \in Recoverable(i) : log' = [log EXCEPT ![i] = lg] /\ disk' = [disk EXCEPT ![i] = lg]
    BY DEF Crash
  <2>3. Conforms(lg, l)
    <3>1. CASE lg = disk[i]  BY <2>1, <3>1
    <3>2. ASSUME NEW k \in stable[i]..Len(log[i]), lg = SubSeq(log[i], 1, k)
          PROVE  Conforms(lg, l)
      <4>1. Len(log[i]) \in Nat  BY <2>1, SeqFields
      <4>2. k \in Nat /\ k <= Len(log[i]) /\ k <= k  BY <2>1, <3>2, <4>1, SMTT(30)
      <4>3. lg \in Seq(Entry) /\ Len(lg) = k /\ \A n \in 1..k : lg[n] = log[i][n]
        BY <2>1, <3>2, <4>2, PrefixOfLog
      <4>4. Agree(lg, log[i], Len(lg))  BY <4>2, <4>3 DEF Agree
      <4>. QED  BY <2>1, <4>3, <4>4, ConformsPrefix
    <3>. QED  BY <2>2, <3>1, <3>2 DEF Recoverable
  <2>4. /\ currentTerm' = [currentTerm EXCEPT ![i] = meta[i].term]
        /\ role' = [role EXCEPT ![i] = Follower]
        /\ leaderId' = [leaderId EXCEPT ![i] = Nil]
        /\ votes' = [votes EXCEPT ![i] = 0]
    BY DEF Crash
  <2>5. /\ Others(i) /\ role'[i] = Follower /\ leaderId'[i] = Nil
        /\ log'[i] = lg /\ disk'[i] = lg
    BY <2>1, <2>2, <2>4 DEF Others, LoopTypeOK
  <2>6. \A a, c \in Node : chan'[a][c] = chan[a][c] \/ chan'[a][c] = <<>>
    BY DEF Crash
  <2>7. Sends(i, {}, <<>>) /\ Mute(<<>>) /\ {} \in SUBSET Node
    BY <2>1, <2>6, NothingSent
  <2>. QED  BY <2>3, <2>5, <2>7, FollowerExplained
<1>. QED  BY <1>electionTimeout, <1>heartbeat, <1>fsyncTimer, <1>crash

\* SafetyInv is inductive as long as no write fails.
LEMMA StepKeepsSafety ==
    ASSUME MaxFaults = 0, SafetyInv, [Next]_vars
    PROVE  SafetyInv'
\* Nothing happens.
<1>. USE ZenonT(30)
<1>stutter. ASSUME NEW b, NEW l, NEW b2, Before(b, l, b2), UNCHANGED vars
      PROVE  Explained(b2, l)'
  <2>. USE <1>stutter
  <2>1. PICK i : i \in Node
    <3>1. Node # {}
      <4>1. Cardinality(Node) # 0  BY NodeAssumption, SMTT(30)
      <4>. QED  BY <4>1, FS_EmptySet
    <3>. QED  BY <3>1
  <2>2. UNCHANGED <<role, currentTerm, votes, log>> /\ leaderId' = leaderId /\ disk' = disk /\ chan' = chan
    BY DEF vars, electionVars, logVars, diskVars
  <2>3. chan \in ChannelType  BY <2>1, BeforeFields
  <2>4. Sends(i, {}, <<>>) /\ Mute(<<>>) /\ {} \in SUBSET Node
    BY <2>1, <2>2, <2>3, NothingSent
  <2>. QED  BY <2>1, <2>2, <2>4, KeptExplained
<1>1. TypeOK /\ LoopTypeOK /\ MetaCurrent  BY DEF SafetyInv, TypeOK
<1>2. TypeOK'  BY <1>1, StepKeepsType
<1>3. LoopTypeOK'  BY <1>2 DEF TypeOK
<1>4. MetaCurrent' /\ VoteKept  BY <1>1, StepKeepsVotes
<1>5. PICK b, l : Explained(b, l)  BY DEF SafetyInv
<1>6. PICK b2 : b2 = CastVotes(b)  OBVIOUS
<1>7. Before(b, l, b2)  BY <1>1, <1>3, <1>4, <1>5, <1>6 DEF Before
<1>8. \E l2 : Explained(b2, l2)'
  <2>1. CASE UNCHANGED vars
    <3>1. Explained(b2, l)'  BY <1>7, <2>1, <1>stutter
    <3>. QED  BY <3>1
  <2>2. ASSUME NEW i \in Node,
               ElectionTimeout(i) \/ Heartbeat(i) \/ FsyncTimer(i) \/ Crash(i)
        PROVE  \E l2 : Explained(b2, l2)'
    <3>1. Explained(b2, l)'
      BY <1>1, <1>7, <2>2, LocalExplained
    <3>. QED  BY <3>1
  <2>3. ASSUME NEW i \in Node, NEW v \in Value, Propose(i, v)
        PROVE  \E l2 : Explained(b2, l2)'
    BY <1>1, <1>7, <2>3, ProposeExplained
  <2>4. ASSUME NEW i \in Node, NEW j \in Node \ {i}, Handle(i, j)
        PROVE  \E l2 : Explained(b2, l2)'
    BY <1>7, <2>4, HandleExplained
  <2>. QED  BY <2>1, <2>2, <2>3, <2>4 DEF Next
<1>9. (\E c, m : Explained(c, m))'  BY <1>8
<1>. QED  BY <1>2, <1>4, <1>9 DEF SafetyInv

\* SafetyInv holds throughout every behaviour without write failures.
LEMMA SafetyInvariant ==
    ASSUME MaxFaults = 0
    PROVE  Spec => [](TypeOK /\ SafetyInv)
<1>. USE ZenonT(30)
<1>1. Init /\ TypeOK => SafetyInv  BY InitMeta, InitExplained DEF SafetyInv
<1>2. SafetyInv /\ [Next]_vars => SafetyInv'  BY StepKeepsSafety
<1>. QED  BY <1>1, <1>2, TypeCorrect, PTL DEF Spec

\* In a cluster whose writes succeed, nodes of the same term that know a leader
\* know the same one: no two nodes ever win one term and no follower takes
\* AppendEntries from a node that did not win (VOTE_REQ, VOTE_RESP,
\* become_leader() and leader_id), whatever is lost, delayed or restarted.
THEOREM OneLeaderPerTerm ==
    ASSUME MaxFaults = 0
    PROVE  Spec => []ElectionSafety
<1>. USE ZenonT(30)
<1>1. SafetyInv => ElectionSafety
  <2>. SUFFICES ASSUME NEW b, NEW l, Explained(b, l), NEW i \in Node, NEW j \in Node,
                       currentTerm[i] = currentTerm[j], leaderId[i] # Nil, leaderId[j] # Nil
                PROVE  leaderId[i] = leaderId[j]
    BY DEF SafetyInv, ElectionSafety
  <2>1. Won(b, leaderId[i], currentTerm[i]) /\ Won(b, leaderId[j], currentTerm[i])
    BY DEF Explained, LeaderInv
  <2>. QED  BY <2>1, OneWinner
<1>. QED  BY <1>1, SafetyInvariant, PTL

\* In a cluster whose writes succeed, two logs that hold an entry of the same
\* index and term are equal up to it: the prevLogIndex/prevLogTerm check of
\* CL_FRAME_APPEND, and persist_load() after a power loss, keep every log a
\* prefix-wise copy of what the leaders of its terms had.
THEOREM LogsMatch ==
    ASSUME MaxFaults = 0
    PROVE  Spec => []LogMatching
<1>. USE ZenonT(30)
<1>1. SafetyInv => LogMatching
  <2>. SUFFICES ASSUME TypeOK, NEW b, NEW l, Explained(b, l), NEW i \in Node, NEW j \in Node,
                       NEW k \in DOMAIN log[i] \cap DOMAIN log[j],
                       log[i][k].term = log[j][k].term
                PROVE  SubSeq(log[i], 1, k) = SubSeq(log[j], 1, k)
    BY DEF SafetyInv, LogMatching
  <2>. DEFINE x == log[i]
              y == log[j]
              z == l[x[k].term]
  <2>1. x \in Seq(Entry) /\ y \in Seq(Entry)  BY DEF TypeOK, LoopTypeOK
  <2>2. Conforms(x, l) /\ Conforms(y, l)  BY DEF Explained, LogInv
  <2>3. Agree(x, z, k) /\ Agree(y, z, k)  BY <2>2 DEF Conforms
  <2>4. k \in 1..Len(x) /\ k \in 1..Len(y) /\ Len(x) \in Nat /\ Len(y) \in Nat
    BY <2>1, SeqFields
  <2>. HIDE DEF x, y, z
  <2>5. k \in Nat /\ k <= Len(x) /\ k <= Len(y)  BY <2>4, SMTT(30)
  <2>6. \A n \in 1..k : x[n] = y[n]  BY <2>3 DEF Agree
  <2>. DEFINE p == SubSeq(x, 1, k)
              q == SubSeq(y, 1, k)
  <2>7. p \in Seq(Entry) /\ Len(p) = k /\ \A n \in 1..k : p[n] = x[n]
    BY <2>1, <2>5, PrefixOfLog
  <2>8. q \in Seq(Entry) /\ Len(q) = k /\ \A n \in 1..k : q[n] = y[n]
    BY <2>1, <2>5, PrefixOfLog
  <2>. HIDE DEF p, q
  <2>9. Len(p) = Len(q) /\ \A n \in 1..Len(p) : p[n] = q[n]  BY <2>6, <2>7, <2>8
  <2>10. p = q  BY <2>7, <2>8, <2>9, SeqSame
  <2>. QED  BY <2>10 DEF p, q, x, y
<1>. QED  BY <1>1, SafetyInvariant, PTL

=============================================================================
