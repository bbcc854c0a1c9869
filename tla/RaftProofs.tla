----------------------------- MODULE RaftProofs -----------------------------
(***************************************************************************)
(* Theorems about Raft, for every cluster size, sync policy and bound:     *)
(* types, and one vote per node and term.  The second half has the         *)
(* vocabulary of RaftSafetyProofs: what is in a channel, who won a vote,   *)
(* and which logs agree.                                                   *)
(***************************************************************************)
EXTENDS Raft, TLAPS

MetaRecord == [term : Nat, vote : Node \cup {Nil}]

-----------------------------------------------------------------------------
(* Sequences.                                                              *)

\* A sequence is a function on its indices.
LEMMA SeqFields ==
    ASSUME NEW S, NEW s \in Seq(S)
    PROVE  Len(s) \in Nat /\ s \in [1..Len(s) -> S] /\ DOMAIN s = 1..Len(s)
OBVIOUS

\* Its elements.
LEMMA SeqElement ==
    ASSUME NEW S, NEW s \in Seq(S), NEW k \in 1..Len(s)
    PROVE  s[k] \in S
OBVIOUS

\* The sequence without elements.
LEMMA SeqEmpty ==
    ASSUME NEW S
    PROVE  /\ <<>> \in Seq(S) /\ Len(<<>>) = 0
           /\ \A s \in Seq(S) : s # <<>> => Len(s) \in Nat \ {0}
OBVIOUS

\* Concatenation.
LEMMA SeqConcat ==
    ASSUME NEW S, NEW s \in Seq(S), NEW t \in Seq(S)
    PROVE  /\ s \o t \in Seq(S) /\ Len(s \o t) = Len(s) + Len(t)
           /\ \A k \in 1..(Len(s) + Len(t)) :
                 (s \o t)[k] = IF k <= Len(s) THEN s[k] ELSE t[k - Len(s)]
OBVIOUS

\* The first element and the others.
LEMMA SeqTail ==
    ASSUME NEW S, NEW s \in Seq(S), s # <<>>
    PROVE  /\ Head(s) \in S /\ Tail(s) \in Seq(S) /\ Len(Tail(s)) = Len(s) - 1
           /\ \A k \in 1..Len(Tail(s)) : Tail(s)[k] = s[k + 1]
OBVIOUS

\* A part of a sequence.
LEMMA SubSeqFields ==
    ASSUME NEW S, NEW s, NEW m \in Int, NEW n \in Int, \A k \in m..n : s[k] \in S
    PROVE  /\ SubSeq(s, m, n) \in Seq(S)
           /\ Len(SubSeq(s, m, n)) = IF m <= n THEN n - m + 1 ELSE 0
           /\ \A k \in 1..(n - m + 1) : SubSeq(s, m, n)[k] = s[m + k - 1]
OBVIOUS

\* One more element.
LEMMA SeqAppend ==
    ASSUME NEW S, NEW s \in Seq(S), NEW e \in S
    PROVE  /\ Append(s, e) \in Seq(S) /\ Len(Append(s, e)) = Len(s) + 1
           /\ \A k \in 1..Len(s) : Append(s, e)[k] = s[k]
           /\ Append(s, e)[Len(s) + 1] = e
OBVIOUS

\* Sequences with the same elements.
LEMMA SeqSame ==
    ASSUME NEW S, NEW s \in Seq(S), NEW t \in Seq(S), Len(s) = Len(t),
           \A k \in 1..Len(s) : s[k] = t[k]
    PROVE  s = t
OBVIOUS

-----------------------------------------------------------------------------
(* Frames and channels.                                                    *)

\* log_term_at() is a term, 0 outside the log.
LEMMA LogTermAtType ==
    ASSUME NEW lg \in Seq(Entry), NEW idx
    PROVE  LogTermAt(lg, idx) \in Nat
<1>1. CASE idx \in DOMAIN lg
  <2>1. lg[idx] \in Entry  BY <1>1, SeqFields, SeqElement
  <2>. QED  BY <1>1, <2>1 DEF LogTermAt, Entry
<1>2. CASE idx \notin DOMAIN lg  BY <1>2 DEF LogTermAt
<1>. QED  BY <1>1, <1>2

\* The part of a log up to an index inside it is a log of that length, with the
\* same entries.
LEMMA PrefixOfLog ==
    ASSUME NEW lg \in Seq(Entry), NEW n \in Nat, n <= Len(lg)
    PROVE  /\ SubSeq(lg, 1, n) \in Seq(Entry)
           /\ Len(SubSeq(lg, 1, n)) = n
           /\ \A k \in 1..n : SubSeq(lg, 1, n)[k] = lg[k]
<1>1. Len(lg) \in Nat  BY SeqFields
<1>2. \A k \in 1..n : k \in 1..Len(lg)  BY <1>1
<1>3. \A k \in 1..n : lg[k] \in Entry  BY <1>2, SeqElement, ZenonT(30)
<1>4. 1 \in Int /\ n \in Int /\ n - 1 + 1 = n  OBVIOUS
<1>5. /\ SubSeq(lg, 1, n) \in Seq(Entry)
      /\ Len(SubSeq(lg, 1, n)) = IF 1 <= n THEN n - 1 + 1 ELSE 0
      /\ \A k \in 1..(n - 1 + 1) : SubSeq(lg, 1, n)[k] = lg[1 + k - 1]
  BY <1>3, <1>4, SubSeqFields
<1>6. Len(SubSeq(lg, 1, n)) = n  BY <1>5
<1>7. \A k \in 1..n : 1 + k - 1 = k  OBVIOUS
<1>. QED  BY <1>4, <1>5, <1>6, <1>7, ZenonT(30)

\* send_append() produces a well-formed AppendEntries frame for any range that
\* starts inside the log or just past its end.
LEMMA AppendFrameType ==
    ASSUME NEW lg \in Seq(Entry), NEW term \in Nat, NEW commit \in Nat,
           NEW from \in Nat \ {0}, NEW upto \in Nat, upto <= Len(lg)
    PROVE  AppendFrame(term, lg, from, upto, commit) \in Message
<1>1. SubSeq(lg, from, upto) \in Seq(Entry)
  <2>1. \A k \in from..upto : lg[k] \in Entry
    BY SeqElement
  <2>. QED  BY <2>1, SubSeqFields
<1>2. LogTermAt(lg, from - 1) \in Nat
  BY LogTermAtType
<1>. QED  BY <1>1, <1>2 DEF AppendFrame, Message

\* pump_peer() sends only well-formed frames.
LEMMA PumpFramesType ==
    ASSUME NEW lg \in Seq(Entry), NEW term \in Nat, NEW commit \in Nat,
           NEW next \in Nat \ {0}, next <= Len(lg) + 1
    PROVE  PumpFrames(term, lg, next, commit) \in Seq(Message)
<1>1. MaxBatch \in Nat \ {0}  BY BoundAssumption
<1>2. Len(lg) \in Nat  BY SeqFields
<1>3. (Len(lg) - next + MaxBatch) \div MaxBatch \in Nat
  BY <1>1, <1>2
<1>4. ASSUME NEW b \in 1..((Len(lg) - next + MaxBatch) \div MaxBatch)
      PROVE  PumpFrames(term, lg, next, commit)[b] \in Message
  <2>1. (b - 1) * MaxBatch \in Nat  BY <1>1, <1>3
  <2>. DEFINE from == next + (b - 1) * MaxBatch
  <2>2. from \in Nat \ {0}  BY <2>1
  <2>. HIDE DEF from
  <2>3. /\ Lesser(from + MaxBatch - 1, Len(lg)) \in Nat
        /\ Lesser(from + MaxBatch - 1, Len(lg)) <= Len(lg)
    BY <1>1, <1>2, <2>2 DEF Lesser
  <2>4. AppendFrame(term, lg, from, Lesser(from + MaxBatch - 1, Len(lg)), commit) \in Message
    BY <2>2, <2>3, AppendFrameType
  <2>. QED  BY <2>4 DEF PumpFrames, from
<1>. DEFINE n == (Len(lg) - next + MaxBatch) \div MaxBatch
<1>5. PumpFrames(term, lg, next, commit) \in [1..n -> Message]
  BY <1>4, ZenonT(30) DEF PumpFrames
<1>. QED  BY <1>3, <1>5

\* What every handler may assume of the frame it reads.
LEMMA FrameFields ==
    ASSUME NEW m \in Message
    PROVE  /\ m.term \in Nat
           /\ m.type \in {"PREVOTE", "VOTE_REQ"} => m.last \in Nat /\ m.lastTerm \in Nat
           /\ m.type \in {"PREVOTE_RESP", "VOTE_RESP"} => m.granted \in BOOLEAN
           /\ m.type = "APPEND" =>
                /\ m.prev \in Nat /\ m.prevTerm \in Nat /\ m.commit \in Nat
                /\ m.entries \in Seq(Entry)
           /\ m.type = "APPEND_RESP" =>
                m.success \in BOOLEAN /\ m.hint \in Nat /\ m.durable \in Nat
BY DEF Message

ChannelType == [Node -> [Node -> Seq(Message)]]

\* Reading a frame yields a message and leaves a channel.
LEMMA ReceivedFrame ==
    ASSUME chan \in ChannelType, NEW i \in Node, NEW j \in Node, chan[j][i] # <<>>
    PROVE  /\ Head(chan[j][i]) \in Message
           /\ Tail(chan[j][i]) \in Seq(Message)
BY SeqTail DEF ChannelType

\* Reading a frame and answering it leaves well-formed channels.
LEMMA ReadAndReplyType ==
    ASSUME chan \in ChannelType, NEW i \in Node, NEW j \in Node, chan[j][i] # <<>>,
           NEW frames \in Seq(Message), ReadAndReply(i, j, frames)
    PROVE  chan' \in ChannelType
<1>1. Tail(chan[j][i]) \in Seq(Message)  BY ReceivedFrame
<1>. DEFINE ch == [chan EXCEPT ![j][i] = Tail(@)]
<1>2. ch \in ChannelType  BY <1>1 DEF ChannelType
<1>3. ch[i][j] \o frames \in Seq(Message)  BY <1>2, SeqConcat DEF ChannelType
<1>4. chan' = [ch EXCEPT ![i][j] = @ \o frames]  BY DEF ReadAndReply
<1>. HIDE DEF ch
<1>. QED  BY <1>2, <1>3, <1>4 DEF ChannelType

\* Queueing well-formed frames for every peer leaves well-formed channels.
LEMMA SendAllType ==
    ASSUME NEW ch \in ChannelType, NEW i \in Node, NEW frames \in Seq(Message)
    PROVE  SendAll(ch, i, frames) \in ChannelType
<1>1. \A k \in Node : ch[i][k] \o frames \in Seq(Message)
  BY SeqConcat DEF ChannelType
<1>. QED  BY <1>1 DEF SendAll, ChannelType

\* Reading a frame and addressing every peer leaves well-formed channels.
LEMMA ReadAndBroadcastType ==
    ASSUME chan \in ChannelType, NEW i \in Node, NEW j \in Node, chan[j][i] # <<>>,
           NEW frames \in Seq(Message), ReadAndBroadcast(i, j, frames)
    PROVE  chan' \in ChannelType
<1>1. [chan EXCEPT ![j][i] = Tail(@)] \in ChannelType
  BY ReceivedFrame DEF ChannelType
<1>. QED  BY <1>1, SendAllType DEF ReadAndBroadcast

-----------------------------------------------------------------------------
(* Type correctness.                                                       *)

\* Counting an event against its bound.
LEMMA SpendType ==
    ASSUME used \in [DOMAIN Limit -> Nat], NEW b \in DOMAIN Limit, Spend(b)
    PROVE  used' \in [DOMAIN Limit -> Nat]
BY DEF Spend

\* The writes of a handler leave a well-formed meta file, whether they fail or not.
LEMMA PersistType ==
    ASSUME LoopTypeOK, NEW i \in Node, NEW writes \in Seq(MetaRecord), NEW logWrite,
           NEW ok \in BOOLEAN, Persist(i, writes, logWrite, ok)
    PROVE  /\ meta' \in [Node -> MetaRecord]
           /\ storageFailed' \in [Node -> BOOLEAN]
           /\ used' \in [DOMAIN Limit -> Nat]
<1>1. CASE ok
  <2>1. writes # <<>> => writes[Len(writes)] \in MetaRecord
    BY SeqElement, SeqEmpty
  <2>. QED  BY <1>1, <2>1, ZenonT(30) DEF Persist, LoopTypeOK, MetaRecord
<1>2. CASE ~ok
  <2>1. \A m \in {meta[i]} \cup {writes[k] : k \in DOMAIN writes} : m \in MetaRecord
    <3>1. meta[i] \in MetaRecord  BY ZenonT(30) DEF LoopTypeOK, MetaRecord
    <3>2. \A m \in {writes[k] : k \in DOMAIN writes} : m \in MetaRecord
      BY SeqElement, SeqFields
    <3>. QED  BY <3>1, <3>2
  <2>2. used' \in [DOMAIN Limit -> Nat]
    BY <1>2, SpendType DEF Persist, LoopTypeOK, Limit
  <2>. QED  BY <1>2, <2>1, <2>2, ZenonT(30) DEF Persist, LoopTypeOK, MetaRecord
<1>. QED  BY <1>1, <1>2

\* advance_commit() commits a natural number and applies entries of the log.
LEMMA AdvanceCommitType ==
    ASSUME LoopTypeOK, NEW i \in Node, NEW lg \in Seq(Entry),
           NEW peers \in [Node -> PeerState], NEW durable \in Nat, NEW failed,
           AdvanceCommit(i, lg, peers, durable, failed)
    PROVE  /\ commitIndex' \in [Node -> Nat]
           /\ applied' \subseteq (Nat \X Entry)
<1>. DEFINE v == Progress(i, lg, peers, durable, failed)
<1>1. v \in [Node -> Nat]
  BY SeqFields, BoundAssumption, ZenonT(30) DEF Progress, PeerState
<1>2. PICK n \in QuorumIndices(v) :
        IF n > commitIndex[i] /\ LogTermAt(lg, n) = currentTerm[i]
        THEN /\ commitIndex' = [commitIndex EXCEPT ![i] = n]
             /\ Apply(lg, commitIndex[i], n)
        ELSE UNCHANGED <<commitIndex, applied>>
  BY DEF AdvanceCommit
<1>3. n \in Nat  BY <1>1 DEF QuorumIndices
<1>4. \A k \in DOMAIN lg : k \in Nat /\ lg[k] \in Entry  BY SeqFields, SeqElement
<1>5. \A from, upto : {<<k, lg[k]>> : k \in ((from + 1)..upto) \cap DOMAIN lg} \subseteq (Nat \X Entry)
  BY <1>4
<1>6. commitIndex \in [Node -> Nat] /\ applied \subseteq (Nat \X Entry)
  BY ZenonT(30) DEF LoopTypeOK
<1>7. applied' \subseteq (Nat \X Entry)  BY <1>2, <1>5, <1>6 DEF Apply
<1>8. commitIndex' \in [Node -> Nat]  BY <1>2, <1>3, <1>6, ZenonT(30)
<1>. QED  BY <1>7, <1>8

\* What LoopTypeOK says of one node.
LEMMA NodeFields ==
    ASSUME LoopTypeOK, NEW i \in Node
    PROVE  /\ currentTerm[i] \in Nat /\ currentTerm[i] + 1 \in Nat
           /\ log[i] \in Seq(Entry) /\ Len(log[i]) \in Nat
           /\ commitIndex[i] \in Nat /\ durableIndex[i] \in Nat
           /\ peer[i] \in [Node -> PeerState]
<1>1. currentTerm[i] \in Nat  BY DEF LoopTypeOK
<1>2. log[i] \in Seq(Entry)  BY DEF LoopTypeOK
<1>3. commitIndex[i] \in Nat /\ durableIndex[i] \in Nat /\ peer[i] \in [Node -> PeerState]
  BY DEF LoopTypeOK
<1>. QED  BY <1>1, <1>2, <1>3, SeqFields

\* FreshPeers and the record that observe_term() persists are well typed.
LEMMA FreshPeersType == FreshPeers \in [Node -> PeerState]
BY DEF FreshPeers, FreshPeer, PeerState

\* The pair persist_meta() writes.
LEMMA MetaType ==
    ASSUME NEW t \in Nat, NEW v \in Node \cup {Nil}
    PROVE  Meta(t, v) \in MetaRecord
BY DEF Meta, MetaRecord

\* observe_term() leaves the election state well typed.
LEMMA ObserveTermType ==
    ASSUME LoopTypeOK, NEW i \in Node, NEW t \in Nat, ObserveTerm(i, t)
    PROVE  /\ currentTerm' \in [Node -> Nat]
           /\ role' \in [Node -> {Follower, Candidate, Leader}]
           /\ leaderId' \in [Node -> Node \cup {Nil}]
           /\ prevotes' \in [Node -> Nat]
           /\ votes' \in [Node -> Nat]
           /\ peer' \in [Node -> [Node -> PeerState]]
<1>. USE ZenonT(30)
<1>1. CASE t > currentTerm[i]
  <2>1. /\ currentTerm' = [currentTerm EXCEPT ![i] = t]
        /\ role'     = [role EXCEPT ![i] = Follower]
        /\ leaderId' = [leaderId EXCEPT ![i] = Nil]
        /\ prevotes' = [prevotes EXCEPT ![i] = 0]
        /\ votes'    = [votes EXCEPT ![i] = 0]
        /\ peer'     = [peer EXCEPT ![i] = FreshPeers]
    BY SMT, <1>1 DEF ObserveTerm
  <2>. QED  BY <2>1, FreshPeersType DEF LoopTypeOK
<1>2. CASE ~(t > currentTerm[i])  BY <1>2 DEF ObserveTerm, LoopTypeOK
<1>. QED  BY <1>1, <1>2, SMTT(30)

\* So does following the sender of an AppendEntries.
LEMMA FollowLeaderType ==
    ASSUME LoopTypeOK, NEW i \in Node, NEW j \in Node, NEW t \in Nat, FollowLeader(i, j, t)
    PROVE  /\ currentTerm' \in [Node -> Nat]
           /\ votedFor' \in [Node -> Node \cup {Nil}]
           /\ role' \in [Node -> {Follower, Candidate, Leader}]
           /\ leaderId' \in [Node -> Node \cup {Nil}]
           /\ prevotes' \in [Node -> Nat]
           /\ votes' \in [Node -> Nat]
           /\ peer' \in [Node -> [Node -> PeerState]]
BY FreshPeersType, ZenonT(30) DEF FollowLeader, LoopTypeOK

\* send_vote_request() and the PreVote poll send well-formed frames.
LEMMA VoteRequestType ==
    ASSUME LoopTypeOK, NEW i \in Node, NEW type \in {"PREVOTE", "VOTE_REQ"}, NEW term \in Nat
    PROVE  VoteRequest(i, type, term) \in Message
<1>1. Len(log[i]) \in Nat /\ LastTerm(log[i]) \in Nat
  BY SeqFields, LogTermAtType DEF LoopTypeOK, LastTerm
<1>. QED  BY <1>1 DEF VoteRequest, Message

\* send_append_resp() sends a well-formed frame.
LEMMA AppendRespType ==
    ASSUME NEW term \in Nat, NEW success \in BOOLEAN, NEW hint \in Nat, NEW durable \in Nat
    PROVE  <<AppendResp(term, success, hint, durable)>> \in Seq(Message)
<1>1. AppendResp(term, success, hint, durable) \in Message  BY DEF AppendResp, Message
<1>. QED  BY <1>1

\* The pairs an AppendEntries of a newer term persists.
LEMMA TermWritesType ==
    ASSUME NEW i \in Node, NEW t \in Nat
    PROVE  TermWrites(i, t) \in Seq(MetaRecord)
<1>1. Meta(t, Nil) \in MetaRecord  BY MetaType
<1>. QED  BY <1>1 DEF TermWrites

\* Every handler of a frame, and a new connection, keeps every variable well
\* typed.
LEMMA HandlerType ==
    ASSUME LoopTypeOK, NEW i \in Node, NEW j \in Node, Handle(i, j)
    PROVE  LoopTypeOK'
\* CL_FRAME_PREVOTE keeps every variable well typed.
<1>. USE ZenonT(30)
<1>handlePreVote. ASSUME HandlePreVote(i, j)  PROVE LoopTypeOK'
  <2>. USE <1>handlePreVote
  <2>1. chan \in ChannelType /\ chan[j][i] # <<>>
    BY SMT DEF HandlePreVote, Received, LoopTypeOK, ChannelType
  <2>2. PICK g \in BOOLEAN :
          ReadAndReply(i, j, <<[type |-> "PREVOTE_RESP", term |-> currentTerm[i], granted |-> g]>>)
    BY DEF HandlePreVote
  <2>3. <<[type |-> "PREVOTE_RESP", term |-> currentTerm[i], granted |-> g]>> \in Seq(Message)
    BY SMT DEF LoopTypeOK, Message
  <2>4. chan' \in ChannelType  BY <2>1, <2>2, <2>3, ReadAndReplyType
  <2>. QED
    BY <2>4 DEF HandlePreVote, LoopTypeOK, electionVars, logVars, diskVars, ChannelType
\* CL_FRAME_PREVOTE_RESP keeps every variable well typed.
<1>handlePreVoteResp. ASSUME HandlePreVoteResp(i, j)  PROVE LoopTypeOK'
  <2>. USE <1>handlePreVoteResp
  <2>1. chan \in ChannelType /\ chan[j][i] # <<>>
    BY SMT DEF HandlePreVoteResp, Received, LoopTypeOK, ChannelType
  <2>2. currentTerm[i] + 1 \in Nat  BY SMT, NodeFields
  <2>3. CASE BecomeCandidate(i, j)
    <3>1. <<VoteRequest(i, "VOTE_REQ", currentTerm[i] + 1)>> \in Seq(Message)
      <4>1. VoteRequest(i, "VOTE_REQ", currentTerm[i] + 1) \in Message  BY SMT, <2>2, VoteRequestType
      <4>. QED  BY SMT, <4>1
    <3>2. chan' \in ChannelType
      BY <2>1, <2>3, <3>1, ReadAndBroadcastType DEF BecomeCandidate
    <3>3. <<Meta(currentTerm[i] + 1, i)>> \in Seq(MetaRecord)  BY SMT, <2>2, MetaType
    <3>4. /\ meta' \in [Node -> MetaRecord]
          /\ storageFailed' \in [Node -> BOOLEAN]
          /\ used' \in [DOMAIN Limit -> Nat]
      BY <2>3, <3>3, PersistType DEF BecomeCandidate
    <3>. QED  BY <2>2, <2>3, <3>2, <3>4
              DEF BecomeCandidate, HandlePreVoteResp, LoopTypeOK, logVars, diskVars, ChannelType, MetaRecord
  <2>4. CASE ReadAndReply(i, j, <<>>) /\ ~BecomeCandidate(i, j)
    <3>1. chan' \in ChannelType  BY <2>1, <2>4, ReadAndReplyType, SeqEmpty
    <3>2. prevotes' \in [Node -> Nat]
      <4>1. PICK c \in BOOLEAN : prevotes' = [prevotes EXCEPT ![i] = IF c THEN @ + 1 ELSE @]
        BY <2>4 DEF HandlePreVoteResp
      <4>2. prevotes \in [Node -> Nat]  BY SMT DEF LoopTypeOK
      <4>3. CASE c  BY <4>1, <4>2, <4>3, SMTT(30)
      <4>4. CASE ~c  BY <4>1, <4>2, <4>4, SMTT(30)
      <4>. QED  BY SMT, <4>3, <4>4
    <3>. QED
      BY <2>4, <3>1, <3>2
         DEF HandlePreVoteResp, LoopTypeOK, logVars, diskVars, ChannelType
  <2>. QED  BY <2>3, <2>4, SMTT(30) DEF HandlePreVoteResp
\* CL_FRAME_VOTE_REQ keeps every variable well typed.
<1>handleVoteReq. ASSUME HandleVoteReq(i, j)  PROVE LoopTypeOK'
  <2>. USE <1>handleVoteReq
  <2>1. chan \in ChannelType /\ chan[j][i] # <<>>
    BY DEF HandleVoteReq, Received, LoopTypeOK, ChannelType
  <2>. DEFINE m == Head(chan[j][i])
              newer == m.term > currentTerm[i]
              vote == IF newer THEN Nil ELSE votedFor[i]
              grant == /\ m.term >= currentTerm[i]
                       /\ LogIsCurrent(log[i], m.last, m.lastTerm)
                       /\ vote \in {Nil, j}
              writes == (IF newer THEN <<Meta(m.term, Nil)>> ELSE <<>>) \o
                        (IF grant THEN <<Meta(m.term, j)>> ELSE <<>>)
              reply == [type |-> "VOTE_RESP", term |-> currentTerm'[i], granted |-> grant]
  <2>2. m.term \in Nat  BY <2>1, ReceivedFrame, FrameFields, SMTT(30)
  <2>3. /\ ObserveTerm(i, m.term)
        /\ votedFor' = [votedFor EXCEPT ![i] = IF grant THEN j ELSE vote]
        /\ \E ok \in BOOLEAN : Persist(i, writes, FALSE, ok)
        /\ ReadAndReply(i, j, <<reply>>)
        /\ UNCHANGED <<logVars, diskVars, applied>>
    BY DEF HandleVoteReq
  <2>4. writes \in Seq(MetaRecord)
    <3>1. Meta(m.term, Nil) \in MetaRecord /\ Meta(m.term, j) \in MetaRecord
      BY <2>2, MetaType, SMTT(30)
    <3>. HIDE DEF m, newer, grant
    <3>. QED  BY <3>1, SeqConcat, SMTT(30)
  <2>5. grant \in BOOLEAN  BY SMTT(30)
  <2>6. vote \in Node \cup {Nil}  BY SMT DEF LoopTypeOK
  <2>. HIDE DEF m, newer, vote, grant, writes
  <2>7. /\ meta' \in [Node -> MetaRecord]
        /\ storageFailed' \in [Node -> BOOLEAN]
        /\ used' \in [DOMAIN Limit -> Nat]
    BY <2>3, <2>4, PersistType
  <2>8. /\ currentTerm' \in [Node -> Nat]
        /\ role' \in [Node -> {Follower, Candidate, Leader}]
        /\ leaderId' \in [Node -> Node \cup {Nil}]
        /\ prevotes' \in [Node -> Nat]
        /\ votes' \in [Node -> Nat]
        /\ peer' \in [Node -> [Node -> PeerState]]
    BY <2>2, <2>3, ObserveTermType, SMTT(30)
  <2>9. <<reply>> \in Seq(Message)  BY <2>5, <2>8, SMTT(30) DEF Message
  <2>10. chan' \in ChannelType  BY <2>1, <2>3, <2>9, ReadAndReplyType
  <2>11. votedFor' \in [Node -> Node \cup {Nil}]  BY <2>3, <2>6, SMTT(30) DEF LoopTypeOK
  <2>. QED
    BY <2>3, <2>7, <2>8, <2>10, <2>11
       DEF LoopTypeOK, logVars, diskVars, ChannelType, MetaRecord
\* CL_FRAME_VOTE_RESP keeps every variable well typed.
<1>handleVoteResp. ASSUME HandleVoteResp(i, j)  PROVE LoopTypeOK'
  <2>. USE <1>handleVoteResp
  <2>1. chan \in ChannelType /\ chan[j][i] # <<>>
    BY SMT DEF HandleVoteResp, Received, LoopTypeOK, ChannelType
  <2>2. CASE BecomeLeader(i, j)
    <3>. DEFINE lg == Append(log[i], [term |-> currentTerm[i], op |-> NoOp])
    <3>1. [term |-> currentTerm[i], op |-> NoOp] \in Entry  BY DEF Entry, LoopTypeOK
    <3>2. log[i] \in Seq(Entry)  BY DEF LoopTypeOK
    <3>3. lg \in Seq(Entry) /\ Len(lg) \in Nat \ {0}
      BY <3>1, <3>2, SeqAppend, SeqFields, SMTT(30)
    <3>. HIDE DEF lg
    <3>4. PumpFrames(currentTerm[i], lg, Len(lg), commitIndex[i]) \in Seq(Message)
      <4>1. Len(lg) <= Len(lg) + 1 /\ currentTerm[i] \in Nat /\ commitIndex[i] \in Nat
        BY <3>3, NodeFields, SMTT(30)
      <4>. QED  BY <3>3, <4>1, PumpFramesType
    <3>5. chan' \in ChannelType
      BY <2>1, <2>2, <3>4, ReadAndBroadcastType, SMTT(30) DEF BecomeLeader, lg
    <3>6. log' \in [Node -> Seq(Entry)]  BY <2>2, <3>3, SMTT(30) DEF BecomeLeader, LoopTypeOK, lg
    <3>. QED  BY <2>2, <3>5, <3>6, FreshPeersType
              DEF BecomeLeader, HandleVoteResp, LoopTypeOK, diskVars, ChannelType
  <2>3. CASE ~BecomeLeader(i, j)
    <3>1. ReadAndReply(i, j, <<>>)  BY <2>3 DEF HandleVoteResp
    <3>2. chan' \in ChannelType  BY <2>1, <3>1, ReadAndReplyType, SeqEmpty
    <3>3. votes' \in [Node -> Nat]
      <4>1. PICK c \in BOOLEAN : votes' = [votes EXCEPT ![i] = IF c THEN @ + 1 ELSE @]
        BY <2>3 DEF HandleVoteResp
      <4>2. votes \in [Node -> Nat]  BY SMTT(30) DEF LoopTypeOK
      <4>3. CASE c  BY SMT, <4>1, <4>2, <4>3
      <4>4. CASE ~c  BY SMT, <4>1, <4>2, <4>4
      <4>. QED  BY SMT, <4>3, <4>4
    <3>. QED  BY <2>3, <3>2, <3>3 DEF HandleVoteResp, LoopTypeOK, diskVars, ChannelType
  <2>. QED  BY <2>2, <2>3
\* A response of a newer term keeps every variable well typed.
<1>handleNewerResp. ASSUME HandleNewerResp(i, j)  PROVE LoopTypeOK'
  <2>. USE <1>handleNewerResp
  <2>1. chan \in ChannelType /\ chan[j][i] # <<>>
    BY SMTT(30) DEF HandleNewerResp, Received, LoopTypeOK, ChannelType
  <2>. DEFINE t == Head(chan[j][i]).term
  <2>2. t \in Nat  BY <2>1, ReceivedFrame, FrameFields, SMTT(30)
  <2>3. /\ ObserveTerm(i, t)
        /\ votedFor' = [votedFor EXCEPT ![i] = Nil]
        /\ \E ok \in BOOLEAN : Persist(i, <<Meta(t, Nil)>>, FALSE, ok)
        /\ ReadAndReply(i, j, <<>>)
        /\ UNCHANGED <<logVars, diskVars, applied>>
    BY DEF HandleNewerResp
  <2>. HIDE DEF t
  <2>4. <<Meta(t, Nil)>> \in Seq(MetaRecord)  BY <2>2, MetaType, SMTT(30)
  <2>5. /\ meta' \in [Node -> MetaRecord]
        /\ storageFailed' \in [Node -> BOOLEAN]
        /\ used' \in [DOMAIN Limit -> Nat]
    BY <2>3, <2>4, PersistType
  <2>6. /\ currentTerm' \in [Node -> Nat]
        /\ role' \in [Node -> {Follower, Candidate, Leader}]
        /\ leaderId' \in [Node -> Node \cup {Nil}]
        /\ prevotes' \in [Node -> Nat]
        /\ votes' \in [Node -> Nat]
        /\ peer' \in [Node -> [Node -> PeerState]]
    BY <2>2, <2>3, ObserveTermType, SMTT(30)
  <2>7. chan' \in ChannelType  BY <2>1, <2>3, ReadAndReplyType, SeqEmpty
  <2>. QED
    BY <2>3, <2>5, <2>6, <2>7 DEF LoopTypeOK, logVars, diskVars, ChannelType, MetaRecord
\* CL_FRAME_APPEND of a stale leader keeps every variable well typed.
<1>rejectStaleAppend. ASSUME RejectStaleAppend(i, j)  PROVE LoopTypeOK'
  <2>. USE <1>rejectStaleAppend
  <2>1. chan \in ChannelType /\ chan[j][i] # <<>>
    BY SMT DEF RejectStaleAppend, Received, LoopTypeOK, ChannelType
  <2>2. <<AppendResp(currentTerm[i], FALSE, Len(log[i]), durableIndex[i])>> \in Seq(Message)
    BY NodeFields, AppendRespType
  <2>3. chan' \in ChannelType  BY <2>1, <2>2, ReadAndReplyType DEF RejectStaleAppend
  <2>. QED
    BY <2>3
       DEF RejectStaleAppend, LoopTypeOK, electionVars, logVars, diskVars, ChannelType
\* CL_FRAME_APPEND that does not match keeps every variable well typed.
<1>rejectAppend. ASSUME RejectAppend(i, j)  PROVE LoopTypeOK'
  <2>. USE <1>rejectAppend
  <2>1. chan \in ChannelType /\ chan[j][i] # <<>> /\ Head(chan[j][i]).type = "APPEND"
    BY SMTT(60) DEF RejectAppend, Received, LoopTypeOK, ChannelType
  <2>. DEFINE m == Head(chan[j][i])
              hint == IF m.prev > Len(log[i]) THEN Len(log[i]) ELSE m.prev - 1
  <2>2. m.term \in Nat /\ m.prev \in Nat
    BY SMT, <2>1, ReceivedFrame, FrameFields
  <2>3. /\ ~Matches(i, m)
        /\ FollowLeader(i, j, m.term)
        /\ \E ok \in BOOLEAN : Persist(i, TermWrites(i, m.term), FALSE, ok)
        /\ ReadAndReply(i, j, <<AppendResp(m.term, FALSE, hint, durableIndex[i])>>)
        /\ UNCHANGED <<logVars, diskVars, applied>>
    BY DEF RejectAppend
  <2>4. hint \in Nat
    <3>1. CASE m.prev > Len(log[i])  BY <3>1, NodeFields, SMTT(30)
    <3>2. CASE m.prev <= Len(log[i])
      <4>1. m.prev > 0  BY <2>2, <2>3, <3>2 DEF Matches
      <4>. QED  BY <2>2, <3>2, <4>1, NodeFields, SMTT(30)
    <3>3. Len(log[i]) \in Nat  BY NodeFields, SMTT(30)
    <3>4. m.prev > Len(log[i]) \/ m.prev <= Len(log[i])  BY <2>2, <3>3, SMTT(30)
    <3>. QED  BY <3>1, <3>2, <3>4, SMTT(30)
  <2>. HIDE DEF m, hint
  <2>5. <<AppendResp(m.term, FALSE, hint, durableIndex[i])>> \in Seq(Message)
    BY <2>2, <2>4, NodeFields, AppendRespType
  <2>6. chan' \in ChannelType  BY <2>1, <2>3, <2>5, ReadAndReplyType
  <2>7. /\ meta' \in [Node -> MetaRecord]
        /\ storageFailed' \in [Node -> BOOLEAN]
        /\ used' \in [DOMAIN Limit -> Nat]
    BY <2>2, <2>3, TermWritesType, PersistType
  <2>8. /\ currentTerm' \in [Node -> Nat]
        /\ votedFor' \in [Node -> Node \cup {Nil}]
        /\ role' \in [Node -> {Follower, Candidate, Leader}]
        /\ leaderId' \in [Node -> Node \cup {Nil}]
        /\ prevotes' \in [Node -> Nat]
        /\ votes' \in [Node -> Nat]
        /\ peer' \in [Node -> [Node -> PeerState]]
    BY <2>2, <2>3, FollowLeaderType, SMTT(30)
  <2>. QED
    BY <2>3, <2>6, <2>7, <2>8 DEF LoopTypeOK, logVars, diskVars, ChannelType, MetaRecord
\* CL_FRAME_APPEND that matches keeps every variable well typed.
<1>acceptAppend. ASSUME AcceptAppend(i, j)  PROVE LoopTypeOK'
  <2>. USE <1>acceptAppend
  <2>1. chan \in ChannelType /\ chan[j][i] # <<>> /\ Head(chan[j][i]).type = "APPEND"
    BY DEF AcceptAppend, Received, LoopTypeOK, ChannelType
  <2>. DEFINE m == Head(chan[j][i])
              lg == SubSeq(log[i], 1, m.prev) \o m.entries
              commit == Greater(commitIndex[i], Lesser(m.commit, Len(lg)))
  <2>2. m.term \in Nat /\ m.prev \in Nat /\ m.commit \in Nat /\ m.entries \in Seq(Entry)
    BY <2>1, ReceivedFrame, FrameFields, SMTT(30)
  <2>3. /\ Matches(i, m)
        /\ FollowLeader(i, j, m.term)
        /\ log' = [log EXCEPT ![i] = lg]
        /\ stable' = [stable EXCEPT ![i] = Lesser(@, m.prev)]
        /\ \E ok \in BOOLEAN : Persist(i, TermWrites(i, m.term), m.entries # <<>>, ok)
        /\ IF storageFailed'[i]
           THEN UNCHANGED <<commitIndex, applied>>
           ELSE /\ commitIndex' = [commitIndex EXCEPT ![i] = commit]
                /\ Apply(lg, commitIndex[i], commit)
        /\ ReadAndReply(i, j, <<AppendResp(m.term, ~storageFailed'[i], Len(lg), durableIndex[i])>>)
        /\ UNCHANGED <<durableIndex, disk>>
    BY DEF AcceptAppend
  <2>4. lg \in Seq(Entry) /\ Len(lg) \in Nat
    <3>1. m.prev <= Len(log[i])  BY <2>3 DEF Matches
    <3>2. log[i] \in Seq(Entry)  BY NodeFields
    <3>3. SubSeq(log[i], 1, m.prev) \in Seq(Entry)  BY <2>2, <3>1, <3>2, PrefixOfLog
    <3>. QED  BY <2>2, <3>3, SeqConcat, SeqFields
  <2>. HIDE DEF m, lg
  <2>5. commit \in Nat  BY <2>2, <2>4, NodeFields, SMTT(30) DEF Greater, Lesser
  <2>. HIDE DEF commit
  <2>6. /\ meta' \in [Node -> MetaRecord]
        /\ storageFailed' \in [Node -> BOOLEAN]
        /\ used' \in [DOMAIN Limit -> Nat]
    BY <2>2, <2>3, TermWritesType, PersistType
  <2>7. <<AppendResp(m.term, ~storageFailed'[i], Len(lg), durableIndex[i])>> \in Seq(Message)
    BY <2>2, <2>4, <2>6, NodeFields, AppendRespType
  <2>8. chan' \in ChannelType  BY <2>1, <2>3, <2>7, ReadAndReplyType
  <2>9. /\ currentTerm' \in [Node -> Nat]
        /\ votedFor' \in [Node -> Node \cup {Nil}]
        /\ role' \in [Node -> {Follower, Candidate, Leader}]
        /\ leaderId' \in [Node -> Node \cup {Nil}]
        /\ prevotes' \in [Node -> Nat]
        /\ votes' \in [Node -> Nat]
        /\ peer' \in [Node -> [Node -> PeerState]]
    BY <2>2, <2>3, FollowLeaderType
  <2>10. applied' \subseteq (Nat \X Entry)
    <3>1. \A k \in DOMAIN lg : k \in Nat /\ lg[k] \in Entry
      BY <2>4, SeqFields, SeqElement, SMTT(30)
    <3>2. {<<k, lg[k]>> : k \in ((commitIndex[i] + 1)..commit) \cap DOMAIN lg} \subseteq (Nat \X Entry)
      BY <3>1, SMTT(30)
    <3>3. applied \subseteq (Nat \X Entry)  BY SMTT(30) DEF LoopTypeOK
    <3>. QED  BY <2>3, <3>2, <3>3 DEF Apply
  <2>11. commitIndex' \in [Node -> Nat]
    <3>1. commitIndex \in [Node -> Nat]  BY SMTT(30) DEF LoopTypeOK
    <3>. QED  BY <2>3, <2>5, <3>1
  <2>12. stable' \in [Node -> Nat]
    <3>1. stable \in [Node -> Nat]  BY SMT DEF LoopTypeOK
    <3>2. Lesser(stable[i], m.prev) \in Nat  BY <2>2, <3>1, SMTT(30) DEF Lesser
    <3>. QED  BY <2>3, <3>1, <3>2
  <2>13. log' \in [Node -> Seq(Entry)]  BY <2>3, <2>4 DEF LoopTypeOK
  <2>. QED
    BY <2>3, <2>6, <2>8, <2>9, <2>10, <2>11, <2>12, <2>13
       DEF LoopTypeOK, ChannelType, MetaRecord
\* CL_FRAME_APPEND_RESP keeps every variable well typed.
<1>handleAppendResp. ASSUME HandleAppendResp(i, j)  PROVE LoopTypeOK'
  <2>. USE <1>handleAppendResp
  <2>1. /\ chan \in ChannelType /\ chan[j][i] # <<>> /\ Head(chan[j][i]).type = "APPEND_RESP"
        /\ UNCHANGED <<electionVars, log, durableIndex, meta, diskVars, storageFailed, used>>
    BY DEF HandleAppendResp, Received, LoopTypeOK, ChannelType
  <2>2. /\ chan' \in ChannelType
        /\ peer' \in [Node -> [Node -> PeerState]]
        /\ commitIndex' \in [Node -> Nat]
        /\ applied' \subseteq (Nat \X Entry)
    <3>1. CASE role[i] # Leader
      <4>1. ReadAndReply(i, j, <<>>) /\ UNCHANGED <<peer, commitIndex, applied>>
        BY SMT, <3>1 DEF HandleAppendResp
      <4>2. chan' \in ChannelType  BY <2>1, <4>1, ReadAndReplyType, SeqEmpty
      <4>. QED  BY <4>1, <4>2 DEF LoopTypeOK
    <3>2. CASE role[i] = Leader
      <4>. DEFINE m == Head(chan[j][i])
                  p == [match |-> IF m.success THEN Greater(peer[i][j].match, m.hint)
                                               ELSE Lesser(peer[i][j].match, m.hint),
                        durable |-> m.durable]
                  peers == [peer[i] EXCEPT ![j] = p]
                  from == Lesser(m.hint, Len(log[i])) + 1
      <4>1. /\ peer' = [peer EXCEPT ![i] = peers]
            /\ IF m.success
               THEN /\ AdvanceCommit(i, log[i], peers, durableIndex[i], storageFailed[i])
                    /\ ReadAndReply(i, j, <<>>)
               ELSE /\ ReadAndReply(i, j, PumpFrames(currentTerm[i], log[i], from, commitIndex[i]))
                    /\ UNCHANGED <<commitIndex, applied>>
        BY <3>2 DEF HandleAppendResp
      <4>2. m.success \in BOOLEAN /\ m.hint \in Nat /\ m.durable \in Nat
        BY <2>1, ReceivedFrame, FrameFields
      <4>3. peers \in [Node -> PeerState]
        <5>1. peer[i][j].match \in Nat  BY NodeFields DEF PeerState
        <5>2. p \in PeerState  BY <4>2, <5>1, SMTT(30) DEF PeerState, Greater, Lesser
        <5>. QED  BY <5>2, NodeFields, SMTT(30)
      <4>4. from \in Nat \ {0} /\ from <= Len(log[i]) + 1
        <5>1. Len(log[i]) \in Nat  BY SMT, NodeFields
        <5>. HIDE DEF m
        <5>. QED  BY <4>2, <5>1, SMTT(30) DEF Lesser
      <4>5. PumpFrames(currentTerm[i], log[i], from, commitIndex[i]) \in Seq(Message)
        BY <4>4, NodeFields, PumpFramesType
      <4>. HIDE DEF m, peers, from
      <4>6. peer' \in [Node -> [Node -> PeerState]]  BY <4>1, <4>3 DEF LoopTypeOK
      <4>7. CASE m.success
        <5>1. chan' \in ChannelType  BY <2>1, <4>1, <4>7, ReadAndReplyType, SeqEmpty
        <5>. QED  BY <4>1, <4>3, <4>6, <4>7, <5>1, NodeFields, AdvanceCommitType
      <4>8. CASE ~m.success
        <5>1. chan' \in ChannelType  BY <2>1, <4>1, <4>5, <4>8, ReadAndReplyType
        <5>. QED  BY <4>1, <4>6, <4>8, <5>1 DEF LoopTypeOK
      <4>. QED  BY <4>7, <4>8, SMTT(30)
    <3>. QED  BY <3>1, <3>2, SMTT(30)
  <2>. QED  BY <2>1, <2>2 DEF LoopTypeOK, electionVars, diskVars, ChannelType
\* A connection broken and dialled again keeps every variable well typed.
<1>linkReset. ASSUME LinkReset(i, j)  PROVE LoopTypeOK'
  <2>. USE <1>linkReset
  <2>1. <<>> \in Seq(Message)  BY SeqEmpty, SMTT(30)
  <2>2. chan' \in ChannelType
    BY <2>1 DEF LinkReset, Disconnect, LoopTypeOK, ChannelType
  <2>3. peer' \in [Node -> [Node -> PeerState]]
    <3>1. FreshPeer \in PeerState  BY SMT DEF FreshPeer, PeerState
    <3>. QED  BY <3>1 DEF LinkReset, LoopTypeOK
  <2>4. used' \in [DOMAIN Limit -> Nat]  BY SpendType DEF LinkReset, LoopTypeOK, Limit
  <2>. QED
    BY <2>2, <2>3, <2>4
       DEF LinkReset, LoopTypeOK, electionVars, logVars, diskVars, ChannelType
<1>. QED  BY <1>handlePreVote, <1>handlePreVoteResp, <1>handleVoteReq, <1>handleVoteResp,
             <1>handleNewerResp, <1>rejectStaleAppend, <1>rejectAppend, <1>acceptAppend,
             <1>handleAppendResp, <1>linkReset, ZenonT(30) DEF Handle

\* So do the timers, a restart and a proposal.
LEMMA LocalType ==
    ASSUME LoopTypeOK, NEW i \in Node
    PROVE  ( \/ ElectionTimeout(i) \/ Heartbeat(i) \/ FsyncTimer(i) \/ Crash(i)
             \/ \E v \in Value : Propose(i, v) ) => LoopTypeOK'
\* start_prevote() keeps every variable well typed.
<1>. USE ZenonT(30)
<1>electionTimeout. ASSUME ElectionTimeout(i)  PROVE LoopTypeOK'
  <2>. USE <1>electionTimeout
  <2>1. <<VoteRequest(i, "PREVOTE", currentTerm[i] + 1)>> \in Seq(Message)
    <3>1. currentTerm[i] + 1 \in Nat  BY SMT, NodeFields
    <3>2. VoteRequest(i, "PREVOTE", currentTerm[i] + 1) \in Message  BY <3>1, VoteRequestType, SMTT(30)
    <3>. QED  BY <3>2, SMTT(30)
  <2>2. chan' \in ChannelType
    BY <2>1, SendAllType DEF ElectionTimeout, Broadcast, LoopTypeOK, ChannelType
  <2>3. used' \in [DOMAIN Limit -> Nat]
    BY SMT, SpendType DEF ElectionTimeout, LoopTypeOK, Limit
  <2>. QED  BY <2>2, <2>3 DEF ElectionTimeout, LoopTypeOK, logVars, diskVars, ChannelType
\* heartbeat_timer_cb() keeps every variable well typed.
<1>heartbeat. ASSUME Heartbeat(i)  PROVE LoopTypeOK'
  <2>. USE <1>heartbeat
  <2>1. <<KeepAlive(currentTerm[i], log[i], commitIndex[i])>> \in Seq(Message)
    <3>1. Len(log[i]) + 1 \in Nat \ {0} /\ Len(log[i]) <= Len(log[i])  BY SMT, NodeFields
    <3>2. KeepAlive(currentTerm[i], log[i], commitIndex[i]) \in Message
      BY <3>1, NodeFields, AppendFrameType DEF KeepAlive
    <3>. QED  BY <3>2, SMTT(30)
  <2>2. chan' \in ChannelType
    BY <2>1, SendAllType DEF Heartbeat, Broadcast, LoopTypeOK, ChannelType
  <2>3. used' \in [DOMAIN Limit -> Nat]
    BY SpendType DEF Heartbeat, LoopTypeOK, Limit
  <2>. QED
    BY <2>2, <2>3 DEF Heartbeat, LoopTypeOK, electionVars, logVars, diskVars, ChannelType
\* fsync_timer_cb() keeps every variable well typed.
<1>fsyncTimer. ASSUME FsyncTimer(i)  PROVE LoopTypeOK'
  <2>. USE <1>fsyncTimer
  \* The commit attempt that follows an fsync.
  <2>commits. ASSUME NEW durable \in Nat, NEW failed, CommitIfDurableLeader(i, durable, failed)
        PROVE  /\ commitIndex' \in [Node -> Nat]
               /\ applied' \subseteq (Nat \X Entry)
    <3>. USE <2>commits
    <3>1. CASE durableCommit /\ role[i] = Leader
      BY <3>1, NodeFields, AdvanceCommitType, ZenonT(30) DEF CommitIfDurableLeader
    <3>2. CASE ~(durableCommit /\ role[i] = Leader)
      BY <3>2, SMTT(30) DEF CommitIfDurableLeader, LoopTypeOK
    <3>. QED  BY <3>1, <3>2
  <2>1. UNCHANGED <<currentTerm, votedFor, prevotes, votes, log, chan>>  BY DEF FsyncTimer
  <2>2. CASE /\ Spend("syncs")
             /\ disk' = [disk EXCEPT ![i] = log[i]]
             /\ stable' = [stable EXCEPT ![i] = Len(log[i])]
             /\ durableIndex' = [durableIndex EXCEPT ![i] = Len(log[i])]
             /\ CommitIfDurableLeader(i, Len(log[i]), FALSE)
             /\ UNCHANGED <<role, leaderId, peer, meta, storageFailed>>
    <3>1. used' \in [DOMAIN Limit -> Nat]  BY <2>2, SpendType DEF LoopTypeOK, Limit
    <3>2. commitIndex' \in [Node -> Nat] /\ applied' \subseteq (Nat \X Entry)
      BY <2>2, NodeFields, <2>commits
    <3>3. /\ disk' \in [Node -> Seq(Entry)]
          /\ stable' \in [Node -> Nat]
          /\ durableIndex' \in [Node -> Nat]
      BY <2>2, NodeFields DEF LoopTypeOK
    <3>. QED  BY <2>1, <2>2, <3>1, <3>2, <3>3 DEF LoopTypeOK
  <2>3. CASE /\ Persist(i, <<>>, TRUE, FALSE)
             /\ IF role[i] = Leader THEN StepDown(i) ELSE UNCHANGED <<role, leaderId, peer>>
             /\ UNCHANGED <<diskVars, durableIndex, commitIndex, applied>>
    <3>1. /\ meta' \in [Node -> MetaRecord]
          /\ storageFailed' \in [Node -> BOOLEAN]
          /\ used' \in [DOMAIN Limit -> Nat]
      BY <2>3, PersistType, SeqEmpty
    <3>2. /\ role' \in [Node -> {Follower, Candidate, Leader}]
          /\ leaderId' \in [Node -> Node \cup {Nil}]
          /\ peer' \in [Node -> [Node -> PeerState]]
      <4>1. CASE role[i] = Leader
        <5>1. /\ role' = [role EXCEPT ![i] = Follower]
              /\ leaderId' = [leaderId EXCEPT ![i] = Nil]
              /\ peer' = [peer EXCEPT ![i] = FreshPeers]
          BY <2>3, <4>1 DEF StepDown
        <5>. QED  BY <5>1, FreshPeersType DEF LoopTypeOK
      <4>2. CASE role[i] # Leader  BY <2>3, <4>2, SMTT(30) DEF LoopTypeOK
      <4>. QED  BY <4>1, <4>2, SMTT(30)
    <3>. QED  BY <2>1, <2>3, <3>1, <3>2 DEF LoopTypeOK, diskVars, MetaRecord
  <2>4. CASE /\ CommitIfDurableLeader(i, durableIndex[i], TRUE)
             /\ UNCHANGED <<role, leaderId, peer, meta, storageFailed, used, diskVars, durableIndex>>
    <3>1. commitIndex' \in [Node -> Nat] /\ applied' \subseteq (Nat \X Entry)
      BY <2>4, NodeFields, <2>commits
    <3>. QED  BY <2>1, <2>4, <3>1 DEF LoopTypeOK, diskVars
  <2>. QED  BY <2>2, <2>3, <2>4 DEF FsyncTimer
\* A power loss and the recovery in persist_load() keeps every variable well typed.
<1>crash. ASSUME Crash(i)  PROVE LoopTypeOK'
  <2>. USE <1>crash
  <2>1. PICK lg \in Recoverable(i) :
          /\ log' = [log EXCEPT ![i] = lg]
          /\ disk' = [disk EXCEPT ![i] = lg]
          /\ stable' = [stable EXCEPT ![i] = Len(lg)]
          /\ durableIndex' = [durableIndex EXCEPT ![i] = Len(lg)]
    BY DEF Crash
  <2>2. lg \in Seq(Entry) /\ Len(lg) \in Nat
    <3>1. disk[i] \in Seq(Entry) /\ stable[i] \in Nat  BY DEF LoopTypeOK
    <3>2. ASSUME NEW k \in stable[i]..Len(log[i])
          PROVE  SubSeq(log[i], 1, k) \in Seq(Entry)
      <4>1. \A n \in 1..k : log[i][n] \in Entry  BY <3>1, NodeFields, SeqElement, SMTT(30)
      <4>. QED  BY <3>1, <4>1, NodeFields, SubSeqFields, SMTT(30)
    <3>3. lg \in Seq(Entry)  BY <3>1, <3>2 DEF Recoverable
    <3>. QED  BY <3>3, SeqFields
  <2>3. /\ log' \in [Node -> Seq(Entry)]
        /\ disk' \in [Node -> Seq(Entry)]
        /\ stable' \in [Node -> Nat]
        /\ durableIndex' \in [Node -> Nat]
    BY <2>1, <2>2 DEF LoopTypeOK
  <2>4. used' \in [DOMAIN Limit -> Nat]  BY SpendType DEF Crash, LoopTypeOK, Limit
  <2>5. chan' \in ChannelType
    <3>1. <<>> \in Seq(Message)  BY SeqEmpty
    <3>2. chan \in [Node -> [Node -> Seq(Message)]]  BY SMTT(30) DEF LoopTypeOK
    <3>3. chan' = [a \in Node |-> [b \in Node |-> IF i \in {a, b} THEN <<>> ELSE chan[a][b]]]
      BY DEF Crash
    <3>4. ASSUME NEW a \in Node, NEW b \in Node
          PROVE  (IF i \in {a, b} THEN <<>> ELSE chan[a][b]) \in Seq(Message)
      BY <3>1, <3>2, SMTT(30)
    <3>. QED  BY <3>3, <3>4 DEF ChannelType
  <2>6. peer' \in [Node -> [Node -> PeerState]]
    <3>1. FreshPeer \in PeerState  BY DEF FreshPeer, PeerState
    <3>. QED  BY <3>1, FreshPeersType DEF Crash, LoopTypeOK
  <2>7. /\ currentTerm' \in [Node -> Nat]
        /\ votedFor' \in [Node -> Node \cup {Nil}]
    BY DEF Crash, LoopTypeOK
  <2>. QED  BY <2>3, <2>4, <2>5, <2>6, <2>7 DEF Crash, LoopTypeOK, ChannelType
\* leader_append() and leader_flush() keeps every variable well typed.
<1>propose. ASSUME NEW v \in Value, Propose(i, v)  PROVE LoopTypeOK'
  <2>. USE <1>propose
  <2>. DEFINE lg == Append(log[i], [term |-> currentTerm[i], op |-> v])
  <2>1. PICK ok \in BOOLEAN :
          /\ Persist(i, <<>>, TRUE, ok)
          /\ log' = [log EXCEPT ![i] = lg]
          /\ AdvanceCommit(i, lg, peer[i], durableIndex[i], storageFailed'[i])
          /\ IF ok
             THEN /\ Broadcast(i, PumpFrames(currentTerm[i], lg, Len(lg), commitIndex[i]))
                  /\ UNCHANGED <<role, leaderId, peer>>
             ELSE StepDown(i) /\ UNCHANGED chan
    BY DEF Propose
  <2>2. [term |-> currentTerm[i], op |-> v] \in Entry  BY NodeFields, SMTT(30) DEF Entry
  <2>3. lg \in Seq(Entry) /\ Len(lg) \in Nat \ {0}
    BY <2>2, NodeFields, SeqAppend, SeqFields, SMTT(30)
  <2>. HIDE DEF lg
  <2>4. /\ meta' \in [Node -> MetaRecord]
        /\ storageFailed' \in [Node -> BOOLEAN]
        /\ used' \in [DOMAIN Limit -> Nat]
    BY <2>1, PersistType, SeqEmpty
  <2>5. /\ commitIndex' \in [Node -> Nat]
        /\ applied' \subseteq (Nat \X Entry)
    BY <2>1, <2>3, NodeFields, AdvanceCommitType
  <2>6. log' \in [Node -> Seq(Entry)]  BY <2>1, <2>3 DEF LoopTypeOK
  <2>7. /\ chan' \in ChannelType
        /\ role' \in [Node -> {Follower, Candidate, Leader}]
        /\ leaderId' \in [Node -> Node \cup {Nil}]
        /\ peer' \in [Node -> [Node -> PeerState]]
    <3>1. CASE ok
      <4>1. Len(lg) <= Len(lg) + 1 /\ currentTerm[i] \in Nat /\ commitIndex[i] \in Nat
        BY <2>3, NodeFields, SMTT(60)
      <4>2. PumpFrames(currentTerm[i], lg, Len(lg), commitIndex[i]) \in Seq(Message)
        BY <2>3, <4>1, PumpFramesType
      <4>3. chan \in ChannelType  BY DEF LoopTypeOK, ChannelType
      <4>4. chan' \in ChannelType  BY <2>1, <3>1, <4>2, <4>3, SendAllType DEF Broadcast
      <4>. QED  BY <2>1, <3>1, <4>4 DEF LoopTypeOK
    <3>2. CASE ~ok
      <4>1. StepDown(i) /\ UNCHANGED chan  BY <2>1, <3>2
      <4>2. chan' \in ChannelType  BY <4>1 DEF LoopTypeOK, ChannelType
      <4>3. role' \in [Node -> {Follower, Candidate, Leader}]
        BY <4>1, SMTT(30) DEF StepDown, LoopTypeOK
      <4>4. leaderId' \in [Node -> Node \cup {Nil}]  BY <4>1, SMTT(30) DEF StepDown, LoopTypeOK
      <4>5. peer' \in [Node -> [Node -> PeerState]]
        BY <4>1, FreshPeersType DEF StepDown, LoopTypeOK
      <4>. QED  BY <4>2, <4>3, <4>4, <4>5
    <3>. QED  BY <3>1, <3>2
  <2>8. UNCHANGED <<currentTerm, votedFor, prevotes, votes, durableIndex, disk, stable>>
    BY DEF Propose, diskVars
  <2>. QED  BY <2>4, <2>5, <2>6, <2>7, <2>8 DEF LoopTypeOK, ChannelType, MetaRecord
<1>. QED  BY <1>electionTimeout, <1>heartbeat, <1>fsyncTimer, <1>crash, <1>propose

\* Every step keeps every variable well typed.
LEMMA StepKeepsType == TypeOK /\ [Next]_vars => TypeOK'
<1>. USE ZenonT(30)
<1>. SUFFICES ASSUME LoopTypeOK, durableCommit \in BOOLEAN, [Next]_vars PROVE TypeOK'
  BY SMT DEF TypeOK
<1>0. durableCommit' \in BOOLEAN  BY DEF Next, vars
<1>1. CASE UNCHANGED vars
  BY <1>1 DEF vars, TypeOK, LoopTypeOK, electionVars, logVars, diskVars
<1>2. ASSUME NEW i \in Node, NEW j \in Node, Handle(i, j) PROVE LoopTypeOK'
  BY <1>2, HandlerType
<1>. QED  BY <1>0, <1>1, <1>2, LocalType DEF Next, TypeOK

\* TypeOK is an invariant of every cluster: no handler, timer, failure or
\* restart takes a variable outside the shape the code relies on.
THEOREM TypeCorrect == Spec => []TypeOK
<1>. USE ZenonT(30)
<1>1. Init => TypeOK
  <2>1. <<>> \in Seq(Entry) /\ <<>> \in Seq(Message)  BY SMT, SeqEmpty
  <2>. SUFFICES ASSUME Init PROVE TypeOK
    BY SMT
  <2>2. /\ durableCommit \in BOOLEAN
        /\ role \in [Node -> {Follower, Candidate, Leader}]
        /\ currentTerm \in [Node -> Nat] /\ prevotes \in [Node -> Nat]
        /\ votes \in [Node -> Nat] /\ commitIndex \in [Node -> Nat]
        /\ durableIndex \in [Node -> Nat] /\ stable \in [Node -> Nat]
        /\ storageFailed \in [Node -> BOOLEAN]
    BY DEF Init, Boot
  <2>3. votedFor \in [Node -> Node \cup {Nil}] /\ leaderId \in [Node -> Node \cup {Nil}]
    BY SMT DEF Init, Boot
  <2>4. log \in [Node -> Seq(Entry)] /\ disk \in [Node -> Seq(Entry)]
    BY <2>1 DEF Init, Boot
  <2>5. chan \in [Node -> [Node -> Seq(Message)]]
    BY <2>1 DEF Init, Boot
  <2>6. peer \in [Node -> [Node -> PeerState]]
    BY FreshPeersType DEF Init, Boot
  <2>7. meta \in [Node -> [term : Nat, vote : Node \cup {Nil}]]
    BY DEF Init, Boot, Meta
  <2>8. applied \subseteq (Nat \X Entry) /\ used \in [DOMAIN Limit -> Nat]
    BY SMT DEF Init, Boot
  <2>. QED
    BY <2>2, <2>3, <2>4, <2>5, <2>6, <2>7, <2>8, SMTT(30) DEF TypeOK, LoopTypeOK
<1>. QED  BY <1>1, StepKeepsType, PTL DEF Spec

-----------------------------------------------------------------------------
(* One vote per term, across restarts.                                     *)

\* Without write failures, what persist_load() would restore is what the node
\* believes: every handler that changes the term or the vote has persisted it
\* before it returns.
MetaCurrent ==
    /\ used["faults"] = 0
    /\ \A i \in Node : meta[i].term = currentTerm[i] /\ meta[i].vote = votedFor[i]

\* How one step may change a node's term and vote.
VoteKept ==
    \A i \in Node :
        /\ currentTerm'[i] >= currentTerm[i]
        /\ (currentTerm'[i] = currentTerm[i] /\ votedFor[i] # Nil) => votedFor'[i] = votedFor[i]

\* Without write failures the failing branch of Persist is never taken.
LEMMA NoFault ==
    ASSUME MaxFaults = 0, MetaCurrent
    PROVE  ~Spend("faults")
<1>1. Limit["faults"] = 0  BY ZenonT(30) DEF Limit
<1>. QED  BY <1>1 DEF Spend, MetaCurrent

\* A step that leaves terms, votes and the meta file alone.
LEMMA MetaUntouched ==
    ASSUME LoopTypeOK, MetaCurrent, UNCHANGED <<currentTerm, votedFor, meta>>,
           used'["faults"] = used["faults"]
    PROVE  MetaCurrent' /\ VoteKept
BY SMTT(60) DEF MetaCurrent, VoteKept, LoopTypeOK

\* A step that moves node i to the term t and the vote v and persists both.
LEMMA MetaWritten ==
    ASSUME LoopTypeOK, MetaCurrent, NEW i \in Node, NEW t \in Nat, NEW v \in Node \cup {Nil},
           t >= currentTerm[i], (t = currentTerm[i] /\ votedFor[i] # Nil) => v = votedFor[i],
           currentTerm' = [currentTerm EXCEPT ![i] = t],
           votedFor' = [votedFor EXCEPT ![i] = v],
           meta' = [meta EXCEPT ![i] = Meta(t, v)],
           used' = used
    PROVE  MetaCurrent' /\ VoteKept
<1>. USE ZenonT(30)
<1>1. VoteKept
  <2>. SUFFICES ASSUME NEW k \in Node
                PROVE  /\ currentTerm'[k] >= currentTerm[k]
                       /\ (currentTerm'[k] = currentTerm[k] /\ votedFor[k] # Nil)
                              => votedFor'[k] = votedFor[k]
    BY DEF VoteKept
  <2>1. CASE k = i  BY <2>1 DEF LoopTypeOK
  <2>2. CASE k # i
    <3>1. currentTerm'[k] = currentTerm[k] /\ votedFor'[k] = votedFor[k]
      BY <2>2 DEF LoopTypeOK
    <3>2. currentTerm[k] \in Nat  BY DEF LoopTypeOK
    <3>. QED  BY <3>1, <3>2, SMTT(30)
  <2>. QED  BY <2>1, <2>2
<1>2. ASSUME NEW k \in Node
      PROVE  meta'[k].term = currentTerm'[k] /\ meta'[k].vote = votedFor'[k]
  <2>1. CASE k = i  BY <2>1 DEF LoopTypeOK, Meta
  <2>2. CASE k # i  BY <2>2, SMTT(30) DEF MetaCurrent, LoopTypeOK
  <2>. QED  BY <2>1, <2>2
<1>. QED  BY <1>1, <1>2 DEF MetaCurrent

\* An empty data directory holds the term and the vote of a fresh node.
LEMMA InitMeta == Init => MetaCurrent
<1>1. "faults" \in DOMAIN Limit  BY ZenonT(30) DEF Limit
<1>. QED  BY <1>1 DEF Init, Boot, MetaCurrent, Meta

\* Without write failures, every step keeps the votes cast and what a restart
\* would find of them.
LEMMA StepKeepsVotes ==
    ASSUME MaxFaults = 0, LoopTypeOK, MetaCurrent, [Next]_vars
    PROVE  MetaCurrent' /\ VoteKept
\* become_candidate(): the term is new.
<1>. USE ZenonT(30)
<1>candidate. ASSUME NEW i \in Node, NEW j \in Node, BecomeCandidate(i, j)
      PROVE  MetaCurrent' /\ VoteKept
  <2>. USE <1>candidate
  <2>. DEFINE t == currentTerm[i] + 1
              writes == <<Meta(t, i)>>
  <2>1. t \in Nat /\ t > currentTerm[i]  BY NodeFields, SMTT(60)
  <2>2. /\ currentTerm' = [currentTerm EXCEPT ![i] = t]
        /\ votedFor' = [votedFor EXCEPT ![i] = i]
        /\ \E ok \in BOOLEAN : Persist(i, writes, FALSE, ok)
    BY DEF BecomeCandidate
  <2>3. writes # <<>> /\ writes[Len(writes)] = Meta(t, i)  OBVIOUS
  <2>4. used' = used /\ meta' = [meta EXCEPT ![i] = Meta(t, i)]
    BY <2>2, <2>3, NoFault DEF Persist
  <2>. HIDE DEF t
  <2>5. t >= currentTerm[i] /\ t # currentTerm[i]  BY <2>1, NodeFields, SMTT(30)
  <2>. QED  BY <2>1, <2>2, <2>4, <2>5, MetaWritten
\* CL_FRAME_VOTE_REQ: a vote is given only when none was cast in the term, or
\* again to the same candidate.
<1>voteReq. ASSUME NEW i \in Node, NEW j \in Node, HandleVoteReq(i, j)
      PROVE  MetaCurrent' /\ VoteKept
  <2>. USE <1>voteReq
  <2>1. chan \in ChannelType /\ chan[j][i] # <<>>
    BY DEF HandleVoteReq, Received, LoopTypeOK, ChannelType
  <2>. DEFINE m == Head(chan[j][i])
              newer == m.term > currentTerm[i]
              vote == IF newer THEN Nil ELSE votedFor[i]
              grant == /\ m.term >= currentTerm[i]
                       /\ LogIsCurrent(log[i], m.last, m.lastTerm)
                       /\ vote \in {Nil, j}
              writes == (IF newer THEN <<Meta(m.term, Nil)>> ELSE <<>>) \o
                        (IF grant THEN <<Meta(m.term, j)>> ELSE <<>>)
  <2>2. m.term \in Nat /\ currentTerm[i] \in Nat
    BY <2>1, ReceivedFrame, FrameFields, NodeFields
  <2>3. /\ ObserveTerm(i, m.term)
        /\ votedFor' = [votedFor EXCEPT ![i] = IF grant THEN j ELSE vote]
        /\ \E ok \in BOOLEAN : Persist(i, writes, FALSE, ok)
    BY DEF HandleVoteReq
  <2>4. grant => m.term >= currentTerm[i] /\ vote \in {Nil, j}  OBVIOUS
  <2>5. currentTerm' = [currentTerm EXCEPT ![i] = IF newer THEN m.term ELSE @]
    BY <2>3 DEF ObserveTerm, LoopTypeOK
  <2>6. /\ used' = used
        /\ meta' = IF writes = <<>> THEN meta ELSE [meta EXCEPT ![i] = writes[Len(writes)]]
    BY <2>3, NoFault DEF Persist
  <2>7. votedFor[i] \in Node \cup {Nil} /\ Nil \notin Node  BY NodeAssumption, SMTT(30) DEF LoopTypeOK
  <2>. HIDE DEF m, grant
  <2>8. CASE grant
    <3>1. writes # <<>> /\ writes[Len(writes)] = Meta(m.term, j)  BY <2>8, SMTT(30)
    <3>2. m.term >= currentTerm[i] /\ currentTerm' = [currentTerm EXCEPT ![i] = m.term]
      <4>1. m.term >= currentTerm[i]  BY <2>4, <2>8
      <4>2. currentTerm \in [Node -> Nat]  BY SMT DEF LoopTypeOK
      <4>3. ~newer => m.term = currentTerm[i]  BY <2>2, <4>1, SMTT(30)
      <4>. QED  BY <2>5, <4>1, <4>2, <4>3
    <3>3. (m.term = currentTerm[i] /\ votedFor[i] # Nil) => j = votedFor[i]
      BY <2>2, <2>4, <2>8, SMTT(60)
    <3>. QED  BY <2>2, <2>3, <2>6, <2>8, <3>1, <3>2, <3>3, MetaWritten
  <2>9. CASE ~grant /\ newer
    <3>1. writes # <<>> /\ writes[Len(writes)] = Meta(m.term, Nil)  BY <2>9, SMTT(30)
    <3>2. /\ currentTerm' = [currentTerm EXCEPT ![i] = m.term]
          /\ votedFor' = [votedFor EXCEPT ![i] = Nil]
          /\ meta' = [meta EXCEPT ![i] = Meta(m.term, Nil)]
      BY <2>3, <2>5, <2>6, <2>9, <3>1
    <3>3. m.term >= currentTerm[i] /\ m.term # currentTerm[i]  BY <2>2, <2>9, SMTT(30)
    <3>. QED  BY <2>2, <2>6, <3>2, <3>3, MetaWritten
  <2>10. CASE ~grant /\ ~newer
    <3>1. writes = <<>>  BY <2>10, SMTT(30)
    <3>2. UNCHANGED <<currentTerm, votedFor, meta>>
      BY <2>3, <2>5, <2>6, <2>10, <3>1 DEF LoopTypeOK
    <3>. QED  BY <2>6, <3>2, MetaUntouched
  <2>. QED  BY <2>8, <2>9, <2>10
\* observe_term() on a response: the vote is cleared together with the term.
<1>newerResp. ASSUME NEW i \in Node, NEW j \in Node, HandleNewerResp(i, j)
      PROVE  MetaCurrent' /\ VoteKept
  <2>. USE <1>newerResp
  <2>1. chan \in ChannelType /\ chan[j][i] # <<>>
    BY DEF HandleNewerResp, Received, LoopTypeOK, ChannelType
  <2>. DEFINE t == Head(chan[j][i]).term
              writes == <<Meta(t, Nil)>>
  <2>2. t \in Nat /\ currentTerm[i] \in Nat  BY <2>1, ReceivedFrame, FrameFields, NodeFields, SMTT(30)
  <2>3. /\ t > currentTerm[i]
        /\ ObserveTerm(i, t)
        /\ votedFor' = [votedFor EXCEPT ![i] = Nil]
        /\ \E ok \in BOOLEAN : Persist(i, writes, FALSE, ok)
    BY DEF HandleNewerResp
  <2>. HIDE DEF t
  <2>4. currentTerm' = [currentTerm EXCEPT ![i] = t]  BY SMT, <2>3 DEF ObserveTerm
  <2>5. writes # <<>> /\ writes[Len(writes)] = Meta(t, Nil)  OBVIOUS
  <2>6. used' = used /\ meta' = [meta EXCEPT ![i] = Meta(t, Nil)]
    BY <2>3, <2>5, NoFault, SMTT(30) DEF Persist
  <2>7. t >= currentTerm[i] /\ t # currentTerm[i]  BY <2>2, <2>3, SMTT(30)
  <2>. QED  BY <2>2, <2>3, <2>4, <2>6, <2>7, MetaWritten
\* CL_FRAME_APPEND: a newer term clears the vote, the current one keeps it.
<1>follow. ASSUME NEW i \in Node, NEW j \in Node, NEW t \in Nat,
             t >= currentTerm[i], FollowLeader(i, j, t), NEW logWrite,
             \E ok \in BOOLEAN : Persist(i, TermWrites(i, t), logWrite, ok)
      PROVE  MetaCurrent' /\ VoteKept
  <2>. USE <1>follow
  <2>0. currentTerm[i] \in Nat  BY NodeFields
  <2>1. /\ currentTerm' = [currentTerm EXCEPT ![i] = t]
        /\ votedFor' = [votedFor EXCEPT ![i] = IF t > currentTerm[i] THEN Nil ELSE @]
    BY SMTT(30) DEF FollowLeader
  <2>2. /\ used' = used
        /\ meta' = IF TermWrites(i, t) = <<>> THEN meta
                   ELSE [meta EXCEPT ![i] = TermWrites(i, t)[Len(TermWrites(i, t))]]
    BY NoFault, SMTT(30) DEF Persist
  <2>3. CASE t > currentTerm[i]
    <3>. DEFINE writes == <<Meta(t, Nil)>>
    <3>1. TermWrites(i, t) = writes  BY <2>3, SMTT(30) DEF TermWrites
    <3>2. writes # <<>> /\ writes[Len(writes)] = Meta(t, Nil)  BY SMT
    <3>3. meta' = [meta EXCEPT ![i] = Meta(t, Nil)] /\ votedFor' = [votedFor EXCEPT ![i] = Nil]
      BY <2>1, <2>2, <2>3, <3>1, <3>2
    <3>4. t # currentTerm[i]  BY <2>0, <2>3, SMTT(30)
    <3>. QED  BY <2>1, <2>2, <3>3, <3>4, MetaWritten
  <2>4. CASE t = currentTerm[i]
    <3>1. ~(t > currentTerm[i])  BY <2>0, <2>4, SMTT(30)
    <3>2. TermWrites(i, t) = <<>>  BY <3>1 DEF TermWrites
    <3>3. UNCHANGED <<currentTerm, votedFor, meta>>
      BY <2>1, <2>2, <2>4, <3>1, <3>2, SMTT(30) DEF LoopTypeOK
    <3>. QED  BY <2>2, <3>3, MetaUntouched
  <2>. QED  BY <2>0, <2>3, <2>4, SMTT(30)
\* persist_load(): a restart finds the term and the vote the node had.
<1>crash. ASSUME NEW i \in Node, Crash(i)  PROVE MetaCurrent' /\ VoteKept
  <2>. USE <1>crash
  <2>1. /\ currentTerm' = [currentTerm EXCEPT ![i] = meta[i].term]
        /\ votedFor' = [votedFor EXCEPT ![i] = meta[i].vote]
        /\ meta' = meta
        /\ Spend("crashes")
    BY DEF Crash
  <2>2. UNCHANGED <<currentTerm, votedFor, meta>>  BY <2>1 DEF MetaCurrent, LoopTypeOK
  <2>3. used'["faults"] = used["faults"]  BY <2>1 DEF Spend, LoopTypeOK, Limit
  <2>. QED  BY <2>2, <2>3, MetaUntouched, SMTT(30)
<1>1. CASE UNCHANGED vars
  BY <1>1, MetaUntouched DEF vars, electionVars
<1>2. ASSUME NEW i \in Node, ElectionTimeout(i) PROVE MetaCurrent' /\ VoteKept
  <2>1. used'["faults"] = used["faults"]
    BY <1>2 DEF ElectionTimeout, Spend, LoopTypeOK, Limit
  <2>. QED  BY <1>2, <2>1, MetaUntouched DEF ElectionTimeout
<1>3. ASSUME NEW i \in Node, NEW v \in Value, Propose(i, v) PROVE MetaCurrent' /\ VoteKept
  <2>1. \E ok \in BOOLEAN : Persist(i, <<>>, TRUE, ok)  BY <1>3 DEF Propose
  <2>2. meta' = meta /\ used' = used  BY <2>1, NoFault DEF Persist
  <2>. QED  BY <1>3, <2>2, MetaUntouched DEF Propose
<1>4. ASSUME NEW i \in Node, Heartbeat(i) PROVE MetaCurrent' /\ VoteKept
  <2>1. used'["faults"] = used["faults"]
    BY <1>4 DEF Heartbeat, Spend, LoopTypeOK, Limit
  <2>. QED  BY <1>4, <2>1, MetaUntouched DEF Heartbeat, electionVars
<1>5. ASSUME NEW i \in Node, FsyncTimer(i) PROVE MetaCurrent' /\ VoteKept
  <2>1. UNCHANGED <<currentTerm, votedFor>>  BY <1>5 DEF FsyncTimer
  <2>2. meta' = meta /\ (Spend("syncs") \/ used' = used)
    BY <1>5, NoFault DEF FsyncTimer, Persist
  <2>3. used'["faults"] = used["faults"]  BY <2>2 DEF Spend, LoopTypeOK, Limit
  <2>. QED  BY <2>1, <2>2, <2>3, MetaUntouched
<1>6. ASSUME NEW i \in Node, NEW j \in Node, Handle(i, j) PROVE MetaCurrent' /\ VoteKept
  <2>1. CASE HandlePreVote(i, j)
    BY <2>1, MetaUntouched DEF HandlePreVote, electionVars
  <2>2. CASE HandlePreVoteResp(i, j)
    <3>1. CASE BecomeCandidate(i, j)  BY <3>1, <1>candidate
    <3>2. CASE ~BecomeCandidate(i, j)
      BY <2>2, <3>2, MetaUntouched, SMTT(30) DEF HandlePreVoteResp
    <3>. QED  BY <3>1, <3>2
  <2>3. CASE HandleVoteReq(i, j)  BY <2>3, <1>voteReq, SMTT(30)
  <2>4. CASE HandleVoteResp(i, j)  BY <2>4, MetaUntouched DEF HandleVoteResp
  <2>5. CASE HandleNewerResp(i, j)  BY SMT, <2>5, <1>newerResp
  <2>6. CASE RejectStaleAppend(i, j)
    BY <2>6, MetaUntouched DEF RejectStaleAppend, electionVars
  <2>7. CASE RejectAppend(i, j)
    <3>. DEFINE t == Head(chan[j][i]).term
    <3>1. t \in Nat
      BY <2>7, ReceivedFrame, FrameFields
         DEF RejectAppend, Received, LoopTypeOK, ChannelType
    <3>2. /\ t >= currentTerm[i] /\ FollowLeader(i, j, t)
          /\ \E ok \in BOOLEAN : Persist(i, TermWrites(i, t), FALSE, ok)
      BY <2>7 DEF RejectAppend
    <3>. HIDE DEF t
    <3>. QED  BY <3>1, <3>2, <1>follow
  <2>8. CASE AcceptAppend(i, j)
    <3>. DEFINE m == Head(chan[j][i])
                t == m.term
                w == m.entries # <<>>
    <3>1. t \in Nat
      BY <2>8, ReceivedFrame, FrameFields
         DEF AcceptAppend, Received, LoopTypeOK, ChannelType
    <3>2. /\ t >= currentTerm[i] /\ FollowLeader(i, j, t)
          /\ \E ok \in BOOLEAN : Persist(i, TermWrites(i, t), w, ok)
      BY <2>8 DEF AcceptAppend
    <3>. HIDE DEF m, t, w
    <3>. QED  BY <3>1, <3>2, <1>follow, SMTT(30)
  <2>9. CASE HandleAppendResp(i, j)
    BY <2>9, MetaUntouched DEF HandleAppendResp, electionVars
  <2>10. CASE LinkReset(i, j)
    <3>1. used'["faults"] = used["faults"]
      BY <2>10 DEF LinkReset, Spend, LoopTypeOK, Limit
    <3>. QED  BY <2>10, <3>1, MetaUntouched DEF LinkReset, electionVars
  <2>. QED
    BY <1>6, <2>1, <2>2, <2>3, <2>4, <2>5, <2>6, <2>7, <2>8, <2>9, <2>10 DEF Handle
<1>. QED  BY <1>1, <1>2, <1>3, <1>4, <1>5, <1>6, <1>crash DEF Next

\* Without write failures a node's term never goes back and it never changes
\* a vote it has cast in a term, whatever frames, timeouts and power losses
\* occur (persist_meta() before every answer, persist_load() on restart).
THEOREM VoteOnce ==
    ASSUME MaxFaults = 0
    PROVE  Spec => VoteOncePerTerm
<1>1. TypeOK /\ MetaCurrent /\ [Next]_vars => MetaCurrent' /\ VoteKept
  BY StepKeepsVotes, ZenonT(30) DEF TypeOK
<1>2. VoteKept => [\A i \in Node :
        /\ currentTerm'[i] >= currentTerm[i]
        /\ (currentTerm'[i] = currentTerm[i] /\ votedFor[i] # Nil)
                => votedFor'[i] = votedFor[i]]_vars
  BY DEF VoteKept
<1>. QED  BY InitMeta, <1>1, <1>2, TypeCorrect, PTL DEF Spec, VoteOncePerTerm

-----------------------------------------------------------------------------
(* What is in a channel.                                                   *)

Has(s, M) == \E k \in DOMAIN s : s[k] \in M
Once(s, M) == \A k, n \in DOMAIN s : s[k] \in M /\ s[n] \in M => k = n

\* Reading the first frame adds nothing, and takes the only frame of a kind.
LEMMA TailHas ==
    ASSUME NEW s \in Seq(Message), s # <<>>, NEW M
    PROVE  /\ Has(Tail(s), M) => Has(s, M)
           /\ Once(s, M) => Once(Tail(s), M)
           /\ Once(s, M) /\ Head(s) \in M => ~Has(Tail(s), M)
<1>. USE ZenonT(30)
<1>. DEFINE r == Tail(s)
<1>1. /\ r \in Seq(Message) /\ Len(r) = Len(s) - 1
      /\ \A k \in 1..Len(r) : r[k] = s[k + 1]
  BY SeqTail
<1>2. Len(s) \in Nat /\ DOMAIN s = 1..Len(s) /\ Len(r) \in Nat /\ DOMAIN r = 1..Len(r)
  BY <1>1, SeqFields
<1>3. Len(s) > 0  BY <1>1, <1>2, SMTT(30)
<1>4. Head(s) = s[1]  BY SMTT(30)
<1>. HIDE DEF r
<1>5. \A k \in DOMAIN r : k + 1 \in DOMAIN s /\ k + 1 # 1 /\ r[k] = s[k + 1]  BY <1>1, <1>2, SMTT(30)
<1>6. 1 \in DOMAIN s  BY <1>2, <1>3, SMTT(30)
<1>7. \A k, n \in DOMAIN r : k + 1 = n + 1 => k = n  BY SMT, <1>2
<1>8. Has(r, M) => Has(s, M)  BY <1>5 DEF Has
<1>9. Once(s, M) => Once(r, M)  BY <1>5, <1>7 DEF Once
<1>10. Once(s, M) /\ Head(s) \in M => ~Has(r, M)
  BY <1>4, <1>5, <1>6 DEF Once, Has
<1>. QED  BY <1>8, <1>9, <1>10 DEF r

\* Nothing is in an empty channel.
LEMMA EmptyHas == \A M : ~Has(<<>>, M) /\ Once(<<>>, M)
BY DEF Has, Once

\* One frame.
LEMMA SingleHas ==
    ASSUME NEW m, NEW M
    PROVE  Once(<<m>>, M) /\ (Has(<<m>>, M) => m \in M)
BY DEF Has, Once

-----------------------------------------------------------------------------
(* What a step does to the channels: frames are read, lost, or sent by i   *)
(* to the nodes of D.                                                      *)

Sends(i, D, frames) ==
    \A M : \A a, b \in Node :
        /\ Has(chan'[a][b], M) => Has(chan[a][b], M) \/ (a = i /\ b \in D /\ Has(frames, M))
        /\ (/\ Once(chan[a][b], M) /\ Once(frames, M)
            /\ ~(a = i /\ b \in D /\ Has(chan[a][b], M) /\ Has(frames, M))) => Once(chan'[a][b], M)

\* What each channel may become.
LEMMA ChannelsSend ==
    ASSUME chan \in ChannelType, NEW i \in Node, NEW D, NEW frames \in Seq(Message),
           \A a, b \in Node :
              \/ chan'[a][b] = chan[a][b] \/ chan'[a][b] = <<>>
              \/ chan[a][b] # <<>> /\ chan'[a][b] = Tail(chan[a][b])
              \/ a = i /\ b \in D /\ chan'[a][b] = chan[a][b] \o frames
    PROVE  Sends(i, D, frames)
\* Frames queued behind others.
<1>. USE ZenonT(30)
<1>concat. ASSUME NEW s \in Seq(Message), NEW f \in Seq(Message), NEW M
      PROVE  /\ Has(s \o f, M) => Has(s, M) \/ Has(f, M)
             /\ Once(s, M) /\ Once(f, M) /\ ~(Has(s, M) /\ Has(f, M)) => Once(s \o f, M)
  <2>. USE <1>concat
  <2>. DEFINE r == s \o f
              p == Len(s)
  <2>1. /\ r \in Seq(Message) /\ Len(r) = Len(s) + Len(f)
        /\ \A k \in 1..(Len(s) + Len(f)) : r[k] = IF k <= Len(s) THEN s[k] ELSE f[k - Len(s)]
    BY SeqConcat
  <2>2. /\ Len(s) \in Nat /\ DOMAIN s = 1..Len(s)
        /\ Len(f) \in Nat /\ DOMAIN f = 1..Len(f) /\ DOMAIN r = 1..Len(r)
    BY <2>1, SeqFields
  <2>. HIDE DEF r
  <2>3. \A k \in DOMAIN r : \/ k \in DOMAIN s /\ r[k] = s[k]
                            \/ k - p \in DOMAIN f /\ r[k] = f[k - p]
    BY <2>1, <2>2, SMTT(30)
  <2>. HIDE DEF p
  <2>4. \A k, n \in DOMAIN r : k - p = n - p => k = n  BY <2>1, <2>2, SMTT(30) DEF p
  <2>5. Has(r, M) => Has(s, M) \/ Has(f, M)  BY <2>3 DEF Has
  <2>6. ASSUME Once(s, M), Once(f, M), ~(Has(s, M) /\ Has(f, M)),
               NEW k \in DOMAIN r, NEW n \in DOMAIN r, r[k] \in M, r[n] \in M
        PROVE  k = n
    <3>1. CASE k \in DOMAIN s /\ r[k] = s[k] /\ n \in DOMAIN s /\ r[n] = s[n]
      BY <2>6, <3>1 DEF Once
    <3>2. CASE k - p \in DOMAIN f /\ r[k] = f[k - p] /\ n - p \in DOMAIN f /\ r[n] = f[n - p]
      BY <2>4, <2>6, <3>2 DEF Once
    <3>3. CASE Has(s, M) /\ Has(f, M)  BY <2>6, <3>3, SMTT(30)
    <3>. QED  BY <2>3, <2>6, <3>1, <3>2, <3>3 DEF Has
  <2>. QED  BY <2>5, <2>6 DEF r, Once
\* A channel that loses frames only.
<1>fewer. ASSUME NEW s \in Seq(Message), NEW r, r = s \/ r = <<>> \/ (s # <<>> /\ r = Tail(s)), NEW M
      PROVE  (Has(r, M) => Has(s, M)) /\ (Once(s, M) => Once(r, M))
  BY <1>fewer, TailHas, EmptyHas
<1>. SUFFICES ASSUME NEW M, NEW a \in Node, NEW b \in Node
              PROVE  /\ Has(chan'[a][b], M) => Has(chan[a][b], M) \/ (a = i /\ b \in D /\ Has(frames, M))
                     /\ (/\ Once(chan[a][b], M) /\ Once(frames, M)
                         /\ ~(a = i /\ b \in D /\ Has(chan[a][b], M) /\ Has(frames, M)))
                            => Once(chan'[a][b], M)
  BY DEF Sends
<1>1. chan[a][b] \in Seq(Message)  BY DEF ChannelType
<1>2. CASE a = i /\ b \in D /\ chan'[a][b] = chan[a][b] \o frames
  <2>. DEFINE s == chan[a][b]
              r == s \o frames
  <2>1. /\ Has(r, M) => Has(s, M) \/ Has(frames, M)
        /\ Once(s, M) /\ Once(frames, M) /\ ~(Has(s, M) /\ Has(frames, M)) => Once(r, M)
    <3>. HIDE DEF s
    <3>. QED  BY <1>1, <1>concat DEF r, s
  <2>2. chan'[a][b] = r  BY <1>2
  <2>. HIDE DEF r
  <2>. QED  BY <1>2, <2>1, <2>2
<1>3. CASE \/ chan'[a][b] = chan[a][b] \/ chan'[a][b] = <<>>
           \/ chan[a][b] # <<>> /\ chan'[a][b] = Tail(chan[a][b])
  BY <1>1, <1>3, <1>fewer
<1>. QED  BY <1>2, <1>3

\* A handler that reads a frame from j and answers it.
LEMMA ReplySends ==
    ASSUME chan \in ChannelType, NEW i \in Node, NEW j \in Node, i # j, chan[j][i] # <<>>,
           NEW frames \in Seq(Message), ReadAndReply(i, j, frames)
    PROVE  Sends(i, {j}, frames) /\ chan'[j][i] = Tail(chan[j][i])
<1>. USE ZenonT(30)
<1>. DEFINE read == [chan EXCEPT ![j][i] = Tail(@)]
<1>1. chan' = [read EXCEPT ![i][j] = @ \o frames]  BY DEF ReadAndReply
<1>2. DOMAIN chan = Node /\ \A a \in Node : DOMAIN chan[a] = Node  BY DEF ChannelType
<1>3. DOMAIN read = Node /\ \A a \in Node : DOMAIN read[a] = Node  BY <1>2
<1>4. \A a, b \in Node : read[a][b] = IF a = j /\ b = i THEN Tail(chan[j][i]) ELSE chan[a][b]
  BY <1>2, SMTT(30)
<1>. HIDE DEF read
<1>5. \A a, b \in Node : chan'[a][b] = IF a = i /\ b = j THEN read[i][j] \o frames ELSE read[a][b]
  BY <1>1, <1>3, SMTT(30)
<1>6. ASSUME NEW a \in Node, NEW b \in Node
      PROVE  \/ chan'[a][b] = chan[a][b]
             \/ chan[a][b] # <<>> /\ chan'[a][b] = Tail(chan[a][b])
             \/ a = i /\ b \in {j} /\ chan'[a][b] = chan[a][b] \o frames
  <2>1. CASE a = j /\ b = i
    <3>1. chan'[a][b] = Tail(chan[j][i])  BY <1>4, <1>5, <2>1
    <3>. QED  BY <2>1, <3>1
  <2>2. CASE ~(a = j /\ b = i)
    <3>1. read[a][b] = chan[a][b]  BY <1>4, <2>2
    <3>2. CASE a = i /\ b = j
      <4>1. chan'[a][b] = read[a][b] \o frames  BY <1>5, <3>2
      <4>. QED  BY <3>1, <3>2, <4>1
    <3>3. CASE ~(a = i /\ b = j)
      <4>1. chan'[a][b] = read[a][b]  BY <1>5, <3>3
      <4>. QED  BY <3>1, <4>1
    <3>. QED  BY <3>2, <3>3
  <2>. QED  BY <2>1, <2>2
<1>7. chan'[j][i] = Tail(chan[j][i])  BY <1>4, <1>5
<1>. QED  BY <1>6, <1>7, ChannelsSend

\* A timer that addresses every peer.
LEMMA BroadcastSends ==
    ASSUME chan \in ChannelType, NEW i \in Node, NEW frames \in Seq(Message), Broadcast(i, frames)
    PROVE  Sends(i, Node, frames)
<1>. USE ZenonT(30)
<1>1. DOMAIN chan = Node /\ \A a \in Node : DOMAIN chan[a] = Node  BY DEF ChannelType
<1>2. chan' = [chan EXCEPT ![i] = [k \in Node |-> IF k = i THEN chan[i][k] ELSE chan[i][k] \o frames]]
  BY DEF Broadcast, SendAll
<1>3. \A a, b \in Node : \/ chan'[a][b] = chan[a][b]
                         \/ a = i /\ b \in Node /\ chan'[a][b] = chan[a][b] \o frames
  BY <1>1, <1>2
<1>. QED  BY <1>3, ChannelsSend

\* A handler that reads a frame from j and addresses every peer.
LEMMA ReadAndBroadcastSends ==
    ASSUME chan \in ChannelType, NEW i \in Node, NEW j \in Node, i # j, chan[j][i] # <<>>,
           NEW frames \in Seq(Message), ReadAndBroadcast(i, j, frames)
    PROVE  Sends(i, Node, frames) /\ chan'[j][i] = Tail(chan[j][i])
<1>. USE ZenonT(30)
<1>. DEFINE read == [chan EXCEPT ![j][i] = Tail(@)]
<1>1. chan' = [read EXCEPT ![i] = [k \in Node |-> IF k = i THEN read[i][k] ELSE read[i][k] \o frames]]
  BY DEF ReadAndBroadcast, SendAll
<1>2. DOMAIN chan = Node /\ \A a \in Node : DOMAIN chan[a] = Node  BY DEF ChannelType
<1>3. DOMAIN read = Node /\ \A a \in Node : DOMAIN read[a] = Node  BY <1>2
<1>4. \A a, b \in Node : read[a][b] = IF a = j /\ b = i THEN Tail(chan[j][i]) ELSE chan[a][b]
  BY SMT, <1>2
<1>. HIDE DEF read
<1>5. \A a, b \in Node : chan'[a][b] = IF a = i /\ b # i THEN read[i][b] \o frames ELSE read[a][b]
  BY <1>1, <1>3, SMTT(30)
<1>6. ASSUME NEW a \in Node, NEW b \in Node
      PROVE  \/ chan'[a][b] = chan[a][b]
             \/ chan[a][b] # <<>> /\ chan'[a][b] = Tail(chan[a][b])
             \/ a = i /\ b \in Node /\ chan'[a][b] = chan[a][b] \o frames
  <2>1. CASE a = j /\ b = i
    <3>1. chan'[a][b] = Tail(chan[j][i])  BY <1>4, <1>5, <2>1
    <3>. QED  BY <2>1, <3>1
  <2>2. CASE ~(a = j /\ b = i)
    <3>1. read[a][b] = chan[a][b]  BY <1>4, <2>2
    <3>2. CASE a = i /\ b # i
      <4>1. chan'[a][b] = read[a][b] \o frames  BY <1>5, <3>2
      <4>. QED  BY <3>1, <3>2, <4>1
    <3>3. CASE ~(a = i /\ b # i)
      <4>1. chan'[a][b] = read[a][b]  BY <1>5, <3>3
      <4>. QED  BY <3>1, <4>1
    <3>. QED  BY <3>2, <3>3
  <2>. QED  BY <2>1, <2>2
<1>7. chan'[j][i] = Tail(chan[j][i])  BY <1>4, <1>5
<1>. QED  BY <1>6, <1>7, ChannelsSend

\* A broken connection or a restart loses frames only.
LEMMA LossSends ==
    ASSUME chan \in ChannelType, NEW i \in Node,
           \A a, b \in Node : chan'[a][b] = chan[a][b] \/ chan'[a][b] = <<>>
    PROVE  Sends(i, {}, <<>>)
<1>. USE ZenonT(30)
<1>1. <<>> \in Seq(Message)  BY SeqEmpty
<1>. QED  BY <1>1, ChannelsSend

-----------------------------------------------------------------------------
(* The ballot box: b[t][v] is whom v voted for in term t.                  *)

Ballots == [Nat -> [Node -> Node \cup {Nil}]]

Box(b) ==
    /\ b \in Ballots
    /\ \A t \in Nat : \A v \in Node : b[t][v] # Nil =>
          /\ t <= currentTerm[v]
          /\ t = currentTerm[v] => votedFor[v] = b[t][v]

\* The box after a step: the votes the nodes hold now are in it.
CastVotes(b) ==
    [t \in Nat |-> [v \in Node |->
        IF currentTerm'[v] = t /\ votedFor'[v] # Nil THEN votedFor'[v] ELSE b[t][v]]]

Grown(b, b2) == \A t \in Nat : \A v \in Node : b[t][v] # Nil => b2[t][v] = b[t][v]

Won(b, c, t) == Cardinality({v \in Node : b[t][v] = c}) >= QuorumSize

\* Every step fills the box and takes nothing out of it: VoteKept.
LEMMA BoxFills ==
    ASSUME LoopTypeOK, LoopTypeOK', VoteKept, NEW b, Box(b), NEW b2, b2 = CastVotes(b)
    PROVE  /\ Box(b2)'
           /\ Grown(b, b2)
           /\ \A v \in Node : votedFor'[v] # Nil => b2[currentTerm'[v]][v] = votedFor'[v]
<1>. USE ZenonT(30)
<1>1. \A t \in Nat : \A v \in Node :
        b2[t][v] = IF currentTerm'[v] = t /\ votedFor'[v] # Nil THEN votedFor'[v] ELSE b[t][v]
  BY DEF CastVotes
<1>2. /\ currentTerm \in [Node -> Nat] /\ currentTerm' \in [Node -> Nat]
      /\ votedFor' \in [Node -> Node \cup {Nil}] /\ b \in Ballots
  BY DEF LoopTypeOK, Box
<1>3. b2 \in Ballots  BY <1>2 DEF CastVotes, Ballots
<1>4. ASSUME NEW t \in Nat, NEW v \in Node, b[t][v] # Nil
      PROVE  /\ b2[t][v] = b[t][v] /\ t <= currentTerm'[v]
             /\ t = currentTerm'[v] => votedFor'[v] = b[t][v]
  <2>1. t <= currentTerm[v] /\ (t = currentTerm[v] => votedFor[v] = b[t][v])
    BY <1>4 DEF Box
  <2>2. currentTerm'[v] >= currentTerm[v] /\ currentTerm[v] \in Nat /\ currentTerm'[v] \in Nat
    BY <1>2 DEF VoteKept
  <2>3. t <= currentTerm'[v] /\ (t = currentTerm'[v] => t = currentTerm[v])  BY <2>1, <2>2, SMTT(30)
  <2>4. t = currentTerm'[v] => votedFor'[v] = b[t][v]
    BY <1>4, <2>1, <2>3 DEF VoteKept
  <2>. QED  BY <1>1, <2>3, <2>4
<1>5. Grown(b, b2)  BY <1>4 DEF Grown
<1>6. ASSUME NEW t \in Nat, NEW v \in Node, b2[t][v] # Nil
      PROVE  t <= currentTerm'[v] /\ (t = currentTerm'[v] => votedFor'[v] = b2[t][v])
  <2>1. CASE b[t][v] # Nil  BY <1>4, <2>1
  <2>2. CASE b[t][v] = Nil
    <3>1. currentTerm'[v] = t /\ b2[t][v] = votedFor'[v]  BY <1>1, <1>6, <2>2
    <3>. QED  BY SMT, <3>1
  <2>. QED  BY <2>1, <2>2
<1>7. Box(b2)'  BY <1>3, <1>6 DEF Box
<1>8. \A v \in Node : votedFor'[v] # Nil => b2[currentTerm'[v]][v] = votedFor'[v]
  BY <1>1, <1>2
<1>. QED  BY <1>5, <1>7, <1>8

-----------------------------------------------------------------------------
(* Votes on their way.                                                     *)

Ask(t) == {m \in Message : m.type = "VOTE_REQ" /\ m.term = t}
Grant(t) == {m \in Message : m.type = "VOTE_RESP" /\ m.term = t /\ m.granted}

\* Between a candidate c and a voter v there is at most one request or one
\* granted answer per term, and the answer is backed by the box.
PairOK(b, c, v, t) ==
    /\ Once(chan[c][v], Ask(t)) /\ Once(chan[v][c], Grant(t))
    /\ ~(Has(chan[c][v], Ask(t)) /\ Has(chan[v][c], Grant(t)))
    /\ Has(chan[c][v], Ask(t)) => t <= currentTerm[c]
    /\ Has(chan[v][c], Grant(t)) => b[t][v] = c /\ t <= currentTerm[c]

PairInv(b) == \A c, v \in Node : c # v => \A t \in Nat : PairOK(b, c, v, t)

\* Nothing of term t is under way between c and v.
Idle(c, v, t) == ~Has(chan[c][v], Ask(t)) /\ ~Has(chan[v][c], Grant(t))

\* The voters whose answer in the current term c may already have counted.
Counted(b, c) ==
    {v \in Node : b[currentTerm[c]][v] = c /\ (v # c => Idle(c, v, currentTerm[c]))}

VotesInv(b) ==
    \A c \in Node : role[c] = Candidate => votes[c] <= Cardinality(Counted(b, c))

\* How a step may use the channels: a request is of a term that is new to its
\* sender, and a granted answer consumes the request and is in the box.
Orderly(b2, i, D, frames) ==
    /\ D \subseteq Node
    /\ Sends(i, D, frames)
    /\ \A t \in Nat : Once(frames, Ask(t)) /\ Once(frames, Grant(t))
    /\ \A t \in Nat : Has(frames, Ask(t)) => t > currentTerm[i] /\ t <= currentTerm'[i]
    /\ \A t \in Nat : Has(frames, Grant(t)) => \A c \in D :
          c # i => Has(chan[c][i], Ask(t)) /\ ~Has(chan'[c][i], Ask(t)) /\ b2[t][i] = c

\* An orderly step keeps requests and answers in order.
LEMMA PairsKept ==
    ASSUME LoopTypeOK, LoopTypeOK', VoteKept, NEW b, PairInv(b), NEW b2, Grown(b, b2),
           NEW i \in Node, NEW D, NEW frames, Orderly(b2, i, D, frames)
    PROVE  PairInv(b2)'
<1>. USE ZenonT(30)
<1>. SUFFICES ASSUME NEW c \in Node, NEW v \in Node, c # v, NEW t \in Nat
              PROVE  PairOK(b2, c, v, t)'
  BY DEF PairInv
<1>. DEFINE newAsk == c = i /\ v \in D /\ Has(frames, Ask(t))
            newGrant == v = i /\ c \in D /\ Has(frames, Grant(t))
<1>1. PairOK(b, c, v, t)  BY DEF PairInv
<1>2. /\ Has(chan'[c][v], Ask(t)) => Has(chan[c][v], Ask(t)) \/ newAsk
      /\ Has(chan'[v][c], Grant(t)) => Has(chan[v][c], Grant(t)) \/ newGrant
  BY DEF Orderly, Sends
<1>3. /\ ~(newAsk /\ Has(chan[c][v], Ask(t))) => Once(chan'[c][v], Ask(t))
      /\ ~(newGrant /\ Has(chan[v][c], Grant(t))) => Once(chan'[v][c], Grant(t))
  BY <1>1 DEF Orderly, Sends, PairOK
<1>4. /\ currentTerm[c] \in Nat /\ currentTerm'[c] \in Nat /\ currentTerm'[c] >= currentTerm[c]
  BY DEF LoopTypeOK, VoteKept
<1>5. newAsk => t > currentTerm[c] /\ t <= currentTerm'[c]  BY DEF Orderly
<1>6. ASSUME newGrant
      PROVE  Has(chan[c][v], Ask(t)) /\ ~Has(chan'[c][v], Ask(t)) /\ b2[t][v] = c
  <2>1. v = i /\ c \in D /\ c # i /\ Has(frames, Grant(t))  BY <1>6
  <2>2. Has(chan[c][i], Ask(t)) /\ ~Has(chan'[c][i], Ask(t)) /\ b2[t][i] = c
    BY <2>1 DEF Orderly
  <2>. QED  BY <2>1, <2>2
<1>7. ~(newAsk /\ newGrant)  OBVIOUS
<1>8. /\ Has(chan[c][v], Ask(t)) => t <= currentTerm[c]
      /\ Has(chan[v][c], Grant(t)) => b[t][v] = c /\ t <= currentTerm[c]
      /\ ~(Has(chan[c][v], Ask(t)) /\ Has(chan[v][c], Grant(t)))
  BY <1>1 DEF PairOK
<1>9. b[t][v] = c => b2[t][v] = c  BY NodeAssumption DEF Grown
<1>. HIDE DEF newAsk, newGrant
<1>10. newAsk => ~Has(chan[c][v], Ask(t)) /\ ~Has(chan[v][c], Grant(t))
  <2>1. newAsk => ~(t <= currentTerm[c])  BY <1>4, <1>5, SMTT(30)
  <2>. QED  BY <1>8, <2>1
<1>11. (t <= currentTerm[c]) => (t <= currentTerm'[c])  BY <1>4, SMTT(30)
<1>12. Once(chan'[c][v], Ask(t)) /\ Once(chan'[v][c], Grant(t))
  BY <1>3, <1>6, <1>8, <1>10
<1>13. ~(Has(chan'[c][v], Ask(t)) /\ Has(chan'[v][c], Grant(t)))
  BY <1>2, <1>6, <1>7, <1>8, <1>10
<1>14. Has(chan'[c][v], Ask(t)) => t <= currentTerm'[c]
  BY <1>2, <1>5, <1>8, <1>11
<1>15. Has(chan'[v][c], Grant(t)) => b2[t][v] = c /\ t <= currentTerm'[c]
  BY <1>2, <1>6, <1>8, <1>9, <1>11
<1>. QED  BY <1>12, <1>13, <1>14, <1>15 DEF PairOK

-----------------------------------------------------------------------------
(* Logs.                                                                   *)

Agree(x, y, k) == k <= Len(x) /\ k <= Len(y) /\ \A n \in 1..k : x[n] = y[n]

\* l[t] is the log that the leader of term t had when it was last seen leading.
LeaderLogs == [Nat -> Seq(Entry)]

\* Up to each of its entries, x is what the leader of the entry's term had.
Conforms(x, l) == \A k \in DOMAIN x : Agree(x, l[x[k].term], k)

Extends(l, l2) == \A t \in Nat : Agree(l[t], l2[t], Len(l[t]))

\* An AppendEntries frame that was cut out of lg.
SliceOf(m, lg) ==
    /\ m.prev + Len(m.entries) <= Len(lg)
    /\ m.prevTerm = LogTermAt(lg, m.prev)
    /\ \A k \in 1..Len(m.entries) : m.entries[k] = lg[m.prev + k]

CutFrom(m, term, lg) == m.type = "APPEND" /\ m.term = term /\ SliceOf(m, lg)

\* Agreement is an equivalence on prefixes.
LEMMA AgreeProperties ==
    ASSUME NEW x \in Seq(Entry), NEW y \in Seq(Entry), NEW z \in Seq(Entry),
           NEW n \in Nat, NEW k \in Nat, k <= n
    PROVE  /\ Agree(x, y, n) => Agree(y, x, n)
           /\ Agree(x, y, n) => Agree(x, y, k)
           /\ Agree(x, y, k) /\ Agree(y, z, n) => Agree(x, z, k)
           /\ Agree(x, y, n) /\ Agree(y, z, k) => Agree(x, z, k)
           /\ n <= Len(x) => Agree(x, x, n)
<1>1. Len(x) \in Nat /\ Len(y) \in Nat /\ Len(z) \in Nat  BY SeqFields, ZenonT(30)
<1>. QED  BY <1>1 DEF Agree

\* What conforms to the leaders' logs still does when these grow.
LEMMA ConformsExtends ==
    ASSUME NEW x \in Seq(Entry), NEW l \in LeaderLogs, NEW l2 \in LeaderLogs,
           Extends(l, l2), Conforms(x, l)
    PROVE  Conforms(x, l2)
<1>. USE ZenonT(30)
<1>. SUFFICES ASSUME NEW k \in DOMAIN x  PROVE Agree(x, l2[x[k].term], k)
  BY DEF Conforms
<1>. DEFINE t == x[k].term
<1>1. k \in 1..Len(x) /\ Len(x) \in Nat  BY SeqFields
<1>2. x[k] \in Entry  BY <1>1, SeqElement
<1>3. t \in Nat /\ k \in Nat  BY <1>1, <1>2, SMTT(30) DEF Entry
<1>. HIDE DEF t
<1>4. Agree(x, l[t], k)  BY DEF Conforms, t
<1>5. Agree(l[t], l2[t], Len(l[t]))  BY <1>3 DEF Extends
<1>6. l[t] \in Seq(Entry) /\ l2[t] \in Seq(Entry)  BY <1>3 DEF LeaderLogs
<1>7. Len(l[t]) \in Nat  BY <1>6, SeqFields
<1>8. k <= Len(l[t])  BY <1>4 DEF Agree
<1>9. Agree(x, l2[t], k)  BY <1>3, <1>4, <1>5, <1>6, <1>7, <1>8, AgreeProperties
<1>. QED  BY <1>9 DEF t

\* A prefix of what conforms, conforms.
LEMMA ConformsPrefix ==
    ASSUME NEW x \in Seq(Entry), NEW y \in Seq(Entry), NEW l \in LeaderLogs,
           Conforms(x, l), Agree(y, x, Len(y))
    PROVE  Conforms(y, l)
<1>. USE ZenonT(30)
<1>. SUFFICES ASSUME NEW k \in DOMAIN y  PROVE Agree(y, l[y[k].term], k)
  BY DEF Conforms
<1>1. /\ k \in 1..Len(y) /\ Len(y) \in Nat /\ Len(x) \in Nat /\ DOMAIN x = 1..Len(x)
  BY SeqFields
<1>2. Len(y) <= Len(x) /\ y[k] = x[k]  BY <1>1 DEF Agree
<1>3. k \in DOMAIN x /\ k \in Nat /\ k <= Len(y)  BY <1>1, <1>2, SMTT(30)
<1>4. x[k] \in Entry  BY <1>1, <1>3, SeqElement
<1>. DEFINE t == x[k].term
<1>5. t \in Nat  BY <1>4, SMTT(30) DEF Entry
<1>6. Agree(x, l[t], k)  BY <1>3 DEF Conforms
<1>. HIDE DEF t
<1>7. l[t] \in Seq(Entry)  BY <1>5 DEF LeaderLogs
<1>8. Agree(y, l[t], k)  BY <1>1, <1>3, <1>6, <1>7, AgreeProperties
<1>. QED  BY <1>2, <1>8 DEF t

\* A frame stays a slice when the log it was cut out of grows.
LEMMA SliceExtends ==
    ASSUME NEW m \in Message, m.type = "APPEND", NEW x \in Seq(Entry), NEW y \in Seq(Entry),
           SliceOf(m, x), Agree(x, y, Len(x))
    PROVE  SliceOf(m, y)
<1>. USE ZenonT(30)
<1>1. m.prev \in Nat /\ m.entries \in Seq(Entry)  BY FrameFields
<1>2. /\ Len(x) \in Nat /\ Len(y) \in Nat /\ Len(m.entries) \in Nat
      /\ DOMAIN x = 1..Len(x) /\ DOMAIN y = 1..Len(y)
  BY <1>1, SeqFields
<1>3. Len(x) <= Len(y) /\ \A n \in 1..Len(x) : x[n] = y[n]  BY <1>2, SMTT(30) DEF Agree
<1>4. m.prev + Len(m.entries) <= Len(x)  BY DEF SliceOf
<1>5. LogTermAt(x, m.prev) = LogTermAt(y, m.prev)
  BY <1>1, <1>2, <1>3, <1>4, SMTT(30) DEF LogTermAt
<1>6. \A k \in 1..Len(m.entries) : m.prev + k \in 1..Len(x)  BY <1>1, <1>2, <1>4, SMTT(30)
<1>7. m.prev + Len(m.entries) <= Len(y)  BY <1>1, <1>2, <1>3, <1>4, SMTT(30)
<1>. QED  BY <1>3, <1>5, <1>6, <1>7 DEF SliceOf

\* send_append() cuts its frame out of the log.
LEMMA AppendFrameSlice ==
    ASSUME NEW lg \in Seq(Entry), NEW term, NEW commit,
           NEW from \in 1..(Len(lg) + 1), NEW upto \in 0..Len(lg)
    PROVE  CutFrom(AppendFrame(term, lg, from, upto, commit), term, lg)
<1>. USE ZenonT(30)
<1>. DEFINE m == AppendFrame(term, lg, from, upto, commit)
            e == SubSeq(lg, from, upto)
<1>1. /\ m.type = "APPEND" /\ m.term = term /\ m.prev = from - 1
      /\ m.prevTerm = LogTermAt(lg, from - 1) /\ m.entries = e
  BY DEF AppendFrame
<1>2. Len(lg) \in Nat  BY SeqFields
<1>3. \A k \in from..upto : k \in 1..Len(lg)  BY <1>2, SMTT(30)
<1>4. \A k \in from..upto : lg[k] \in Entry  BY <1>3, SeqElement
<1>5. from \in Int /\ upto \in Int  BY <1>2, SMTT(30)
<1>6. /\ Len(e) = IF from <= upto THEN upto - from + 1 ELSE 0
      /\ \A k \in 1..(upto - from + 1) : e[k] = lg[from + k - 1]
  BY <1>4, <1>5, SubSeqFields, SMTT(30)
<1>. HIDE DEF m, e
<1>7. from - 1 + Len(e) <= Len(lg)  BY <1>2, <1>6, SMTT(30)
<1>8. \A k \in 1..Len(e) : k \in 1..(upto - from + 1) /\ from + k - 1 = from - 1 + k
  BY <1>2, <1>6, SMTT(30)
<1>9. \A k \in 1..Len(e) : e[k] = lg[from - 1 + k]  BY <1>6, <1>8
<1>10. SliceOf(m, lg)  BY <1>1, <1>7, <1>9 DEF SliceOf
<1>. QED  BY <1>1, <1>10 DEF m, CutFrom

\* Every frame of pump_peer() is an AppendEntries of the term, cut out of the log.
LEMMA PumpFramesSlice ==
    ASSUME NEW lg \in Seq(Entry), NEW term, NEW commit, NEW next \in 1..(Len(lg) + 1), NEW m,
           Has(PumpFrames(term, lg, next, commit), {m})
    PROVE  CutFrom(m, term, lg)
<1>. USE ZenonT(30)
<1>. DEFINE n == (Len(lg) - next + MaxBatch) \div MaxBatch
<1>1. MaxBatch \in Nat \ {0}  BY SMT, BoundAssumption
<1>2. Len(lg) \in Nat  BY SeqFields
<1>3. DOMAIN PumpFrames(term, lg, next, commit) = 1..n  BY DEF PumpFrames
<1>4. PICK b \in 1..n : PumpFrames(term, lg, next, commit)[b] = m
  BY <1>3 DEF Has
<1>. DEFINE from == next + (b - 1) * MaxBatch
            upto == Lesser(from + MaxBatch - 1, Len(lg))
<1>5. m = AppendFrame(term, lg, from, upto, commit)  BY <1>4 DEF PumpFrames
<1>6. (b - 1) * MaxBatch \in Nat /\ (b - 1) * MaxBatch <= Len(lg) - next + 1
  <2>1. n \in Int /\ n * MaxBatch <= Len(lg) - next + MaxBatch  BY <1>1, <1>2, SMTT(30)
  <2>. HIDE DEF n
  <2>2. (b - 1) * MaxBatch = b * MaxBatch - MaxBatch /\ b * MaxBatch <= n * MaxBatch
        /\ (b - 1) * MaxBatch \in Nat
    BY <1>1, <2>1, SMTT(30)
  <2>. QED  BY <1>1, <1>2, <2>1, <2>2, SMTT(30)
<1>7. from \in 1..(Len(lg) + 1)  BY <1>2, <1>6, SMTT(30)
<1>. HIDE DEF from
<1>8. upto \in 0..Len(lg)  BY <1>1, <1>2, <1>7, SMTT(30) DEF Lesser
<1>. HIDE DEF upto
<1>. QED  BY <1>5, <1>7, <1>8, AppendFrameSlice

\* The log-matching check of CL_FRAME_APPEND: a log that passes it and takes
\* over the frame is the leader's log up to its end.
LEMMA AcceptedAgrees ==
    ASSUME NEW l \in LeaderLogs, NEW x \in Seq(Entry), Conforms(x, l),
           NEW y \in Seq(Entry), Conforms(y, l),
           NEW m \in Message, m.type = "APPEND", SliceOf(m, y),
           m.prev <= Len(x), m.prev > 0 => LogTermAt(x, m.prev) = m.prevTerm
    PROVE  LET lg == SubSeq(x, 1, m.prev) \o m.entries
           IN  lg \in Seq(Entry) /\ Agree(lg, y, Len(lg))
<1>. USE ZenonT(30)
<1>. DEFINE p == m.prev
            pre == SubSeq(x, 1, p)
            e == m.entries
            lg == pre \o e
<1>1. p \in Nat /\ e \in Seq(Entry)  BY FrameFields
<1>2. /\ Len(x) \in Nat /\ Len(y) \in Nat /\ Len(e) \in Nat
      /\ DOMAIN x = 1..Len(x) /\ DOMAIN y = 1..Len(y)
  BY <1>1, SeqFields
<1>3. p + Len(e) <= Len(y) /\ m.prevTerm = LogTermAt(y, p) /\ \A k \in 1..Len(e) : e[k] = y[p + k]
  BY DEF SliceOf
<1>4. \A n \in 1..p : x[n] = y[n]
  <2>1. CASE p = 0  BY <2>1, SMTT(30)
  <2>2. CASE p > 0
    <3>1. p \in DOMAIN x /\ p \in DOMAIN y  BY <1>1, <1>2, <1>3, <2>2, SMTT(30)
    <3>2. x[p].term = y[p].term  BY <1>3, <2>2, <3>1 DEF LogTermAt
    <3>. DEFINE t == x[p].term
    <3>3. x[p] \in Entry  BY <1>2, <3>1, SeqElement
    <3>4. l[t] \in Seq(Entry)
      <4>1. t \in Nat  BY <3>3, SMTT(30) DEF Entry
      <4>. HIDE DEF t
      <4>. QED  BY <4>1 DEF LeaderLogs
    <3>5. Agree(x, l[t], p)  BY <3>1 DEF Conforms
    <3>6. Agree(y, l[t], p)  BY <3>1, <3>2 DEF Conforms
    <3>. HIDE DEF p, t
    <3>. QED  BY <3>5, <3>6 DEF Agree
  <2>. QED  BY <1>1, <2>1, <2>2, SMTT(30)
<1>5. pre \in Seq(Entry) /\ Len(pre) = p /\ \A k \in 1..p : pre[k] = x[k]
  BY <1>1, PrefixOfLog
<1>. HIDE DEF p, pre, e
<1>6. /\ lg \in Seq(Entry) /\ Len(lg) = Len(pre) + Len(e)
      /\ \A k \in 1..(Len(pre) + Len(e)) : lg[k] = IF k <= Len(pre) THEN pre[k] ELSE e[k - Len(pre)]
  BY <1>1, <1>5, SeqConcat
<1>. HIDE DEF lg
<1>7. ASSUME NEW k \in 1..Len(lg)  PROVE lg[k] = y[k]
  <2>0. k \in 1..(Len(pre) + Len(e))  BY <1>6
  <2>1. CASE k <= p
    <3>1. k \in 1..p  BY <1>1, <1>2, <1>5, <2>0, <2>1, SMTT(30)
    <3>2. lg[k] = pre[k]  BY <1>5, <1>6, <2>0, <2>1
    <3>. QED  BY <1>4, <1>5, <3>1, <3>2
  <2>2. CASE ~(k <= p)
    <3>1. k - p \in 1..Len(e) /\ p + (k - p) = k  BY <1>1, <1>2, <1>5, <2>0, <2>2, SMTT(30)
    <3>2. lg[k] = e[k - p]  BY <1>5, <1>6, <2>0, <2>2
    <3>. QED  BY <1>3, <3>1, <3>2
  <2>. QED  BY <2>1, <2>2
<1>8. Len(lg) <= Len(y) /\ Len(lg) <= Len(lg)  BY <1>1, <1>2, <1>3, <1>5, <1>6, SMTT(30)
<1>9. Agree(lg, y, Len(lg))  BY <1>7, <1>8 DEF Agree
<1>. QED  BY <1>6, <1>9 DEF lg, pre, p, e

=============================================================================
