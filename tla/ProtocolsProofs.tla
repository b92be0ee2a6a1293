---------------------------- MODULE ProtocolsProofs ----------------------------
(***************************************************************************)
(* Proofs about the protocols between the nodes: the rounds of Consensus,  *)
(* the scores and addresses of Reputation, the jobs of Training, the       *)
(* invoices and spends of LightningHardening, the streams of               *)
(* LightningStreams, the windows of RateLimits, the votes VoteAudit has    *)
(* seen, the lists and quorums of PeerDiversity, the answers of            *)
(* SafetyChecks, the loop and the splits of the Agents. Every component    *)
(* has its sections, with its inductive invariants and its type, and the   *)
(* last one puts the parts together.                                       *)
(***************************************************************************)
EXTENDS MCProtocols, FoldLemmas, FiniteSetTheorems, SequenceTheorems, TLAPS

-----------------------------------------------------------------------------
(***************************************************************************)
(* Consensus.  PassedIffQuorum is inductive once rounds have their shape:  *)
(* votes are only added, so approvals never fall.                          *)
(***************************************************************************)
RoundShape == [status : {"pending", "passed", "failed"}, votes : Seq(Vote), timer : BOOLEAN]

RoundsShaped ==
  /\ \A id \in DOMAIN rounds : rounds[id] \in RoundShape
  /\ waiting \subseteq DOMAIN rounds /\ public \subseteq DOMAIN rounds

ConsensusInv == RoundsShaped /\ PassedIffQuorum

\* 2f + 1 is at least one vote, whatever the number of nodes.
LEMMA QuorumPositive == QuorumSize \in Nat \ {0}
<1>1. Size \in Nat \ {0}
  BY ConsensusAssumption DEF Size
<1>2. (Size - 1) \div 3 \in Nat
  BY <1>1
<1> QED
  BY <1>2 DEF QuorumSize, Faulty

\* The approvals of a round are a number of its votes.
LEMMA ApprovalsCounted ==
  ASSUME NEW r \in RoundShape
  PROVE  IsFiniteSet({i \in DOMAIN r.votes : r.votes[i].approve}) /\ Approvals(r) \in Nat
<1>1. r.votes \in Seq(Vote)
  BY DEF RoundShape
<1>2. DOMAIN r.votes = 1..Len(r.votes) /\ Len(r.votes) \in Nat
  BY <1>1
<1>3. IsFiniteSet(DOMAIN r.votes)
  BY <1>2, FS_Interval
<1>4. {i \in DOMAIN r.votes : r.votes[i].approve} \in SUBSET DOMAIN r.votes
  OBVIOUS
<1>5. IsFiniteSet({i \in DOMAIN r.votes : r.votes[i].approve})
  BY <1>3, <1>4, FS_Subset
<1> QED
  BY <1>5, FS_CardinalityType DEF Approvals

\* A round without votes has no approvals.
LEMMA NoApprovals ==
  ASSUME NEW r \in RoundShape, r.votes = <<>>
  PROVE  Approvals(r) = 0
<1>1. {i \in DOMAIN r.votes : r.votes[i].approve} = {}
  OBVIOUS
<1> QED
  BY <1>1, FS_EmptySet DEF Approvals

\* One more vote takes no approval away.
LEMMA ApprovalsGrow ==
  ASSUME NEW r \in RoundShape, NEW q \in RoundShape, NEW v \in Vote,
         q.votes = Append(r.votes, v)
  PROVE  Approvals(r) <= Approvals(q)
<1> DEFINE R == {i \in DOMAIN r.votes : r.votes[i].approve}
           Q == {i \in DOMAIN q.votes : q.votes[i].approve}
<1>1. r.votes \in Seq(Vote)
  BY DEF RoundShape
<1>2. R \in SUBSET Q
  BY <1>1
<1>3. IsFiniteSet(Q)
  BY ApprovalsCounted
<1>4. Cardinality(R) <= Cardinality(Q)
  BY <1>2, <1>3, FS_Subset
<1> QED
  BY <1>4 DEF Approvals

\* The approvals of a round depend on its votes only.
LEMMA SameApprovals ==
  ASSUME NEW r, NEW q, q.votes = r.votes
  PROVE  Approvals(q) = Approvals(r)
BY DEF Approvals

\* A new round is pending and has no votes.
LEMMA AddedRound ==
  ASSUME ConsensusInv, NEW id, AddRound(id)
  PROVE  /\ id \notin DOMAIN rounds /\ DOMAIN rounds' = DOMAIN rounds \cup {id}
         /\ \A i \in DOMAIN rounds : rounds'[i] = rounds[i]
         /\ rounds'[id] = NewRound /\ NewRound \in RoundShape
         /\ \A i \in DOMAIN rounds' : rounds'[i] \in RoundShape
         /\ PassedIffQuorum'
<1>1. /\ id \notin DOMAIN rounds /\ DOMAIN rounds' = DOMAIN rounds \cup {id}
      /\ \A i \in DOMAIN rounds : rounds'[i] = rounds[i]
      /\ rounds'[id] = NewRound
  BY DEF AddRound
<1>2. NewRound \in RoundShape /\ NewRound.votes = <<>> /\ NewRound.status = "pending"
  BY DEF NewRound, RoundShape
<1>3. Approvals(NewRound) = 0
  BY <1>2, NoApprovals
<1>4. \A i \in DOMAIN rounds' : rounds'[i] \in RoundShape
  BY <1>1, <1>2 DEF ConsensusInv, RoundsShaped
<1>5. PassedIffQuorum'
  BY <1>1, <1>2, <1>3, QuorumPositive DEF ConsensusInv, PassedIffQuorum
<1> QED
  BY <1>1, <1>2, <1>4, <1>5

LEMMA CreateRoundInv ==
  ASSUME ConsensusInv, NEW id \in RoundIds, CreateRound(id)
  PROVE  ConsensusInv'
<1>1. AddRound(id) /\ public' = public \cup {id} /\ waiting' = waiting /\ verdicts' = verdicts
  BY DEF CreateRound
<1>2. RoundsShaped'
  BY <1>1, AddedRound DEF ConsensusInv, RoundsShaped
<1> QED
  BY <1>1, <1>2, AddedRound DEF ConsensusInv

LEMMA ProposeInv ==
  ASSUME ConsensusInv, NEW id \in RoundIds, NEW k \in MinPeers, ProposeVerification(id, k)
  PROVE  ConsensusInv'
<1>1. AddRound(id) /\ public' = public /\ waiting' = waiting \cup {id} /\ verdicts' = verdicts
  BY DEF ProposeVerification
<1>2. RoundsShaped'
  BY <1>1, AddedRound DEF ConsensusInv, RoundsShaped
<1> QED
  BY <1>1, <1>2, AddedRound DEF ConsensusInv

LEMMA RoundTimeoutInv ==
  ASSUME ConsensusInv, NEW id \in RoundIds, RoundTimeout(id)
  PROVE  ConsensusInv'
<1> DEFINE old == rounds[id]
           new == [old EXCEPT !.timer = FALSE, !.status = IF @ = "pending" THEN "failed" ELSE @]
<1>1. id \in DOMAIN rounds /\ rounds' = [rounds EXCEPT ![id] = new]
  BY DEF RoundTimeout
<1>2. old \in RoundShape
  BY <1>1 DEF ConsensusInv, RoundsShaped
<1>3. /\ new \in RoundShape /\ new.votes = old.votes
      /\ new.status = "passed" <=> old.status = "passed"
  BY <1>2 DEF RoundShape
<1>4. Approvals(new) = Approvals(old)
  BY <1>3, SameApprovals
<1>5. public' = public /\ waiting' = waiting /\ verdicts' = verdicts
  BY DEF RoundTimeout
<1> HIDE DEF new
<1>6. RoundsShaped'
  BY <1>1, <1>3, <1>5 DEF ConsensusInv, RoundsShaped
<1>7. PassedIffQuorum'
  BY <1>1, <1>3, <1>4 DEF ConsensusInv, PassedIffQuorum
<1> QED
  BY <1>6, <1>7 DEF ConsensusInv

LEMMA ReceiveVoteInv ==
  ASSUME ConsensusInv, NEW id \in RoundIds, NEW n \in Voters, NEW approve \in BOOLEAN,
         ReceiveVote(id, n, approve)
  PROVE  ConsensusInv'
<1> DEFINE old == rounds[id]
           vote == [node |-> n, approve |-> approve]
           r == [old EXCEPT !.votes = Append(@, vote)]
           new == IF Approvals(r) >= QuorumSize THEN [r EXCEPT !.status = "passed"] ELSE r
<1>1. id \in DOMAIN rounds /\ id \in public /\ rounds' = [rounds EXCEPT ![id] = new]
  BY DEF ReceiveVote
<1>2. old \in RoundShape
  BY <1>1 DEF ConsensusInv, RoundsShaped
<1>3. vote \in Vote
  BY DEF Vote
<1>4. old.votes \in Seq(Vote)
  BY <1>2 DEF RoundShape
<1>5. Append(old.votes, vote) \in Seq(Vote)
  <2> HIDE DEF old, vote
  <2> QED
    BY <1>3, <1>4
<1>6. r \in RoundShape /\ r.votes = Append(old.votes, vote) /\ r.status = old.status
  <2> HIDE DEF old, vote
  <2> QED
    BY <1>2, <1>5 DEF RoundShape
<1>7. Approvals(old) <= Approvals(r) /\ Approvals(old) \in Nat /\ Approvals(r) \in Nat
  <2> HIDE DEF old, vote, r
  <2> QED
    BY <1>2, <1>3, <1>6, ApprovalsGrow, ApprovalsCounted
<1> HIDE DEF r, old
<1>8. new \in RoundShape /\ new.votes = r.votes
  BY <1>6 DEF RoundShape
<1>9. Approvals(new) = Approvals(r)
  <2> HIDE DEF new
  <2> QED
    BY <1>8, SameApprovals
<1>10. old.status = "passed" <=> Approvals(old) >= QuorumSize
  BY <1>1 DEF old, ConsensusInv, PassedIffQuorum
<1>11. new.status = "passed" <=> Approvals(new) >= QuorumSize
  <2>1. CASE Approvals(r) >= QuorumSize
    <3>1. new.status = "passed"
      BY <1>6, <2>1 DEF RoundShape
    <3> QED
      BY <2>1, <3>1, <1>9
  <2>2. CASE ~(Approvals(r) >= QuorumSize)
    <3>1. new = r
      BY <2>2
    <3>2. old.status # "passed"
      BY <2>2, <1>7, <1>10, QuorumPositive
    <3> QED
      BY <2>2, <3>1, <3>2, <1>6
  <2> QED
    BY <2>1, <2>2
<1>12. public' = public /\ waiting' = waiting /\ verdicts' = verdicts
  BY DEF ReceiveVote
<1> HIDE DEF new
<1>13. RoundsShaped'
  BY <1>1, <1>8, <1>12 DEF ConsensusInv, RoundsShaped
<1>14. PassedIffQuorum'
  BY <1>1, <1>11 DEF ConsensusInv, PassedIffQuorum
<1> QED
  BY <1>13, <1>14 DEF ConsensusInv

LEMMA EvaluateInv ==
  ASSUME ConsensusInv, NEW id \in RoundIds, EvaluateVerification(id)
  PROVE  ConsensusInv'
<1>1. id \in waiting /\ rounds' = rounds /\ waiting' = waiting \ {id} /\ public' = public \cup {id}
  BY DEF EvaluateVerification
<1> QED
  BY <1>1 DEF ConsensusInv, RoundsShaped, PassedIffQuorum

LEMMA ConsensusInitInv == ConsensusInit => ConsensusInv
BY DEF ConsensusInit, ConsensusInv, RoundsShaped, PassedIffQuorum

LEMMA ConsensusStepInv == ConsensusInv /\ [ConsensusNext]_consensusVars => ConsensusInv'
<1> SUFFICES ASSUME ConsensusInv, [ConsensusNext]_consensusVars PROVE ConsensusInv'
  OBVIOUS
<1> USE DEF RoundsShaped, PassedIffQuorum
<1>1. CASE \E id \in RoundIds : CreateRound(id)
  BY <1>1, CreateRoundInv
<1>2. CASE \E id \in RoundIds : RoundTimeout(id)
  BY <1>2, RoundTimeoutInv
<1>3. CASE \E id \in RoundIds : EvaluateVerification(id)
  BY <1>3, EvaluateInv
<1>4. CASE \E id \in RoundIds, n \in Voters, approve \in BOOLEAN : ReceiveVote(id, n, approve)
  BY <1>4, ReceiveVoteInv
<1>5. CASE \E id \in RoundIds, k \in MinPeers : ProposeVerification(id, k)
  BY <1>5, ProposeInv
<1>6. CASE \E k \in MinPeers : VerifyAlone(k)
  BY <1>6 DEF VerifyAlone, ConsensusInv
<1>7. CASE \E w \in Workers, p \in Proofs : SubmitProof(w, p)
  BY <1>7 DEF SubmitProof, ConsensusInv
<1>8. CASE BullsharkSequence
  BY <1>8 DEF BullsharkSequence, ConsensusInv
<1>9. CASE UNCHANGED consensusVars
  BY <1>9 DEF consensusVars, ConsensusInv
<1> QED
  BY <1>1, <1>2, <1>3, <1>4, <1>5, <1>6, <1>7, <1>8, <1>9 DEF ConsensusNext

LEMMA ConsensusInvariant == ConsensusSpec => []ConsensusInv
BY ConsensusInitInv, ConsensusStepInv, PTL DEF ConsensusSpec

\* receiveVote counts approvals in whatever order votes and the timer of a round come: a round
\* is passed exactly when it holds a quorum of them.
THEOREM PassedIffQuorumAlways == ConsensusSpec => []PassedIffQuorum
<1>1. ConsensusInv => PassedIffQuorum
  BY DEF ConsensusInv
<1> QED
  BY <1>1, ConsensusInvariant, PTL

\* The sequences of a sequence, one after the other, are a sequence of their elements.
LEMMA FlattenType ==
  ASSUME NEW T, NEW s \in Seq(Seq(T))
  PROVE  FlattenSeq(s) \in Seq(T)
<1> DEFINE n == Len(s)
           Flat(h, k) == h = [i \in 1..k |-> IF i = 1 THEN s[i] ELSE h[i - 1] \o s[i]]
<1>1. n \in Nat /\ DOMAIN s = 1..n /\ \A i \in 1..n : s[i] \in Seq(T)
  OBVIOUS
<1>2. CASE n = 0
  <2>1. s = <<>>
    BY <1>2
  <2> QED
    BY <1>2, <2>1 DEF FlattenSeq
<1>3. CASE n # 0
  <2> HIDE DEF n
  <2> DEFINE P == {k \in 0..n : \E h : Flat(h, k) /\ \A i \in 1..k : h[i] \in Seq(T)}
  <2>1. 0 \in P
    <3>1. PICK h : h = [i \in 1..0 |-> s[i]]
      OBVIOUS
    <3>2. 1..0 = {}
      OBVIOUS
    <3>3. Flat(h, 0) /\ \A i \in 1..0 : h[i] \in Seq(T)
      BY <3>1, <3>2
    <3>4. 0 \in 0..n
      BY <1>1
    <3> HIDE DEF Flat
    <3> QED
      BY <3>3, <3>4
  <2>2. ASSUME NEW k \in 0..n, k # n, k \in P PROVE k + 1 \in P
    <3>1. PICK h : Flat(h, k) /\ \A i \in 1..k : h[i] \in Seq(T)
      BY <2>2
    <3>2. k + 1 \in 1..n /\ k \in Nat /\ k + 1 \in 0..n
      BY <1>1, <2>2
    <3>3. PICK m \in 1..n : m = k + 1
      BY <3>2
    <3>4. PICK g : g = [i \in 1..m |-> IF i = 1 THEN s[i] ELSE h[i - 1] \o s[i]]
      OBVIOUS
    <3>5. ASSUME NEW i \in 1..k PROVE g[i] = h[i]
      <4>1. h[i] = IF i = 1 THEN s[i] ELSE h[i - 1] \o s[i]
        BY <3>1
      <4>2. i \in 1..m
        BY <3>2, <3>3
      <4>3. g[i] = IF i = 1 THEN s[i] ELSE h[i - 1] \o s[i]
        BY <3>4, <4>2
      <4> QED
        BY <4>1, <4>3
    <3>6. \A i \in 1..m : i # 1 => i - 1 \in 1..k
      BY <3>2, <3>3
    <3>7. Flat(g, m)
      BY <3>4, <3>5, <3>6
    <3>8. ASSUME NEW i \in 1..m PROVE g[i] \in Seq(T)
      <4>1. i \in 1..n /\ s[i] \in Seq(T)
        BY <1>1, <3>3
      <4>2. CASE i = 1
        BY <3>4, <4>1, <4>2
      <4>3. CASE i # 1
        <5>1. h[i - 1] \in Seq(T) /\ g[i] = h[i - 1] \o s[i]
          BY <3>1, <3>4, <3>6, <4>3
        <5> QED
          BY <4>1, <5>1, ConcatProperties
      <4> QED
        BY <4>2, <4>3
    <3> HIDE DEF Flat
    <3> QED
      BY <3>2, <3>3, <3>7, <3>8
  <2> HIDE DEF P
  <2>3. n \in P
    <3>1. n \in Nat /\ n \in 0..n
      BY <1>1
    <3>2. \A k \in 0..n : k # n /\ k \in P => k + 1 \in P
      BY <2>2
    <3>3. 0..n \subseteq P
      BY <2>1, <3>1, <3>2, UpTo
    <3> QED
      BY <3>1, <3>3
  <2>4. PICK f : f = (CHOOSE h : Flat(h, n))
    OBVIOUS
  <2>5. \E h : Flat(h, n)
    BY <2>3 DEF P
  <2>6. Flat(f, n)
    <3> HIDE DEF Flat
    <3> QED
      BY <2>4, <2>5
  <2>7. FlattenSeq(s) = f[n]
    BY <1>3, <2>4 DEF FlattenSeq, n
  <2> DEFINE R == {k \in 0..n : k = 0 \/ f[k] \in Seq(T)}
  <2>8. 0 \in R
    BY <1>1
  <2>9. ASSUME NEW k \in 0..n, k # n, k \in R PROVE k + 1 \in R
    <3>1. PICK m \in 1..n : m = k + 1 /\ m - 1 = k
      BY <1>1, <2>9
    <3>2. s[m] \in Seq(T) /\ m \in 0..n
      BY <1>1, <3>1
    <3>3. f[m] = IF m = 1 THEN s[m] ELSE f[k] \o s[m]
      BY <2>6, <3>1
    <3>4. f[m] \in Seq(T)
      <4>1. CASE m = 1
        BY <3>2, <3>3, <4>1
      <4>2. CASE m # 1
        <5>1. f[k] \in Seq(T)
          BY <2>9, <3>1, <4>2
        <5> QED
          BY <3>2, <3>3, <4>2, <5>1, ConcatProperties
      <4> QED
        BY <4>1, <4>2
    <3> QED
      BY <3>1, <3>2, <3>4
  <2> HIDE DEF R
  <2>10. n \in R
    <3>1. n \in Nat /\ n \in 0..n
      BY <1>1
    <3>2. \A k \in 0..n : k # n /\ k \in R => k + 1 \in R
      BY <2>9
    <3>3. 0..n \subseteq R
      BY <2>8, <3>1, <3>2, UpTo
    <3> QED
      BY <3>1, <3>3
  <2> QED
    BY <1>3, <2>7, <2>10 DEF R
<1> QED
  BY <1>2, <1>3

\* What the shape of the rounds leaves open: the number of votes, the verdicts and the mempool.
ConsensusTyped ==
  /\ DOMAIN rounds \subseteq RoundIds
  /\ \A id \in DOMAIN rounds : Len(rounds[id].votes) <= MaxVotes
  /\ verdicts \subseteq Verdict
  /\ penalties \in [Voters -> 0..10]
  /\ sequenced \in Seq(Proofs)
  /\ mempool \in Seq([worker : Workers, batch : Seq(Proofs)])

LEMMA MempoolIs ==
  ASSUME ConsensusTyped
  PROVE  \E n \in Nat : /\ DOMAIN mempool = 1..n
                        /\ \A i \in 1..n : mempool[i] \in [worker : Workers, batch : Seq(Proofs)]
<1> DEFINE Entry == [worker : Workers, batch : Seq(Proofs)]
<1>1. mempool \in Seq(Entry)
  BY DEF ConsensusTyped
<1> HIDE DEF Entry
<1>2. /\ Len(mempool) \in Nat /\ DOMAIN mempool = 1..Len(mempool)
      /\ \A i \in 1..Len(mempool) : mempool[i] \in Entry
  BY <1>1, LenProperties
<1> QED
  BY <1>2 DEF Entry

LEMMA NewRoundTyped ==
  ASSUME ConsensusInv, ConsensusTyped, NEW id \in RoundIds, AddRound(id)
  PROVE  /\ DOMAIN rounds' \subseteq RoundIds
         /\ \A i \in DOMAIN rounds' : Len(rounds'[i].votes) <= MaxVotes
<1>1. /\ DOMAIN rounds' = DOMAIN rounds \cup {id} /\ rounds'[id] = NewRound
      /\ \A i \in DOMAIN rounds : rounds'[i] = rounds[i]
  BY AddedRound
<1>2. Len(NewRound.votes) <= MaxVotes
  <2>1. NewRound.votes = <<>> /\ Len(<<>>) = 0
    BY DEF NewRound
  <2> QED
    BY <2>1, ConsensusAssumption
<1> QED
  BY <1>1, <1>2 DEF ConsensusTyped

LEMMA SubmittedTyped ==
  ASSUME ConsensusTyped, NEW w \in Workers, NEW p \in Proofs, SubmitProof(w, p)
  PROVE  mempool' \in Seq([worker : Workers, batch : Seq(Proofs)])
<1> DEFINE Entry == [worker : Workers, batch : Seq(Proofs)]
<1>1. mempool \in Seq(Entry)
  BY DEF ConsensusTyped
<1>2. CASE \E i \in DOMAIN mempool : mempool[i].worker = w
  <2>1. ASSUME NEW e \in Entry PROVE [e EXCEPT !.batch = Append(@, p)] \in Entry
    <3>1. PICK b \in Seq(Proofs) : b = Append(e.batch, p)
      <4>1. e.batch \in Seq(Proofs)
        OBVIOUS
      <4> QED
        BY <4>1, AppendProperties
    <3>2. [e EXCEPT !.batch = Append(@, p)] = [e EXCEPT !.batch = b]
      BY <3>1
    <3> QED
      BY <3>2
  <2>2. mempool' = [i \in DOMAIN mempool |->
                      IF mempool[i].worker = w THEN [mempool[i] EXCEPT !.batch = Append(@, p)]
                      ELSE mempool[i]]
    BY <1>2 DEF SubmitProof
  <2> HIDE DEF Entry
  <2>3. PICK n \in Nat : DOMAIN mempool = 1..n /\ \A i \in 1..n : mempool[i] \in Entry
    BY <1>1, LenProperties
  <2>4. mempool' \in [1..n -> Entry]
    BY <2>1, <2>2, <2>3
  <2>5. mempool' \in Seq(Entry)
    BY <2>4
  <2> QED
    BY <2>5 DEF Entry
<1>3. CASE ~\E i \in DOMAIN mempool : mempool[i].worker = w
  <2>1. mempool' = Append(mempool, [worker |-> w, batch |-> <<p>>])
    BY <1>3 DEF SubmitProof
  <2>2. <<p>> \in Seq(Proofs)
    OBVIOUS
  <2>3. [worker |-> w, batch |-> <<p>>] \in Entry
    BY <2>2
  <2> HIDE DEF Entry
  <2>4. mempool' \in Seq(Entry)
    BY <1>1, <2>1, <2>3, AppendProperties
  <2> QED
    BY <2>4 DEF Entry
<1> QED
  BY <1>2, <1>3

LEMMA ConsensusTypedStep ==
  ConsensusInv /\ ConsensusTyped /\ [ConsensusNext]_consensusVars => ConsensusTyped'
<1> SUFFICES ASSUME ConsensusInv, ConsensusTyped, [ConsensusNext]_consensusVars PROVE ConsensusTyped'
  OBVIOUS
<1>1. ASSUME NEW id \in RoundIds, CreateRound(id) PROVE ConsensusTyped'
  BY <1>1, NewRoundTyped DEF CreateRound, ConsensusTyped
<1>2. ASSUME NEW id \in RoundIds, NEW k \in MinPeers, ProposeVerification(id, k) PROVE ConsensusTyped'
  BY <1>2, NewRoundTyped DEF ProposeVerification, ConsensusTyped
<1>3. ASSUME NEW id \in RoundIds, RoundTimeout(id) PROVE ConsensusTyped'
  <2> DEFINE old == rounds[id]
             new == [old EXCEPT !.timer = FALSE, !.status = IF @ = "pending" THEN "failed" ELSE @]
  <2>1. id \in DOMAIN rounds /\ rounds' = [rounds EXCEPT ![id] = new]
    BY <1>3 DEF RoundTimeout
  <2>2. old \in RoundShape
    BY <2>1 DEF ConsensusInv, RoundsShaped
  <2>3. new.votes = old.votes
    BY <2>2 DEF RoundShape
  <2> HIDE DEF new
  <2>4. \A i \in DOMAIN rounds' : Len(rounds'[i].votes) <= MaxVotes
    BY <2>1, <2>3 DEF ConsensusTyped
  <2> QED
    BY <1>3, <2>1, <2>4 DEF RoundTimeout, ConsensusTyped
<1>4. ASSUME NEW id \in RoundIds, NEW n \in Voters, NEW approve \in BOOLEAN, ReceiveVote(id, n, approve)
      PROVE  ConsensusTyped'
  <2> DEFINE old == rounds[id]
             vote == [node |-> n, approve |-> approve]
             r == [old EXCEPT !.votes = Append(@, vote)]
             new == IF Approvals(r) >= QuorumSize THEN [r EXCEPT !.status = "passed"] ELSE r
  <2>1. id \in DOMAIN rounds /\ Len(rounds[id].votes) < MaxVotes /\ rounds' = [rounds EXCEPT ![id] = new]
    BY <1>4 DEF ReceiveVote
  <2>2. old \in RoundShape
    BY <2>1 DEF ConsensusInv, RoundsShaped
  <2>3. old.votes \in Seq(Vote) /\ vote \in Vote
    BY <2>2 DEF RoundShape, Vote
  <2>4. PICK vs \in Seq(Vote) : vs = Append(old.votes, vote) /\ Len(vs) = Len(old.votes) + 1
    <3> HIDE DEF old, vote
    <3>1. /\ Append(old.votes, vote) \in Seq(Vote)
          /\ Len(Append(old.votes, vote)) = Len(old.votes) + 1
      BY <2>3, AppendProperties
    <3> QED
      BY <3>1
  <2>5. r.votes = vs
    BY <2>2, <2>4 DEF RoundShape
  <2>6. new.votes = vs
    <3>1. r = [old EXCEPT !.votes = vs]
      BY <2>4
    <3>2. [r EXCEPT !.status = "passed"].votes = vs
      BY <2>2, <3>1 DEF RoundShape
    <3> HIDE DEF r
    <3> QED
      BY <2>5, <3>2
  <2> HIDE DEF new
  <2>7. Len(old.votes) \in Nat /\ Len(vs) <= MaxVotes
    <3>1. Len(old.votes) \in Nat
      <4> HIDE DEF old
      <4> QED
        BY <2>3, LenProperties
    <3> QED
      BY <2>1, <2>4, <3>1, ConsensusAssumption
  <2>8. \A i \in DOMAIN rounds' : Len(rounds'[i].votes) <= MaxVotes
    BY <2>1, <2>6, <2>7 DEF ConsensusTyped
  <2> QED
    BY <1>4, <2>1, <2>8 DEF ReceiveVote, ConsensusTyped
<1>5. ASSUME NEW k \in MinPeers, VerifyAlone(k) PROVE ConsensusTyped'
  <2>1. [verified |-> TRUE, round |-> "none"] \in Verdict
    BY DEF Verdict
  <2> QED
    BY <1>5, <2>1 DEF VerifyAlone, ConsensusTyped
<1>6. ASSUME NEW id \in RoundIds, EvaluateVerification(id) PROVE ConsensusTyped'
  <2> DEFINE r == rounds[id]
             Dissents(n) == {i \in DOMAIN r.votes : r.votes[i].node = n /\ ~r.votes[i].approve}
             verdict == [verified |-> Approvals(r) >= QuorumSize, round |-> id]
  <2>1. /\ id \in waiting /\ verdicts' = verdicts \cup {verdict}
        /\ penalties' = [n \in Voters |->
             IF penalties[n] + Cardinality(Dissents(n)) > 10 THEN 10
             ELSE penalties[n] + Cardinality(Dissents(n))]
        /\ UNCHANGED <<rounds, mempool, sequenced>>
    BY <1>6 DEF EvaluateVerification
  <2>2. r \in RoundShape
    BY <2>1 DEF ConsensusInv, RoundsShaped
  <2>3. ASSUME NEW n \in Voters PROVE Cardinality(Dissents(n)) \in Nat
    <3>1. r.votes \in Seq(Vote)
      BY <2>2 DEF RoundShape
    <3>2. DOMAIN r.votes = 1..Len(r.votes) /\ Len(r.votes) \in Nat
      <4> HIDE DEF r
      <4> QED
        BY <3>1, LenProperties
    <3>3. IsFiniteSet(DOMAIN r.votes)
      BY <3>2, FS_Interval
    <3>4. Dissents(n) \in SUBSET DOMAIN r.votes
      OBVIOUS
    <3> HIDE DEF Dissents
    <3> QED
      BY <3>3, <3>4, FS_Subset, FS_CardinalityType
  <2>4. verdict \in Verdict
    <3>1. (Approvals(r) >= QuorumSize) \in BOOLEAN
      OBVIOUS
    <3> QED
      BY <3>1 DEF Verdict
  <2> HIDE DEF Dissents, verdict
  <2>5. penalties' \in [Voters -> 0..10]
    <3>1. ASSUME NEW n \in Voters
          PROVE  (IF penalties[n] + Cardinality(Dissents(n)) > 10 THEN 10
                  ELSE penalties[n] + Cardinality(Dissents(n))) \in 0..10
      <4>1. penalties[n] \in 0..10
        BY DEF ConsensusTyped
      <4>2. PICK d \in Nat : d = Cardinality(Dissents(n))
        BY <2>3
      <4> QED
        BY <4>1, <4>2
    <3> QED
      BY <2>1, <3>1
  <2> QED
    BY <2>1, <2>4, <2>5 DEF ConsensusTyped
<1>7. ASSUME NEW w \in Workers, NEW p \in Proofs, SubmitProof(w, p) PROVE ConsensusTyped'
  BY <1>7, SubmittedTyped DEF SubmitProof, ConsensusTyped
<1>8. ASSUME BullsharkSequence PROVE ConsensusTyped'
  <2>1. PICK bs : bs = [i \in DOMAIN mempool |-> mempool[i].batch]
    OBVIOUS
  <2>2. PICK n \in Nat : /\ DOMAIN mempool = 1..n
                         /\ \A i \in 1..n : mempool[i] \in [worker : Workers, batch : Seq(Proofs)]
    BY MempoolIs
  <2>3. bs \in [1..n -> Seq(Proofs)]
    BY <2>1, <2>2
  <2>4. bs \in Seq(Seq(Proofs))
    BY <2>3
  <2>5. sequenced' = FlattenSeq(bs) /\ mempool' = <<>>
    BY <1>8, <2>1 DEF BullsharkSequence
  <2>6. sequenced' \in Seq(Proofs) /\ mempool' \in Seq([worker : Workers, batch : Seq(Proofs)])
    BY <2>4, <2>5, FlattenType
  <2> QED
    BY <1>8, <2>6 DEF BullsharkSequence, ConsensusTyped
<1>9. CASE UNCHANGED consensusVars
  BY <1>9 DEF consensusVars, ConsensusTyped
<1> QED
  BY <1>1, <1>2, <1>3, <1>4, <1>5, <1>6, <1>7, <1>8, <1>9 DEF ConsensusNext

LEMMA ConsensusTypedInit == ConsensusInit => ConsensusTyped
<1> SUFFICES ASSUME ConsensusInit PROVE ConsensusTyped
  OBVIOUS
<1>1. DOMAIN rounds = {}
  BY DEF ConsensusInit
<1>2. penalties \in [Voters -> 0..10] /\ verdicts = {} /\ sequenced = <<>> /\ mempool = <<>>
  BY DEF ConsensusInit
<1> QED
  BY <1>1, <1>2 DEF ConsensusTyped

LEMMA ConsensusTypes == ConsensusInv /\ ConsensusTyped => ConsensusTypeOK
<1> SUFFICES ASSUME ConsensusInv, ConsensusTyped PROVE ConsensusTypeOK
  OBVIOUS
<1>1. ASSUME NEW id \in DOMAIN rounds PROVE rounds[id] \in RoundType
  <2>1. PICK r \in RoundShape : r = rounds[id] /\ Len(r.votes) <= MaxVotes
    BY DEF ConsensusInv, RoundsShaped, ConsensusTyped
  <2>2. r.votes \in Seq(Vote)
    BY DEF RoundShape
  <2>3. PICK vs : vs = r.votes
    OBVIOUS
  <2>4. vs \in [1..Len(vs) -> Vote] /\ Len(vs) \in 0..MaxVotes
    BY <2>1, <2>2, <2>3, LenProperties, ConsensusAssumption
  <2>5. vs \in UNION {[1..k -> Vote] : k \in 0..MaxVotes}
    BY <2>4
  <2> QED
    BY <2>1, <2>3, <2>5 DEF RoundShape, RoundType
<1>2. \A i \in DOMAIN mempool : mempool[i] \in [worker : Workers, batch : Seq(Proofs)]
  BY MempoolIs
<1> QED
  BY <1>1, <1>2 DEF ConsensusInv, RoundsShaped, ConsensusTyped, ConsensusTypeOK

\* The rounds, the verdicts, the scores and the mempool of the engine keep their shape.
THEOREM ConsensusTypeCorrect == ConsensusSpec => []ConsensusTypeOK
<1>1. ConsensusInit => ConsensusInv /\ ConsensusTyped
  BY ConsensusInitInv, ConsensusTypedInit
<1>2. (ConsensusInv /\ ConsensusTyped) /\ [ConsensusNext]_consensusVars => (ConsensusInv /\ ConsensusTyped)'
  BY ConsensusStepInv, ConsensusTypedStep
<1> QED
  BY <1>1, <1>2, ConsensusTypes, PTL DEF ConsensusSpec

-----------------------------------------------------------------------------
(***************************************************************************)
(* Reputation.  BansCounted ties the ban of a node to its slash count, so  *)
(* that no slash takes the count past the threshold.                       *)
(* RegistryAgrees needs that the registry names known nodes only, so that  *)
(* a node that is initialised for the first time is registered nowhere.    *)
(***************************************************************************)
Sound(s) == s \in ScoreType /\ (s.banned <=> s.slashCount = SlashThreshold)

BansCounted == \A n \in Known : Sound(scores[n]) /\ inits[n] # 0

RegistryKnown == \A a \in Addresses : ipRegistry[a] \subseteq Known /\ IsFiniteSet(ipRegistry[a])

ReputationInv == ReputationTypeOK /\ BansCounted /\ RegistryKnown /\ RegistryAgrees

LEMMA NewScoreType ==
  ASSUME NEW a \in Addresses \cup {NoAddress}
  PROVE  /\ NewScore(a) \in ScoreType
         /\ NewScore(a).slashCount = 0 /\ ~NewScore(a).banned /\ NewScore(a).ip = a
<1>1. Top \div 2 \in 0..Top
  BY ReputationAssumption
<1> QED
  BY <1>1, ReputationAssumption DEF NewScore, ScoreType

LEMMA ScoreOfSound ==
  ASSUME ReputationInv, NEW n \in Nodes
  PROVE  /\ Sound(ScoreOf(n))
         /\ n \in Known => ScoreOf(n) = scores[n]
         /\ n \notin Known => ScoreOf(n).ip = NoAddress
<1>1. CASE n \in Known
  BY <1>1 DEF ScoreOf, ReputationInv, BansCounted
<1>2. CASE n \notin Known
  <2>1. ScoreOf(n) = NewScore(NoAddress)
    BY <1>2 DEF ScoreOf
  <2> QED
    BY <1>2, <2>1, NewScoreType, ReputationAssumption DEF Sound
<1> QED
  BY <1>1, <1>2

\* A flag changes the flags only.
LEMMA FlaggedType ==
  ASSUME NEW s \in ScoreType, NEW k \in Nat
  PROVE  /\ Flagged(s, k) \in ScoreType
         /\ Flagged(s, k).slashCount = s.slashCount
         /\ Flagged(s, k).banned = s.banned
         /\ Flagged(s, k).ip = s.ip
<1> DEFINE f == IF s.flags + k > MaxFlags THEN MaxFlags ELSE s.flags + k
<1>1. s.flags \in 0..MaxFlags
  BY DEF ScoreType
<1>2. f \in 0..MaxFlags
  BY <1>1, ReputationAssumption
<1>3. Flagged(s, k) = [s EXCEPT !.flags = f]
  BY DEF Flagged
<1> HIDE DEF f
<1> QED
  BY <1>2, <1>3 DEF ScoreType

LEMMA PutParts ==
  ASSUME ReputationInv, NEW n \in Nodes, NEW s, scores' = Put(n, s)
  PROVE  /\ Known' = Known \cup {n} /\ scores'[n] = s
         /\ \A m \in Known : m # n => scores'[m] = scores[m]
BY DEF Put, Known

\* An operation that writes a sound score of the node it works on, and leaves its address.
LEMMA PutInv ==
  ASSUME ReputationInv, NEW n \in Nodes, NEW s, scores' = Put(n, s),
         Recorded(n), Sound(s), s.ip = ScoreOf(n).ip, barred' \subseteq Nodes
  PROVE  ReputationInv'
<1>1. /\ Known' = Known \cup {n} /\ scores'[n] = s
      /\ \A m \in Known : m # n => scores'[m] = scores[m]
  BY PutParts
<1>2. /\ inits' \in [Nodes -> 0..2] /\ inits'[n] # 0
      /\ \A m \in Nodes : m # n => inits'[m] = inits[m]
      /\ n \in Known => inits'[n] = inits[n]
      /\ ipRegistry' = ipRegistry
  BY DEF Recorded, ReputationInv, ReputationTypeOK, BansCounted
<1>3. s \in ScoreType
  BY DEF Sound
<1>4. ReputationTypeOK'
  BY <1>1, <1>2, <1>3 DEF ReputationInv, ReputationTypeOK
<1>5. BansCounted'
  BY <1>1, <1>2 DEF ReputationInv, BansCounted, ReputationTypeOK
<1>6. RegistryKnown'
  BY <1>1, <1>2 DEF ReputationInv, RegistryKnown
<1>7. RegistryAgrees'
  <2>1. ASSUME NEW m \in Known, NEW a \in Addresses, m # n
        PROVE  /\ scores'[m].ip = a => m \in ipRegistry'[a]
               /\ m \in ipRegistry'[a] => scores'[m].ip = a \/ inits'[m] = 2
    BY <1>1, <1>2, <2>1 DEF ReputationInv, RegistryAgrees, ReputationTypeOK
  <2>2. ASSUME NEW a \in Addresses
        PROVE  /\ s.ip = a => n \in ipRegistry'[a]
               /\ n \in ipRegistry'[a] => s.ip = a \/ inits'[n] = 2
    <3>1. CASE n \in Known
      BY <1>2, <3>1, ScoreOfSound DEF ReputationInv, RegistryAgrees
    <3>2. CASE n \notin Known
      BY <1>2, <3>2, ScoreOfSound, ReputationAssumption DEF ReputationInv, RegistryKnown
    <3> QED
      BY <3>1, <3>2
  <2> QED
    BY <1>1, <2>1, <2>2 DEF RegistryAgrees
<1> QED
  BY <1>4, <1>5, <1>6, <1>7 DEF ReputationInv

\* The same of an operation that slashes nobody.
LEMMA PutQuiet ==
  ASSUME ReputationInv, NEW n \in Nodes, NEW s \in ScoreType, scores' = Put(n, s),
         Recorded(n), barred' = barred, s.ip = ScoreOf(n).ip,
         s.slashCount = ScoreOf(n).slashCount, s.banned = ScoreOf(n).banned
  PROVE  ReputationInv'
<1>1. Sound(ScoreOf(n))
  BY ScoreOfSound
<1>2. Sound(s)
  BY <1>1 DEF Sound
<1>3. barred' \subseteq Nodes
  BY DEF ReputationInv, ReputationTypeOK
<1> QED
  BY <1>2, <1>3, PutInv

LEMMA TaskCompletionInv ==
  ASSUME ReputationInv, NEW n \in Nodes, NEW p \in Profiles, NEW v \in 0..Top, NEW jump \in BOOLEAN,
         RecordTaskCompletion(n, p, v, jump)
  PROVE  ReputationInv'
<1> DEFINE s == ScoreOf(n)
           t == [s EXCEPT !.skills = p, !.overall = v]
           k == IF jump THEN 1 ELSE 0
           r == IF s.banned THEN s ELSE Flagged(t, k)
<1>1. s \in ScoreType
  BY ScoreOfSound DEF Sound
<1>2. scores' = Put(n, r) /\ Recorded(n) /\ barred' = barred
  BY DEF RecordTaskCompletion
<1> HIDE DEF s
<1>3. t \in ScoreType /\ t.slashCount = s.slashCount /\ t.banned = s.banned /\ t.ip = s.ip
  BY <1>1 DEF ScoreType
<1>4. k \in Nat
  OBVIOUS
<1> HIDE DEF t, k
<1>5. r \in ScoreType /\ r.slashCount = s.slashCount /\ r.banned = s.banned /\ r.ip = s.ip
  BY <1>1, <1>3, <1>4, FlaggedType
<1> HIDE DEF r
<1> QED
  BY <1>2, <1>5, PutQuiet DEF s

LEMMA TaskFailureInv ==
  ASSUME ReputationInv, NEW n \in Nodes, NEW v \in 0..Top, RecordTaskFailure(n, v)
  PROVE  ReputationInv'
<1> DEFINE s == ScoreOf(n)
           r == IF s.banned THEN s ELSE [s EXCEPT !.overall = v]
<1>1. s \in ScoreType
  BY ScoreOfSound DEF Sound
<1>2. scores' = Put(n, r) /\ Recorded(n) /\ barred' = barred
  BY DEF RecordTaskFailure
<1> HIDE DEF s
<1>3. r \in ScoreType /\ r.slashCount = s.slashCount /\ r.banned = s.banned /\ r.ip = s.ip
  BY <1>1 DEF ScoreType
<1> HIDE DEF r
<1> QED
  BY <1>2, <1>3, PutQuiet DEF s

LEMMA UpdateStakeInv ==
  ASSUME ReputationInv, NEW n \in Nodes, NEW amount \in 0..MaxStake, NEW v \in 0..Top,
         UpdateStake(n, amount, v)
  PROVE  ReputationInv'
<1> DEFINE s == ScoreOf(n)
           r == [s EXCEPT !.stake = amount, !.overall = v]
<1>1. s \in ScoreType
  BY ScoreOfSound DEF Sound
<1>2. scores' = Put(n, r) /\ Recorded(n) /\ barred' = barred
  BY DEF UpdateStake
<1> HIDE DEF s
<1>3. r \in ScoreType /\ r.slashCount = s.slashCount /\ r.banned = s.banned /\ r.ip = s.ip
  BY <1>1 DEF ScoreType
<1> HIDE DEF r
<1> QED
  BY <1>2, <1>3, PutQuiet DEF s

LEMMA UpdateReliabilityInv ==
  ASSUME ReputationInv, NEW n \in Nodes, NEW v \in 0..Top, UpdateReliability(n, v)
  PROVE  ReputationInv'
<1> DEFINE s == ScoreOf(n)
           r == [s EXCEPT !.overall = v]
<1>1. s \in ScoreType
  BY ScoreOfSound DEF Sound
<1>2. scores' = Put(n, r) /\ Recorded(n) /\ barred' = barred
  BY DEF UpdateReliability
<1> HIDE DEF s
<1>3. r \in ScoreType /\ r.slashCount = s.slashCount /\ r.banned = s.banned /\ r.ip = s.ip
  BY <1>1 DEF ScoreType
<1> HIDE DEF r
<1> QED
  BY <1>2, <1>3, PutQuiet DEF s

LEMMA StakeNodeInv ==
  ASSUME ReputationInv, NEW n \in Nodes, NEW amount \in 0..MaxStake, StakeNode(n, amount)
  PROVE  ReputationInv'
<1> DEFINE s == ScoreOf(n)
           k == s.stake + amount
           r == [s EXCEPT !.stake = k]
<1>1. s \in ScoreType
  BY ScoreOfSound DEF Sound
<1>2. scores' = Put(n, r) /\ Recorded(n) /\ barred' = barred /\ k <= MaxStake
  BY DEF StakeNode
<1> HIDE DEF s
<1>3. k \in 0..MaxStake
  <2>1. s.stake \in 0..MaxStake
    BY <1>1 DEF ScoreType
  <2> QED
    BY <1>2, <2>1, ReputationAssumption
<1> HIDE DEF k
<1>4. r \in ScoreType /\ r.slashCount = s.slashCount /\ r.banned = s.banned /\ r.ip = s.ip
  BY <1>1, <1>3 DEF ScoreType
<1> HIDE DEF r
<1> QED
  BY <1>2, <1>4, PutQuiet DEF s

\* A slash raises the slash count, and bans at the threshold.
LEMMA SlashInv ==
  ASSUME ReputationInv, NEW n \in Nodes, NEW amount \in 0..MaxStake, NEW v \in 0..Top,
         Slash(n, amount, v)
  PROVE  ReputationInv'
<1> DEFINE s == ScoreOf(n)
           stake == IF s.stake > amount THEN s.stake - amount ELSE 0
           overall == IF v < s.overall THEN v ELSE s.overall
           count == s.slashCount + 1
           u == [s EXCEPT !.stake = stake, !.slashCount = count, !.overall = overall]
           t == Slashed(s, amount, v)
           out == ~s.banned /\ t.slashCount >= SlashThreshold
           r == IF s.banned THEN s
                ELSE IF out THEN [t EXCEPT !.banned = TRUE, !.overall = 0] ELSE t
<1>1. s \in ScoreType /\ (s.banned <=> s.slashCount = SlashThreshold) /\ s.slashCount \in 0..SlashThreshold
  BY ScoreOfSound DEF Sound, ScoreType
<1>2. scores' = Put(n, r) /\ Recorded(n) /\ barred' \in {barred, barred \cup {n}}
  BY DEF Slash
<1>3. barred' \subseteq Nodes
  BY <1>2 DEF ReputationInv, ReputationTypeOK
<1> HIDE DEF s
<1>4. CASE s.banned
  <2>1. r = s
    BY <1>4
  <2>2. Sound(s)
    BY <1>1 DEF Sound
  <2> HIDE DEF r
  <2> QED
    BY <1>2, <1>3, <2>1, <2>2, PutInv DEF s
<1>5. CASE ~s.banned
  <2>2. count \in 0..SlashThreshold
    BY <1>1, <1>5, ReputationAssumption
  <2>3. stake \in 0..MaxStake /\ overall \in 0..Top
    <3>1. s.stake \in 0..MaxStake /\ s.overall \in 0..Top
      BY <1>1 DEF ScoreType
    <3> QED
      BY <3>1, ReputationAssumption
  <2>4. t = Flagged(u, 1)
    BY DEF Slashed
  <2> HIDE DEF stake, overall, count
  <2>5. u \in ScoreType /\ u.slashCount = count /\ u.banned = s.banned /\ u.ip = s.ip
    BY <1>1, <2>2, <2>3 DEF ScoreType
  <2> HIDE DEF u, t
  <2>6. t \in ScoreType /\ t.slashCount = count /\ ~t.banned /\ t.ip = s.ip
    BY <1>5, <2>4, <2>5, FlaggedType
  <2>7. r \in ScoreType /\ r.slashCount = count /\ r.ip = s.ip
    <3>1. 0 \in 0..Top
      BY ReputationAssumption
    <3>2. ASSUME NEW w \in ScoreType
          PROVE  /\ [w EXCEPT !.banned = TRUE, !.overall = 0] \in ScoreType
                 /\ [w EXCEPT !.banned = TRUE, !.overall = 0].slashCount = w.slashCount
                 /\ [w EXCEPT !.banned = TRUE, !.overall = 0].ip = w.ip
      BY <3>1 DEF ScoreType
    <3> QED
      BY <1>5, <2>6, <3>2
  <2>8. r.banned <=> count = SlashThreshold
    BY <1>5, <2>2, <2>6, ReputationAssumption DEF ScoreType
  <2> HIDE DEF r
  <2>9. Sound(r)
    BY <2>7, <2>8 DEF Sound
  <2> QED
    BY <1>2, <1>3, <2>7, <2>9, PutInv DEF s
<1> QED
  BY <1>4, <1>5

LEMMA DecayInv ==
  ASSUME ReputationInv, NEW lost \in [Known -> 0..Top], DecayScores(lost)
  PROVE  ReputationInv'
<1>1. Known' = Known /\ ipRegistry' = ipRegistry /\ inits' = inits /\ barred' = barred
  BY DEF DecayScores, Known
<1>2. ASSUME NEW n \in Known
      PROVE  /\ scores'[n] \in ScoreType /\ scores'[n].slashCount = scores[n].slashCount
             /\ scores'[n].banned = scores[n].banned /\ scores'[n].ip = scores[n].ip
  <2> DEFINE s == scores[n]
             v == IF s.overall > lost[n] THEN s.overall - lost[n] ELSE 0
             r == [s EXCEPT !.overall = v]
  <2>1. s \in ScoreType
    BY DEF ReputationInv, ReputationTypeOK
  <2>2. scores'[n] = IF s.banned THEN s ELSE r
    BY DEF DecayScores
  <2>3. lost[n] \in 0..Top /\ s.overall \in 0..Top
    BY <2>1 DEF ScoreType
  <2>4. v \in 0..Top
    BY <2>3, ReputationAssumption
  <2> HIDE DEF s, v
  <2>5. r \in ScoreType /\ r.slashCount = s.slashCount /\ r.banned = s.banned /\ r.ip = s.ip
    BY <2>1, <2>4 DEF ScoreType
  <2> QED
    BY <2>1, <2>2, <2>5 DEF s
<1>3. ReputationTypeOK'
  BY <1>1, <1>2 DEF ReputationInv, ReputationTypeOK
<1>4. BansCounted'
  BY <1>1, <1>2 DEF ReputationInv, BansCounted, Sound
<1>5. RegistryKnown' /\ RegistryAgrees'
  BY <1>1, <1>2 DEF ReputationInv, RegistryKnown, RegistryAgrees
<1> QED
  BY <1>3, <1>4, <1>5 DEF ReputationInv

\* A node that is initialised, or moves, under the address a: what is left of its other
\* registrations is excused by inits.
LEMMA RegisteredInv ==
  ASSUME ReputationInv, NEW n \in Nodes, NEW a \in Addresses, NEW s, NEW registry,
         Registered(n, a, s, registry), Sound(s),
         registry \in [Addresses -> SUBSET Nodes],
         \A b \in Addresses : registry[b] \in SUBSET ipRegistry[b] /\ ipRegistry[b] \ {n} \subseteq registry[b],
         barred' \subseteq Nodes,
         inits' \in [Nodes -> 0..2], \A m \in Nodes : m # n => inits'[m] = inits[m],
         inits'[n] # 0, \A b \in Addresses : n \in registry[b] /\ b # a => inits'[n] = 2
  PROVE  ReputationInv'
<1> DEFINE t == [s EXCEPT !.ip = a]
           k == Cardinality(Copies(n, a, s.skills))
           r == Flagged(t, k)
<1>1. s \in ScoreType /\ (s.banned <=> s.slashCount = SlashThreshold)
  BY DEF Sound
<1>2. scores' = Put(n, r) /\ ipRegistry' = [registry EXCEPT ![a] = @ \cup {n}]
  BY DEF Registered
<1>3. t \in ScoreType /\ t.slashCount = s.slashCount /\ t.banned = s.banned /\ t.ip = a
  BY <1>1 DEF ScoreType
<1>4. k \in Nat
  <2>1. IsFiniteSet(ipRegistry[a]) /\ Copies(n, a, s.skills) \in SUBSET ipRegistry[a]
    BY DEF ReputationInv, RegistryKnown, Copies
  <2> QED
    BY <2>1, FS_Subset, FS_CardinalityType
<1> HIDE DEF t, k
<1>5. r \in ScoreType /\ r.slashCount = s.slashCount /\ r.banned = s.banned /\ r.ip = a
  BY <1>3, <1>4, FlaggedType
<1> HIDE DEF r
<1>6. /\ Known' = Known \cup {n} /\ scores'[n] = r
      /\ \A m \in Known : m # n => scores'[m] = scores[m]
  BY <1>2, PutParts
<1>7. /\ ipRegistry' \in [Addresses -> SUBSET Nodes] /\ n \in ipRegistry'[a]
      /\ \A b \in Addresses : b # a => ipRegistry'[b] = registry[b]
      /\ \A b \in Addresses : ipRegistry'[b] \ {n} = ipRegistry[b] \ {n}
      /\ ipRegistry'[a] = registry[a] \cup {n}
  BY <1>2
<1>8. ReputationTypeOK'
  BY <1>5, <1>6, <1>7 DEF ReputationInv, ReputationTypeOK
<1>9. BansCounted'
  BY <1>1, <1>5, <1>6 DEF ReputationInv, BansCounted, Sound, ReputationTypeOK
<1>10. RegistryKnown'
  <2>1. ASSUME NEW b \in Addresses
        PROVE  ipRegistry'[b] \subseteq Known' /\ IsFiniteSet(ipRegistry'[b])
    <3>1. ipRegistry[b] \subseteq Known /\ IsFiniteSet(ipRegistry[b]) /\ registry[b] \in SUBSET ipRegistry[b]
      BY DEF ReputationInv, RegistryKnown
    <3>2. IsFiniteSet(registry[b]) /\ IsFiniteSet(registry[b] \cup {n})
      BY <3>1, FS_Subset, FS_AddElement
    <3>3. ipRegistry'[b] = registry[b] \/ ipRegistry'[b] = registry[b] \cup {n}
      BY <1>7
    <3> QED
      BY <1>6, <3>1, <3>2, <3>3
  <2> QED
    BY <2>1 DEF RegistryKnown
<1>11. RegistryAgrees'
  <2>1. ASSUME NEW m \in Known, NEW b \in Addresses, m # n
        PROVE  /\ scores'[m].ip = b => m \in ipRegistry'[b]
               /\ m \in ipRegistry'[b] => scores'[m].ip = b \/ inits'[m] = 2
    BY <1>6, <1>7, <2>1 DEF ReputationInv, RegistryAgrees, ReputationTypeOK
  <2>2. ASSUME NEW b \in Addresses
        PROVE  /\ r.ip = b => n \in ipRegistry'[b]
               /\ n \in ipRegistry'[b] => r.ip = b \/ inits'[n] = 2
    BY <1>5, <1>7
  <2> QED
    BY <1>6, <2>1, <2>2 DEF RegistryAgrees
<1> QED
  BY <1>8, <1>9, <1>10, <1>11 DEF ReputationInv

LEMMA InitializeInv ==
  ASSUME ReputationInv, NEW n \in Nodes, NEW a \in Addresses \cup {NoAddress}, InitializeNode(n, a)
  PROVE  ReputationInv'
<1> DEFINE k == IF inits[n] = 2 THEN 2 ELSE inits[n] + 1
<1>1. inits \in [Nodes -> 0..2] /\ barred \subseteq Nodes
  BY DEF ReputationInv, ReputationTypeOK
<1>2. k \in 0..2 /\ k # 0 /\ (inits[n] # 0 => k = 2)
  BY <1>1
<1>3. inits' = [inits EXCEPT ![n] = k] /\ barred' = barred
  BY DEF InitializeNode
<1> HIDE DEF k
<1>4. /\ inits' \in [Nodes -> 0..2] /\ inits'[n] = k /\ \A m \in Nodes : m # n => inits'[m] = inits[m]
      /\ barred' \subseteq Nodes
  BY <1>1, <1>2, <1>3
<1>5. \A b \in Addresses : n \in ipRegistry[b] => k = 2
  BY <1>2 DEF ReputationInv, RegistryKnown, BansCounted
<1>6. PICK s : s = NewScore(a)
  OBVIOUS
<1>7. s \in ScoreType /\ s.slashCount = 0 /\ ~s.banned /\ s.ip = a
  BY <1>6, NewScoreType
<1>8. Sound(s)
  BY <1>7, ReputationAssumption DEF Sound
<1>9. CASE a # NoAddress
  <2>1. a \in Addresses /\ Registered(n, a, s, ipRegistry)
    BY <1>6, <1>9 DEF InitializeNode
  <2>2. ipRegistry \in [Addresses -> SUBSET Nodes]
    BY DEF ReputationInv, ReputationTypeOK
  <2>3. \A b \in Addresses : ipRegistry[b] \in SUBSET ipRegistry[b] /\ ipRegistry[b] \ {n} \subseteq ipRegistry[b]
    OBVIOUS
  <2>4. PICK registry : registry = ipRegistry
    OBVIOUS
  <2> QED
    BY <1>2, <1>4, <1>5, <1>8, <2>1, <2>2, <2>3, <2>4, RegisteredInv
<1>10. CASE a = NoAddress
  <2>1. scores' = Put(n, s) /\ ipRegistry' = ipRegistry
    BY <1>6, <1>10 DEF InitializeNode
  <2>2. /\ Known' = Known \cup {n} /\ scores'[n] = s
        /\ \A m \in Known : m # n => scores'[m] = scores[m]
    BY <2>1, PutParts
  <2>3. ReputationTypeOK'
    BY <1>4, <1>7, <2>1, <2>2 DEF ReputationInv, ReputationTypeOK
  <2>4. BansCounted'
    BY <1>2, <1>4, <1>8, <2>2 DEF ReputationInv, BansCounted, ReputationTypeOK
  <2>5. RegistryKnown'
    BY <2>1, <2>2 DEF ReputationInv, RegistryKnown
  <2>6. RegistryAgrees'
    <3>1. ASSUME NEW m \in Known, NEW b \in Addresses, m # n
          PROVE  /\ scores'[m].ip = b => m \in ipRegistry'[b]
                 /\ m \in ipRegistry'[b] => scores'[m].ip = b \/ inits'[m] = 2
      BY <1>4, <2>1, <2>2, <3>1 DEF ReputationInv, RegistryAgrees, ReputationTypeOK
    <3>2. ASSUME NEW b \in Addresses
          PROVE  s.ip # b /\ (n \in ipRegistry'[b] => inits'[n] = 2)
      BY <1>4, <1>5, <1>7, <1>10, <2>1, ReputationAssumption
    <3> QED
      BY <2>2, <3>1, <3>2 DEF RegistryAgrees
  <2> QED
    BY <2>3, <2>4, <2>5, <2>6 DEF ReputationInv
<1> QED
  BY <1>9, <1>10

LEMMA RegisterInv ==
  ASSUME ReputationInv, NEW n \in Nodes, NEW a \in Addresses, RegisterNodeIp(n, a)
  PROVE  ReputationInv'
<1>1. CASE n \notin Known
  BY <1>1, InitializeInv DEF RegisterNodeIp
<1>2. CASE n \in Known
  <2> DEFINE old == scores[n].ip
             left == [b \in Addresses |-> IF b = old THEN ipRegistry[b] \ {n} ELSE ipRegistry[b]]
  <2>1. Registered(n, a, scores[n], left) /\ inits' = inits /\ barred' = barred
    BY <1>2 DEF RegisterNodeIp
  <2>2. /\ left \in [Addresses -> SUBSET Nodes]
        /\ \A b \in Addresses : left[b] \in SUBSET ipRegistry[b] /\ ipRegistry[b] \ {n} \subseteq left[b]
    BY DEF ReputationInv, ReputationTypeOK
  <2>3. inits[n] # 0 /\ \A b \in Addresses : n \in left[b] => inits[n] = 2
    BY <1>2 DEF ReputationInv, BansCounted, RegistryAgrees
  <2> HIDE DEF left
  <2>4. PICK s, registry : s = scores[n] /\ registry = left
    OBVIOUS
  <2>5. Sound(s)
    BY <1>2, <2>4 DEF ReputationInv, BansCounted
  <2>6. inits \in [Nodes -> 0..2] /\ barred \subseteq Nodes
    BY DEF ReputationInv, ReputationTypeOK
  <2> QED
    BY <2>1, <2>2, <2>3, <2>4, <2>5, <2>6, RegisteredInv
<1> QED
  BY <1>1, <1>2

LEMMA ReputationInitInv == ReputationInit => ReputationInv
<1> SUFFICES ASSUME ReputationInit PROVE ReputationInv
  OBVIOUS
<1>1. Known = {}
  BY DEF ReputationInit, Known
<1>2. ReputationTypeOK
  BY <1>1, ReputationAssumption DEF ReputationInit, ReputationTypeOK
<1>3. BansCounted /\ RegistryAgrees
  BY <1>1 DEF BansCounted, RegistryAgrees
<1>4. RegistryKnown
  BY <1>1, FS_EmptySet DEF ReputationInit, RegistryKnown
<1> QED
  BY <1>2, <1>3, <1>4 DEF ReputationInv

LEMMA ReputationStepInv == ReputationInv /\ [ReputationNext]_reputationVars => ReputationInv'
<1> SUFFICES ASSUME ReputationInv, [ReputationNext]_reputationVars PROVE ReputationInv'
  OBVIOUS
<1>1. CASE \E lost \in [Known -> 0..Top] : DecayScores(lost)
  BY <1>1, DecayInv
<1>2. CASE \E n \in Nodes, a \in Addresses \cup {NoAddress} : InitializeNode(n, a)
  BY <1>2, InitializeInv
<1>3. CASE \E n \in Nodes, a \in Addresses : RegisterNodeIp(n, a)
  BY <1>3, RegisterInv
<1>4. CASE \E n \in Nodes, v \in 0..Top, p \in Profiles, jump \in BOOLEAN : RecordTaskCompletion(n, p, v, jump)
  BY <1>4, TaskCompletionInv
<1>5. CASE \E n \in Nodes, v \in 0..Top : RecordTaskFailure(n, v)
  BY <1>5, TaskFailureInv
<1>6. CASE \E n \in Nodes, v \in 0..Top, amount \in 0..MaxStake : UpdateStake(n, amount, v)
  BY <1>6, UpdateStakeInv
<1>7. CASE \E n \in Nodes, v \in 0..Top : UpdateReliability(n, v)
  BY <1>7, UpdateReliabilityInv
<1>8. CASE \E n \in Nodes, v \in 0..Top, amount \in 0..MaxStake : Slash(n, amount, v)
  BY <1>8, SlashInv
<1>9. CASE \E n \in Nodes, amount \in 0..MaxStake : StakeNode(n, amount)
  BY <1>9, StakeNodeInv
<1>10. CASE UNCHANGED reputationVars
  BY <1>10 DEF reputationVars, ReputationInv, ReputationTypeOK, BansCounted, RegistryKnown, RegistryAgrees, Known
<1> QED
  BY <1>1, <1>2, <1>3, <1>4, <1>5, <1>6, <1>7, <1>8, <1>9, <1>10 DEF ReputationNext

LEMMA ReputationInvariant == ReputationSpec => []ReputationInv
BY ReputationInitInv, ReputationStepInv, PTL DEF ReputationSpec

\* Scores, registry and counters of the reputation manager keep their shape.
THEOREM ReputationTypeCorrect == ReputationSpec => []ReputationTypeOK
<1>1. ReputationInv => ReputationTypeOK
  BY DEF ReputationInv
<1> QED
  BY <1>1, ReputationInvariant, PTL

\* initializeNode and registerNodeIP leave the registry and the addresses of the nodes agreed but
\* for nodes that were initialised twice.
THEOREM RegistryAgreesAlways == ReputationSpec => []RegistryAgrees
<1>1. ReputationInv => RegistryAgrees
  BY DEF ReputationInv
<1> QED
  BY <1>1, ReputationInvariant, PTL

-----------------------------------------------------------------------------
(***************************************************************************)
(* Training.  The type of the job is inductive as it stands.               *)
(***************************************************************************)
LEMMA TrainingInitInv == TrainingInit => TrainingTypeOK
<1> SUFFICES ASSUME TrainingInit PROVE TrainingTypeOK
  OBVIOUS
<1>1. saved = <<>> /\ Len(saved) = 0 /\ saved \in Seq(0..MaxEpochs) /\ DOMAIN saved = {}
  BY DEF TrainingInit
<1>2. TrainingTypeOK
  <2>1. 0 \in 0..MaxWorkers /\ 0 \in 0..MaxEpochs /\ Len(saved) <= MaxSaved
    BY <1>1, TrainingAssumption
  <2> QED
    BY <1>1, <2>1 DEF TrainingInit, TrainingTypeOK, JobStatus, Driver, NoSimpleJob
<1> QED
  BY <1>2

LEMMA StartInv ==
  ASSUME TrainingTypeOK, NEW found \in Discovered, StartTrainingJob(found)
  PROVE  TrainingTypeOK'
<1>1. (IF found < MaxWorkers THEN found ELSE MaxWorkers) \in 0..MaxWorkers
  BY TrainingAssumption
<1>2. TrainingTypeOK'
  BY <1>1 DEF StartTrainingJob, TrainingTypeOK, JobStatus, Driver
<1> QED
  BY <1>2

LEMMA DistributeInv ==
  ASSUME TrainingTypeOK, (\E ok \in BOOLEAN : DriverDistributes(ok)) \/ DriverDistributed \/ RecoveryDistributed
  PROVE  TrainingTypeOK'
<1> USE DEF DriverDistributes, DriverDistributed, RecoveryDistributed, Allocated, Distributed
<1>1. TrainingTypeOK'
  BY DEF TrainingTypeOK, JobStatus, Driver
<1> QED
  BY <1>1

LEMMA CollectInv ==
  ASSUME TrainingTypeOK, CollectBegins \/ \E k \in 0..MaxWorkers : CollectEnds(k)
  PROVE  TrainingTypeOK'
<1>1. TrainingTypeOK'
  BY DEF CollectBegins, CollectEnds, TrainingTypeOK, JobStatus, Driver
<1> QED
  BY <1>1

LEMMA AggregateInv ==
  ASSUME TrainingTypeOK, AggregateGradients
  PROVE  TrainingTypeOK'
<1>1. epoch' \in 0..MaxEpochs
  BY TrainingAssumption DEF AggregateGradients, TrainingTypeOK
<1>2. TrainingTypeOK'
  BY <1>1 DEF AggregateGradients, TrainingTypeOK, JobStatus, Driver
<1> QED
  BY <1>2

LEMMA CheckpointInv ==
  ASSUME TrainingTypeOK, IntervalCheckpoint \/ OperatorCheckpoint
  PROVE  TrainingTypeOK'
<1>1. Checkpoint
  BY DEF IntervalCheckpoint, OperatorCheckpoint
<1>2. saved \in Seq(0..MaxEpochs) /\ epoch \in 0..MaxEpochs /\ Len(saved) < MaxSaved
  BY <1>1 DEF Checkpoint, TrainingTypeOK
<1>3. saved' \in {saved, Append(saved, epoch)}
  BY <1>1 DEF Checkpoint
<1>4. saved' \in Seq(0..MaxEpochs) /\ Len(saved') <= MaxSaved
  BY <1>2, <1>3, TrainingAssumption
<1>5. TrainingTypeOK'
  BY <1>1, <1>4 DEF IntervalCheckpoint, OperatorCheckpoint, Checkpoint, TrainingTypeOK, JobStatus
<1> QED
  BY <1>5

LEMMA RecoverInv ==
  ASSUME TrainingTypeOK, NEW i \in 1..MaxSaved, NEW ok \in BOOLEAN, RecoverFromCheckpoint(i, ok)
  PROVE  TrainingTypeOK'
<1>1. saved[i] \in 0..MaxEpochs /\ epoch' = saved[i] /\ i \in DOMAIN saved
  <2>1. saved \in Seq(0..MaxEpochs)
    BY DEF TrainingTypeOK
  <2>2. i \in DOMAIN saved /\ epoch' = saved[i]
    BY DEF RecoverFromCheckpoint
  <2>3. ASSUME NEW S, saved \in Seq(S) PROVE \A j \in DOMAIN saved : saved[j] \in S
    BY <2>3
  <2> QED
    BY <2>1, <2>2, <2>3
<1>2. TrainingTypeOK'
  BY <1>1 DEF RecoverFromCheckpoint, Allocated, TrainingTypeOK, JobStatus
<1> QED
  BY <1>2

LEMMA SimpleInv ==
  ASSUME TrainingTypeOK,
         SimpleStart \/ \E w \in SimpleWorkers : AddWorker(w) \/ HandleWorkerFailure(w),
         UNCHANGED <<jobStatus, workers, epoch, hasModel, saved, interval, driver, gradients,
                     recovering>>
  PROVE  TrainingTypeOK'
<1>1. simple'.status \in {"none", "initializing", "running"} /\ simple'.members \subseteq SimpleWorkers
  <2>1. CASE SimpleStart
    BY <2>1 DEF SimpleStart
  <2>2. CASE \E w \in SimpleWorkers : AddWorker(w)
    BY <2>2 DEF AddWorker, TrainingTypeOK
  <2>3. CASE \E w \in SimpleWorkers : HandleWorkerFailure(w)
    BY <2>3 DEF HandleWorkerFailure, TrainingTypeOK
  <2> QED
    BY <2>1, <2>2, <2>3
<1>2. TrainingTypeOK'
  BY <1>1 DEF TrainingTypeOK
<1> QED
  BY <1>2

LEMMA TrainingStepInv == TrainingTypeOK /\ [TrainingNext]_trainingVars => TrainingTypeOK'
<1>1. TrainingTypeOK /\ UNCHANGED trainingVars => TrainingTypeOK'
  BY DEF trainingVars, TrainingTypeOK
<1> QED
  BY <1>1, StartInv, DistributeInv, CollectInv, AggregateInv, CheckpointInv, RecoverInv, SimpleInv
  DEF TrainingNext

\* The job, its checkpoints and the loop that drives it keep their shape.
THEOREM TrainingTypeCorrect == TrainingSpec => []TrainingTypeOK
BY TrainingInitInv, TrainingStepInv, PTL DEF TrainingSpec

-----------------------------------------------------------------------------
(***************************************************************************)
(* LightningHardening.  An invoice is accepted when it is not marked paid; *)
(* InvoicesCounted says that this is when its hash is not among paidHashes *)
(* yet, which no pruning forgets.  A spend of which a broadcast has ended  *)
(* is deleted, and only a pending one is broadcast again.                  *)
(***************************************************************************)
InvoicesShaped ==
  /\ \A h \in DOMAIN invoices : invoices[h] \in [age : Ages, paid : BOOLEAN]
  /\ marked \in [Hashes -> 0..2]

InvoicesCounted ==
  /\ \A h \in DOMAIN invoices : invoices[h].paid <=> h \in paidHashes
  /\ \A h \in Hashes : marked[h] = IF h \in paidHashes THEN 1 ELSE 0

InvoiceInv == InvoicesShaped /\ InvoicesCounted

SpendShape == [stage : {"none", "pending", "deleted"}, signatures : SUBSET Signers, calls : Nat, sent : Nat]

SpendInv ==
  /\ spends \in [TxIds -> SpendShape]
  /\ \A t \in TxIds : spends[t].sent > 0 => spends[t].stage = "deleted"

LEMMA InvoiceStep ==
  ASSUME InvoiceInv,
         \/ \E h \in Hashes : GenerateUniqueInvoice(h) \/ TimePasses(h) \/ MarkInvoicePaid(h)
         \/ PruneExpiredInvoices
  PROVE  InvoiceInv'
<1> USE DEF InvoiceInv
<1>1. ASSUME NEW h \in Hashes, GenerateUniqueInvoice(h) PROVE InvoiceInv'
  <2>1. [age |-> "valid", paid |-> FALSE] \in [age : Ages, paid : BOOLEAN]
    BY DEF Ages
  <2>2. InvoicesShaped'
    BY <1>1, <2>1 DEF GenerateUniqueInvoice, InvoicesShaped
  <2>3. InvoicesCounted'
    BY <1>1 DEF GenerateUniqueInvoice, InvoicesCounted
  <2> QED
    BY <2>2, <2>3
<1>2. ASSUME NEW h \in Hashes, TimePasses(h) PROVE InvoiceInv'
  <2> DEFINE age == IF invoices[h].age = "valid" THEN "expired" ELSE "old"
             new == [invoices[h] EXCEPT !.age = age]
  <2>1. h \in DOMAIN invoices /\ invoices' = [invoices EXCEPT ![h] = new]
    BY <1>2 DEF TimePasses
  <2>2. new \in [age : Ages, paid : BOOLEAN] /\ new.paid = invoices[h].paid
    BY <2>1 DEF InvoicesShaped, Ages
  <2>3. paidHashes' = paidHashes /\ marked' = marked
    BY <1>2 DEF TimePasses
  <2> HIDE DEF new
  <2>4. InvoicesShaped'
    BY <2>1, <2>2, <2>3 DEF InvoicesShaped
  <2>5. InvoicesCounted'
    BY <2>1, <2>2, <2>3 DEF InvoicesCounted
  <2> QED
    BY <2>4, <2>5
<1>3. ASSUME NEW h \in Hashes, MarkInvoicePaid(h) PROVE InvoiceInv'
  <2> DEFINE new == [invoices[h] EXCEPT !.paid = TRUE]
             k == IF marked[h] = 2 THEN 2 ELSE marked[h] + 1
  <2>1. h \in DOMAIN invoices /\ ~invoices[h].paid /\ invoices' = [invoices EXCEPT ![h] = new]
    BY <1>3 DEF MarkInvoicePaid
  <2>2. new \in [age : Ages, paid : BOOLEAN] /\ new.paid
    BY <2>1 DEF InvoicesShaped
  <2>3. marked[h] = 0
    BY <2>1 DEF InvoicesCounted
  <2>4. marked' = [marked EXCEPT ![h] = k] /\ k = 1 /\ paidHashes' = paidHashes \cup {h}
    BY <1>3, <2>3 DEF MarkInvoicePaid
  <2> HIDE DEF new, k
  <2>5. InvoicesShaped'
    BY <2>1, <2>2, <2>4 DEF InvoicesShaped
  <2>6. InvoicesCounted'
    BY <2>1, <2>2, <2>4 DEF InvoicesCounted, InvoicesShaped
  <2> QED
    BY <2>5, <2>6
<1>4. ASSUME PruneExpiredInvoices PROVE InvoiceInv'
  BY <1>4 DEF PruneExpiredInvoices, InvoicesShaped, InvoicesCounted
<1> QED
  BY <1>1, <1>2, <1>3, <1>4

\* A broadcast begins of a pending spend only, and its end deletes the spend.
SpendForward ==
  \A t \in TxIds : spends'[t].calls > spends[t].calls => spends[t].sent = 0

LEMMA SpendSet ==
  ASSUME SpendInv, NEW t \in TxIds, NEW new \in SpendShape, spends' = [spends EXCEPT ![t] = new],
         new.sent > 0 => new.stage = "deleted",
         new.calls > spends[t].calls => spends[t].sent = 0
  PROVE  SpendInv' /\ SpendForward
BY DEF SpendInv, SpendForward, SpendShape

LEMMA SpendStep ==
  ASSUME SpendInv,
         \E t \in TxIds : \/ ProposeSpend(t) \/ ExecuteIfThresholdMet(t) \/ BroadcastDone(t)
                          \/ \E s \in Signers : AddSignature(t, s)
  PROVE  SpendInv' /\ SpendForward
<1> PICK t \in TxIds : \/ ProposeSpend(t) \/ ExecuteIfThresholdMet(t) \/ BroadcastDone(t)
                       \/ \E s \in Signers : AddSignature(t, s)
  OBVIOUS
<1> DEFINE old == spends[t]
<1>1. old \in SpendShape /\ (old.sent > 0 => old.stage = "deleted")
  BY DEF SpendInv
<1>2. CASE ProposeSpend(t)
  <2> DEFINE new == [old EXCEPT !.stage = "pending"]
  <2>1. spends' = [spends EXCEPT ![t] = new] /\ old.stage = "none"
    BY <1>2 DEF ProposeSpend
  <2>2. new \in SpendShape /\ new.sent = old.sent /\ new.calls = old.calls
    BY <1>1 DEF SpendShape
  <2>3. old.sent = 0 /\ ~(new.calls > old.calls)
    BY <1>1, <2>1, <2>2 DEF SpendShape
  <2> HIDE DEF new
  <2> QED
    BY <1>1, <2>1, <2>2, <2>3, SpendSet
<1>3. CASE \E s \in Signers : AddSignature(t, s)
  <2> PICK s \in Signers : AddSignature(t, s)
    BY <1>3
  <2> DEFINE new == [old EXCEPT !.signatures = @ \cup {s}]
  <2>1. spends' = [spends EXCEPT ![t] = new] /\ old.stage = "pending"
    BY DEF AddSignature
  <2>2. new \in SpendShape /\ new.sent = old.sent /\ new.calls = old.calls
    BY <1>1 DEF SpendShape
  <2>3. old.sent = 0 /\ ~(new.calls > old.calls)
    BY <1>1, <2>1, <2>2 DEF SpendShape
  <2> HIDE DEF new
  <2> QED
    BY <1>1, <2>1, <2>2, <2>3, SpendSet
<1>4. CASE ExecuteIfThresholdMet(t)
  <2> DEFINE new == [old EXCEPT !.calls = @ + 1]
  <2>1. spends' = [spends EXCEPT ![t] = new] /\ old.stage = "pending"
    BY <1>4 DEF ExecuteIfThresholdMet
  <2>2. new \in SpendShape /\ new.sent = old.sent /\ old.sent = 0
    BY <1>1, <2>1 DEF SpendShape
  <2> HIDE DEF new
  <2> QED
    BY <1>1, <2>1, <2>2, SpendSet
<1>5. CASE BroadcastDone(t)
  <2> DEFINE fewer == old.calls - 1
             more == old.sent + 1
             new == [old EXCEPT !.calls = fewer, !.sent = more, !.stage = "deleted"]
  <2>1. spends' = [spends EXCEPT ![t] = new] /\ old.calls > 0
    BY <1>5 DEF BroadcastDone
  <2>2. fewer \in Nat /\ more \in Nat /\ ~(fewer > old.calls)
    BY <1>1, <2>1 DEF SpendShape
  <2> HIDE DEF fewer, more
  <2>3. new \in SpendShape /\ new.stage = "deleted" /\ new.calls = fewer
    BY <1>1, <2>2 DEF SpendShape
  <2> HIDE DEF new
  <2> QED
    BY <1>1, <2>1, <2>2, <2>3, SpendSet
<1> QED
  BY <1>2, <1>3, <1>4, <1>5

LightningInv == InvoiceInv /\ SpendInv

LEMMA LightningInitInv == LightningInit => LightningInv
<1> SUFFICES ASSUME LightningInit PROVE LightningInv
  OBVIOUS
<1>1. InvoiceInv
  BY DEF LightningInit, InvoiceInv, InvoicesShaped, InvoicesCounted
<1>2. NoSpend \in SpendShape /\ NoSpend.sent = 0
  BY DEF NoSpend, SpendShape
<1>3. SpendInv
  BY <1>2 DEF LightningInit, SpendInv
<1> QED
  BY <1>1, <1>3 DEF LightningInv

LEMMA LightningStepInv ==
  LightningInv /\ [LightningNext]_lightningVars => LightningInv' /\ SpendForward
<1> SUFFICES ASSUME LightningInv, [LightningNext]_lightningVars PROVE LightningInv' /\ SpendForward
  OBVIOUS
<1>1. UNCHANGED invoiceVars => InvoiceInv'
  BY DEF LightningInv, InvoiceInv, InvoicesShaped, InvoicesCounted, invoiceVars
<1>2. UNCHANGED spends => SpendInv' /\ SpendForward
  BY DEF LightningInv, SpendInv, SpendForward, SpendShape
<1>3. CASE /\ \/ \E h \in Hashes : GenerateUniqueInvoice(h) \/ TimePasses(h) \/ MarkInvoicePaid(h)
              \/ PruneExpiredInvoices
           /\ UNCHANGED spends
  BY <1>2, <1>3, InvoiceStep DEF LightningInv
<1>4. CASE /\ \E t \in TxIds : \/ ProposeSpend(t) \/ ExecuteIfThresholdMet(t) \/ BroadcastDone(t)
                              \/ \E s \in Signers : AddSignature(t, s)
           /\ UNCHANGED invoiceVars
  BY <1>1, <1>4, SpendStep DEF LightningInv
<1>5. CASE UNCHANGED <<invoiceVars, spends>>
  BY <1>1, <1>2, <1>5 DEF LightningInv
<1> QED
  BY <1>3, <1>4, <1>5 DEF LightningNext, lightningVars, invoiceVars

LEMMA LightningInvariant == LightningSpec => []LightningInv
BY LightningInitInv, LightningStepInv, PTL DEF LightningSpec

\* markInvoicePaid accepts an invoice once, and isInvoiceReplayable never answers otherwise
\* afterwards, whether the invoice was pruned or not.
THEOREM SingleUseAlways == LightningSpec => []SingleUse
<1>1. LightningInv => SingleUse
  BY DEF LightningInv, InvoiceInv, InvoicesCounted, SingleUse, IsInvoiceReplayable
<1> QED
  BY <1>1, LightningInvariant, PTL

\* executeIfThresholdMet deletes the spend after the await of its broadcast: no broadcast of it
\* begins after one has ended.
THEOREM NoBroadcastAfterOneAlways == LightningSpec => NoBroadcastAfterOne
<1>1. SpendForward => \A t \in TxIds : spends'[t].calls > spends[t].calls => spends[t].sent = 0
  BY DEF SpendForward
<1> QED
  BY <1>1, LightningInvariant, LightningStepInv, PTL DEF LightningSpec, NoBroadcastAfterOne

\* What the invariants of invoices and spends leave open: the bounds of the calls on a spend, the
\* wallet and its sweeps, and what the watchtowers hold.
WalletTyped == wallet \in Int /\ sweeps \in Seq(Int)

Sending == [channel : Channels, tx : 1..MaxPenalties, done : SUBSET Towers]

TowersTyped ==
  /\ towers \subseteq Towers
  /\ penalty \in [Channels -> -1..MaxPenalties]
  /\ sending \subseteq Sending
  /\ held \in [Towers -> SUBSET (Channels \X (1..MaxPenalties))]

CallsBounded == \A t \in TxIds : spends[t].calls + spends[t].sent <= MaxCalls

HashesKnown == DOMAIN invoices \subseteq Hashes /\ paidHashes \subseteq Hashes

LightningTyped == HashesKnown /\ CallsBounded /\ WalletTyped /\ TowersTyped

LEMMA SweepTyped ==
  ASSUME WalletTyped,
         \/ \E amount \in 0..1 : SweepBegins(amount)
         \/ \E i \in 1..MaxCalls : SweepFails(i) \/ \E fee \in Fees : SweepDebits(i, fee)
  PROVE  WalletTyped'
<1>1. ASSUME NEW i \in 1..MaxCalls, i \in DOMAIN sweeps
      PROVE  /\ sweeps[i] \in Int
             /\ [j \in 1..Len(sweeps) - 1 |-> IF j < i THEN sweeps[j] ELSE sweeps[j + 1]] \in Seq(Int)
  <2>1. PICK n \in Nat : n = Len(sweeps) /\ DOMAIN sweeps = 1..n /\ \A j \in 1..n : sweeps[j] \in Int
    BY LenProperties DEF WalletTyped
  <2>2. n - 1 \in Nat
    BY <1>1, <2>1
  <2>3. \A j \in 1..n - 1 : (IF j < i THEN sweeps[j] ELSE sweeps[j + 1]) \in Int
    BY <2>1
  <2>4. PICK m \in Nat : m = n - 1
    BY <2>2
  <2>5. PICK q : q = [j \in 1..m |-> IF j < i THEN sweeps[j] ELSE sweeps[j + 1]]
    OBVIOUS
  <2>6. q \in [1..m -> Int]
    BY <2>3, <2>4, <2>5
  <2>7. q \in Seq(Int)
    BY <2>6
  <2> QED
    BY <1>1, <2>1, <2>4, <2>5, <2>7
<1>2. ASSUME NEW amount \in 0..1, SweepBegins(amount) PROVE WalletTyped'
  <2>1. sweeps' = Append(sweeps, amount) /\ wallet' = wallet /\ amount \in Int
    BY <1>2 DEF SweepBegins
  <2> QED
    BY <2>1, AppendProperties DEF WalletTyped
<1>3. ASSUME NEW i \in 1..MaxCalls, SweepFails(i) PROVE WalletTyped'
  BY <1>1, <1>3 DEF SweepFails, WalletTyped
<1>4. ASSUME NEW i \in 1..MaxCalls, NEW fee \in Fees, SweepDebits(i, fee) PROVE WalletTyped'
  <2>1. fee \in Nat /\ sweeps[i] \in Int /\ wallet \in Int /\ wallet' = wallet - (sweeps[i] + fee)
    BY <1>1, <1>4, LightningAssumption DEF SweepDebits, WalletTyped
  <2>2. wallet' \in Int
    BY <2>1
  <2> QED
    BY <1>1, <1>4, <2>2 DEF SweepDebits, WalletTyped
<1> QED
  BY <1>2, <1>3, <1>4

LEMMA TowersStep ==
  ASSUME TowersTyped,
         \/ \E w \in Towers : RegisterWatchtower(w)
         \/ \E c \in Channels : MonitorChannelLiquidity(c) \/ PreSignPenaltyTx(c)
         \/ \E call \in sending : PreSignReturns(call) \/
              \E w \in Towers, reached \in BOOLEAN : SendToWatchtower(call, w, reached)
  PROVE  TowersTyped'
<1>1. ASSUME NEW w \in Towers, RegisterWatchtower(w) PROVE TowersTyped'
  BY <1>1 DEF RegisterWatchtower, TowersTyped
<1>2. ASSUME NEW c \in Channels, MonitorChannelLiquidity(c) PROVE TowersTyped'
  <2>1. 0 \in -1..MaxPenalties
    BY LightningAssumption
  <2>2. penalty' \in [Channels -> -1..MaxPenalties]
    BY <1>2, <2>1 DEF MonitorChannelLiquidity, TowersTyped
  <2> QED
    BY <1>2, <2>2 DEF MonitorChannelLiquidity, TowersTyped
<1>3. ASSUME NEW c \in Channels, PreSignPenaltyTx(c) PROVE TowersTyped'
  <2>1. PICK n \in 1..MaxPenalties : n = penalty[c] + 1
    BY <1>3, LightningAssumption DEF PreSignPenaltyTx
  <2>2. penalty' = [penalty EXCEPT ![c] = n] /\ n \in -1..MaxPenalties
    BY <1>3, <2>1, LightningAssumption DEF PreSignPenaltyTx
  <2>3. sending' = sending \cup {[channel |-> c, tx |-> n, done |-> {}]}
    BY <1>3, <2>1 DEF PreSignPenaltyTx
  <2>4. [channel |-> c, tx |-> n, done |-> {}] \in Sending
    BY DEF Sending
  <2> QED
    BY <1>3, <2>2, <2>3, <2>4 DEF PreSignPenaltyTx, TowersTyped
<1>4. ASSUME NEW call \in sending, PreSignReturns(call) PROVE TowersTyped'
  BY <1>4 DEF PreSignReturns, TowersTyped
<1>5. ASSUME NEW call \in sending, NEW w \in Towers, NEW reached \in BOOLEAN,
             SendToWatchtower(call, w, reached)
      PROVE  TowersTyped'
  <2>1. call \in Sending
    BY DEF TowersTyped
  <2>2. call.channel \in Channels /\ call.tx \in 1..MaxPenalties /\ call.done \in SUBSET Towers
    BY <2>1 DEF Sending
  <2>3. [call EXCEPT !.done = @ \cup {w}] \in Sending
    BY <2>1 DEF Sending
  <2>4. sending' \subseteq Sending
    BY <1>5, <2>3 DEF SendToWatchtower, TowersTyped
  <2>5. <<call.channel, call.tx>> \in Channels \X (1..MaxPenalties)
    BY <2>2
  <2>6. held' \in [Towers -> SUBSET (Channels \X (1..MaxPenalties))]
    <3>1. PICK new \in SUBSET (Channels \X (1..MaxPenalties)) : new = held[w] \cup {<<call.channel, call.tx>>}
      BY <2>5 DEF TowersTyped
    <3>2. held' = held \/ held' = [held EXCEPT ![w] = new]
      BY <1>5, <3>1 DEF SendToWatchtower
    <3> QED
      BY <3>2 DEF TowersTyped
  <2> QED
    BY <1>5, <2>4, <2>6 DEF SendToWatchtower, TowersTyped
<1> QED
  BY <1>1, <1>2, <1>3, <1>4, <1>5

LEMMA CallsStep ==
  ASSUME SpendInv, CallsBounded,
         \E t \in TxIds : \/ ProposeSpend(t) \/ ExecuteIfThresholdMet(t) \/ BroadcastDone(t)
                          \/ \E s \in Signers : AddSignature(t, s)
  PROVE  CallsBounded'
<1> PICK t \in TxIds : \/ ProposeSpend(t) \/ ExecuteIfThresholdMet(t) \/ BroadcastDone(t)
                       \/ \E s \in Signers : AddSignature(t, s)
  OBVIOUS
<1>1. /\ spends[t] \in SpendShape /\ spends[t].calls + spends[t].sent <= MaxCalls
      /\ spends \in [TxIds -> SpendShape]
  BY DEF SpendInv, CallsBounded
<1>2. ASSUME NEW new, spends' = [spends EXCEPT ![t] = new], new.calls + new.sent <= MaxCalls
      PROVE  CallsBounded'
  BY <1>1, <1>2 DEF CallsBounded
<1>3. PICK c \in Nat, n \in Nat : c = spends[t].calls /\ n = spends[t].sent
  BY <1>1 DEF SpendShape
<1>4. CASE ProposeSpend(t)
  <2> DEFINE new == [spends[t] EXCEPT !.stage = "pending"]
  <2>1. spends' = [spends EXCEPT ![t] = new]
    BY <1>4 DEF ProposeSpend
  <2>2. new.calls = c /\ new.sent = n
    BY <1>1, <1>3 DEF SpendShape
  <2> HIDE DEF new
  <2> QED
    BY <1>1, <1>2, <1>3, <2>1, <2>2
<1>5. CASE \E s \in Signers : AddSignature(t, s)
  <2> PICK s \in Signers : AddSignature(t, s)
    BY <1>5
  <2> DEFINE new == [spends[t] EXCEPT !.signatures = @ \cup {s}]
  <2>1. spends' = [spends EXCEPT ![t] = new]
    BY DEF AddSignature
  <2>2. new.calls = c /\ new.sent = n
    BY <1>1, <1>3 DEF SpendShape
  <2> HIDE DEF new
  <2> QED
    BY <1>1, <1>2, <1>3, <2>1, <2>2
<1>6. CASE ExecuteIfThresholdMet(t)
  <2> DEFINE new == [spends[t] EXCEPT !.calls = @ + 1]
  <2>1. spends' = [spends EXCEPT ![t] = new] /\ c + n < MaxCalls
    BY <1>3, <1>6 DEF ExecuteIfThresholdMet
  <2>2. new.calls = c + 1 /\ new.sent = n
    BY <1>1, <1>3 DEF SpendShape
  <2> HIDE DEF new
  <2>3. new.calls + new.sent <= MaxCalls
    BY <1>3, <2>1, <2>2, LightningAssumption
  <2> QED
    BY <1>2, <2>1, <2>3
<1>7. CASE BroadcastDone(t)
  <2> DEFINE new == [spends[t] EXCEPT !.calls = @ - 1, !.sent = @ + 1, !.stage = "deleted"]
  <2>1. spends' = [spends EXCEPT ![t] = new]
    BY <1>7 DEF BroadcastDone
  <2>2. new.calls = c - 1 /\ new.sent = n + 1
    BY <1>1, <1>3 DEF SpendShape
  <2> HIDE DEF new
  <2>3. new.calls + new.sent <= MaxCalls
    BY <1>1, <1>3, <2>2, LightningAssumption
  <2> QED
    BY <1>2, <2>1, <2>3
<1> QED
  BY <1>4, <1>5, <1>6, <1>7

LEMMA HashesStep ==
  ASSUME HashesKnown,
         \/ \E h \in Hashes : GenerateUniqueInvoice(h) \/ TimePasses(h) \/ MarkInvoicePaid(h)
         \/ PruneExpiredInvoices
  PROVE  HashesKnown'
<1>1. ASSUME NEW h \in Hashes, GenerateUniqueInvoice(h) PROVE HashesKnown'
  BY <1>1 DEF GenerateUniqueInvoice, HashesKnown
<1>2. ASSUME NEW h \in Hashes, TimePasses(h) PROVE HashesKnown'
  BY <1>2 DEF TimePasses, HashesKnown
<1>3. ASSUME NEW h \in Hashes, MarkInvoicePaid(h) PROVE HashesKnown'
  BY <1>3 DEF MarkInvoicePaid, HashesKnown
<1>4. ASSUME PruneExpiredInvoices PROVE HashesKnown'
  BY <1>4 DEF PruneExpiredInvoices, HashesKnown
<1> QED
  BY <1>1, <1>2, <1>3, <1>4

LEMMA LightningTypedStep ==
  LightningInv /\ LightningTyped /\ [LightningNext]_lightningVars => LightningTyped'
<1> SUFFICES ASSUME LightningInv, LightningTyped, [LightningNext]_lightningVars PROVE LightningTyped'
  OBVIOUS
<1>1. UNCHANGED invoiceVars => HashesKnown'
  BY DEF LightningTyped, HashesKnown, invoiceVars
<1>2. UNCHANGED spends => CallsBounded'
  BY DEF LightningTyped, CallsBounded
<1>3. UNCHANGED <<wallet, sweeps>> => WalletTyped'
  BY DEF LightningTyped, WalletTyped
<1>4. UNCHANGED towerVars => TowersTyped'
  BY DEF LightningTyped, TowersTyped, towerVars
<1>5. CASE /\ \/ \E h \in Hashes : GenerateUniqueInvoice(h) \/ TimePasses(h) \/ MarkInvoicePaid(h)
              \/ PruneExpiredInvoices
           /\ UNCHANGED <<spends, wallet, sweeps, towerVars>>
  BY <1>2, <1>3, <1>4, <1>5, HashesStep DEF LightningTyped
<1>6. CASE /\ \E t \in TxIds : \/ ProposeSpend(t) \/ ExecuteIfThresholdMet(t) \/ BroadcastDone(t)
                              \/ \E s \in Signers : AddSignature(t, s)
           /\ UNCHANGED <<invoiceVars, wallet, sweeps, towerVars>>
  BY <1>1, <1>3, <1>4, <1>6, CallsStep DEF LightningTyped, LightningInv
<1>7. CASE /\ \/ \E amount \in 0..1 : SweepBegins(amount)
              \/ \E i \in 1..MaxCalls : SweepFails(i) \/ \E fee \in Fees : SweepDebits(i, fee)
           /\ UNCHANGED <<invoiceVars, spends, towerVars>>
  BY <1>1, <1>2, <1>4, <1>7, SweepTyped DEF LightningTyped
<1>8. CASE /\ \/ \E w \in Towers : RegisterWatchtower(w)
              \/ \E c \in Channels : MonitorChannelLiquidity(c) \/ PreSignPenaltyTx(c)
              \/ \E call \in sending : PreSignReturns(call) \/
                   \E w \in Towers, reached \in BOOLEAN : SendToWatchtower(call, w, reached)
           /\ UNCHANGED <<invoiceVars, spends, wallet, sweeps>>
  BY <1>1, <1>2, <1>3, <1>8, TowersStep DEF LightningTyped
<1>9. CASE UNCHANGED lightningVars
  <2>1. UNCHANGED <<invoiceVars, spends, wallet, sweeps, towerVars>>
    BY <1>9 DEF lightningVars, invoiceVars, towerVars
  <2> QED
    BY <1>1, <1>2, <1>3, <1>4, <2>1 DEF LightningTyped
<1> QED
  BY <1>5, <1>6, <1>7, <1>8, <1>9 DEF LightningNext

LEMMA LightningTypedInit == LightningInit => LightningTyped
<1> SUFFICES ASSUME LightningInit PROVE LightningTyped
  OBVIOUS
<1>1. HashesKnown
  BY DEF LightningInit, HashesKnown
<1>2. CallsBounded
  BY LightningAssumption DEF LightningInit, CallsBounded, NoSpend
<1>3. WalletTyped
  BY DEF LightningInit, WalletTyped
<1>4. TowersTyped
  BY LightningAssumption DEF LightningInit, TowersTyped
<1> QED
  BY <1>1, <1>2, <1>3, <1>4 DEF LightningTyped

LEMMA LightningTypes == LightningInv /\ LightningTyped => LightningTypeOK
<1> SUFFICES ASSUME LightningInv, LightningTyped PROVE LightningTypeOK
  OBVIOUS
<1>1. spends \in [TxIds -> [stage : {"none", "pending", "deleted"}, signatures : SUBSET Signers,
                            calls : 0..MaxCalls, sent : 0..MaxCalls]]
  <2>1. ASSUME NEW t \in TxIds
        PROVE  spends[t] \in [stage : {"none", "pending", "deleted"}, signatures : SUBSET Signers,
                              calls : 0..MaxCalls, sent : 0..MaxCalls]
    <3>1. spends[t] \in SpendShape /\ spends[t].calls + spends[t].sent <= MaxCalls
      BY DEF LightningInv, SpendInv, LightningTyped, CallsBounded
    <3>2. spends[t].calls \in 0..MaxCalls /\ spends[t].sent \in 0..MaxCalls
      BY <3>1, LightningAssumption DEF SpendShape
    <3> QED
      BY <3>1, <3>2 DEF SpendShape
  <2>2. DOMAIN spends = TxIds /\ spends = [t \in TxIds |-> spends[t]]
    BY DEF LightningInv, SpendInv
  <2> QED
    BY <2>1, <2>2
<1> QED
  BY <1>1 DEF LightningInv, InvoiceInv, InvoicesShaped, LightningTyped, HashesKnown, WalletTyped,
              TowersTyped, Sending, LightningTypeOK

\* Invoices, spends, sweeps and penalties keep their shape, with every call in progress.
THEOREM LightningTypeCorrect == LightningSpec => []LightningTypeOK
<1>1. LightningInit => LightningInv /\ LightningTyped
  BY LightningInitInv, LightningTypedInit
<1>2. (LightningInv /\ LightningTyped) /\ [LightningNext]_lightningVars
        => (LightningInv /\ LightningTyped)'
  BY LightningStepInv, LightningTypedStep
<1> QED
  BY <1>1, <1>2, LightningTypes, PTL DEF LightningSpec

-----------------------------------------------------------------------------
(***************************************************************************)
(* LightningStreams.  A stream that was stopped has no entry that lets its *)
(* loop go on; one that was not stopped and is under way has the entry     *)
(* "true", so that only the number of its ticks can end it.                *)
(***************************************************************************)
StreamShape ==
  /\ stream \in [Streams -> [at : {"none", "paying", "yielded", "resting", "done", "left"},
                             begun : 0 .. NumTicks]]
  /\ activeStreams \in [Streams -> {"true", "false", "no entry"}]

Underway == {"paying", "yielded", "resting"}

EntryOf(s) ==
  /\ s \in stoppedStreams => activeStreams[s] # "true" /\ stream[s].at # "none"
  /\ s \notin stoppedStreams /\ stream[s].at \in Underway => activeStreams[s] = "true"
  /\ s \notin stoppedStreams /\ stream[s].at = "done" => stream[s].begun = NumTicks

StreamInv == StreamShape /\ \A s \in Streams : EntryOf(s)

TickOf(s) ==
  /\ s \in stoppedStreams => stream'[s].begun = stream[s].begun
  /\ stream'[s].at = "done" /\ s \notin stoppedStreams => stream'[s].begun = NumTicks

\* A step of one stream leaves the others.
LEMMA OneStream ==
  ASSUME StreamInv, NEW s \in Streams, NEW r \in [at : {"none", "paying", "yielded", "resting", "done", "left"},
                                               begun : 0 .. NumTicks], NEW entry \in {"true", "false", "no entry"},
         stream' = [stream EXCEPT ![s] = r], activeStreams' = [activeStreams EXCEPT ![s] = entry],
         stoppedStreams' \ {s} = stoppedStreams \ {s}, EntryOf(s)', TickOf(s)
  PROVE  StreamInv' /\ \A q \in Streams : TickOf(q)
<1>1. StreamShape'
  BY DEF StreamInv, StreamShape
<1>2. ASSUME NEW q \in Streams, q # s PROVE EntryOf(q)' /\ TickOf(q)
  <2>1. stream'[q] = stream[q] /\ activeStreams'[q] = activeStreams[q]
    BY <1>2 DEF StreamInv, StreamShape
  <2>2. q \in stoppedStreams' <=> q \in stoppedStreams
    BY <1>2
  <2>3. EntryOf(q)
    BY DEF StreamInv
  <2> QED
    BY <2>1, <2>2, <2>3 DEF EntryOf, TickOf
<1> QED
  BY <1>1, <1>2 DEF StreamInv

\* The head of the loop.
LEMMA LoopStep ==
  ASSUME StreamInv, NEW s \in Streams, NEW active \in BOOLEAN, Loop(s, active),
         stoppedStreams' = stoppedStreams,
         s \in stoppedStreams => ~active /\ stream[s].at # "none", s \notin stoppedStreams => active
  PROVE  StreamInv' /\ \A q \in Streams : TickOf(q)
<1> DEFINE old == stream[s]
<1>1. old \in [at : {"none", "paying", "yielded", "resting", "done", "left"}, begun : 0 .. NumTicks]
  BY DEF StreamInv, StreamShape
<1>2. old.begun \in 0 .. NumTicks
  BY <1>1
<1>3. DOMAIN stream = Streams /\ DOMAIN activeStreams = Streams
  BY DEF StreamInv, StreamShape
<1>4. CASE old.begun < NumTicks /\ active
  <2> DEFINE k == old.begun + 1
             r == [at |-> "paying", begun |-> k]
  <2>1. stream' = [stream EXCEPT ![s] = r] /\ activeStreams' = [activeStreams EXCEPT ![s] = "true"]
    BY <1>4 DEF Loop
  <2>2. k \in 0 .. NumTicks
    BY <1>2, <1>4, StreamAssumption
  <2> HIDE DEF k
  <2>3. r \in [at : {"none", "paying", "yielded", "resting", "done", "left"}, begun : 0 .. NumTicks]
    BY <2>2
  <2>4. stream'[s] = r /\ activeStreams'[s] = "true" /\ s \notin stoppedStreams
    BY <1>3, <1>4, <2>1
  <2>5. EntryOf(s)' /\ TickOf(s)
    BY <2>4 DEF EntryOf, TickOf
  <2> HIDE DEF r
  <2> QED
    BY <2>1, <2>3, <2>5, OneStream
<1>5. CASE ~(old.begun < NumTicks /\ active)
  <2> DEFINE r == [old EXCEPT !.at = "done"]
  <2>1. stream' = [stream EXCEPT ![s] = r] /\ activeStreams' = [activeStreams EXCEPT ![s] = "no entry"]
    BY <1>5 DEF Loop
  <2>2. r \in [at : {"none", "paying", "yielded", "resting", "done", "left"}, begun : 0 .. NumTicks]
    BY <1>1
  <2>3. r.at = "done" /\ r.begun = old.begun
    BY <1>1
  <2>4. s \notin stoppedStreams => old.begun = NumTicks
    BY <1>2, <1>5, StreamAssumption
  <2> HIDE DEF r
  <2>5. stream'[s] = r /\ activeStreams'[s] = "no entry"
    BY <1>3, <2>1
  <2>6. EntryOf(s)' /\ TickOf(s)
    BY <2>3, <2>4, <2>5 DEF EntryOf, TickOf, Underway
  <2> QED
    BY <2>1, <2>2, <2>6, OneStream
<1> QED
  BY <1>4, <1>5

\* The steps between two heads of the loop begin no payment.
LEMMA TickStep ==
  ASSUME StreamInv, NEW s \in Streams, TickYielded(s) \/ TickThrows(s) \/ NextTick(s)
  PROVE  StreamInv' /\ \A q \in Streams : TickOf(q)
<1>1. PICK at \in {"yielded", "left", "resting"} :
        /\ stream' = [stream EXCEPT ![s].at = at] /\ stream[s].at \in Underway
        /\ activeStreams' = activeStreams /\ stoppedStreams' = stoppedStreams
  BY DEF TickYielded, TickThrows, NextTick, Underway
<1> DEFINE r == [stream[s] EXCEPT !.at = at]
<1>2. r \in [at : {"none", "paying", "yielded", "resting", "done", "left"}, begun : 0 .. NumTicks]
  BY DEF StreamInv, StreamShape
<1>3. r.at = at /\ r.begun = stream[s].begun
  BY DEF StreamInv, StreamShape
<1>4. stream' = [stream EXCEPT ![s] = r]
  BY <1>1
<1> HIDE DEF r
<1>5. activeStreams' = [activeStreams EXCEPT ![s] = activeStreams[s]] /\ stream'[s] = r
  BY <1>1, <1>4 DEF StreamInv, StreamShape
<1>6. EntryOf(s)' /\ TickOf(s)
  BY <1>1, <1>3, <1>5 DEF StreamInv, EntryOf, TickOf, Underway
<1>7. PICK entry \in {"true", "false", "no entry"} : entry = activeStreams[s]
  BY DEF StreamInv, StreamShape
<1>8. activeStreams' = [activeStreams EXCEPT ![s] = entry] /\ stoppedStreams' \ {s} = stoppedStreams \ {s}
  BY <1>1, <1>5, <1>7
<1> QED
  BY <1>2, <1>4, <1>6, <1>8, OneStream

LEMMA StopStep ==
  ASSUME StreamInv, NEW s \in Streams, StopStream(s)
  PROVE  StreamInv' /\ \A q \in Streams : TickOf(q)
<1>1. /\ stream[s].at # "none" /\ stream' = stream
      /\ activeStreams' = [activeStreams EXCEPT ![s] = "false"]
      /\ stoppedStreams' = stoppedStreams \cup {s}
  BY DEF StopStream
<1>2. stream' = [stream EXCEPT ![s] = stream[s]] /\ activeStreams'[s] = "false"
  BY <1>1 DEF StreamInv, StreamShape
<1>3. stream[s] \in [at : {"none", "paying", "yielded", "resting", "done", "left"}, begun : 0 .. NumTicks]
  BY DEF StreamInv, StreamShape
<1>4. EntryOf(s)' /\ TickOf(s)
  BY <1>1, <1>2 DEF StreamInv, EntryOf, TickOf
<1> QED
  BY <1>1, <1>2, <1>3, <1>4, OneStream

LEMMA StreamInitInv == StreamInit => StreamInv
<1> SUFFICES ASSUME StreamInit PROVE StreamInv
  OBVIOUS
<1>1. 0 \in 0 .. NumTicks
  BY StreamAssumption
<1>2. StreamShape
  BY <1>1 DEF StreamInit, StreamShape
<1>3. ASSUME NEW s \in Streams PROVE EntryOf(s)
  BY DEF StreamInit, EntryOf, Underway
<1> QED
  BY <1>2, <1>3 DEF StreamInv

LEMMA StreamStepInv ==
  StreamInv /\ [StreamNext]_streamVars => StreamInv' /\ \A q \in Streams : TickOf(q)
<1> SUFFICES ASSUME StreamInv, [StreamNext]_streamVars
             PROVE  StreamInv' /\ \A q \in Streams : TickOf(q)
  OBVIOUS
<1>1. ASSUME NEW s \in Streams, StreamPayment(s) PROVE StreamInv' /\ \A q \in Streams : TickOf(q)
  <2>1. stream[s].at = "none" /\ Loop(s, TRUE) /\ stoppedStreams' = stoppedStreams
    BY <1>1 DEF StreamPayment
  <2>2. s \notin stoppedStreams
    BY <2>1 DEF StreamInv, EntryOf
  <2> QED
    BY <2>1, <2>2, LoopStep
<1>2. ASSUME NEW s \in Streams, IntervalEnds(s) PROVE StreamInv' /\ \A q \in Streams : TickOf(q)
  <2> DEFINE active == activeStreams[s] = "true"
  <2>1. stream[s].at = "resting" /\ Loop(s, active) /\ stoppedStreams' = stoppedStreams
    BY <1>2 DEF IntervalEnds
  <2>2. /\ s \in stoppedStreams => ~active /\ stream[s].at # "none"
        /\ s \notin stoppedStreams => active
    BY <2>1 DEF StreamInv, EntryOf, Underway
  <2>3. active \in BOOLEAN
    OBVIOUS
  <2> HIDE DEF active
  <2> QED
    BY <2>1, <2>2, <2>3, LoopStep
<1>3. ASSUME UNCHANGED <<stream, activeStreams, stoppedStreams>>
      PROVE  StreamInv' /\ \A q \in Streams : TickOf(q)
  BY <1>3 DEF StreamInv, StreamShape, EntryOf, TickOf
<1>4. \/ \E s \in Streams : \/ StreamPayment(s) \/ TickYielded(s) \/ TickThrows(s)
                            \/ NextTick(s) \/ IntervalEnds(s) \/ StopStream(s)
      \/ UNCHANGED <<stream, activeStreams, stoppedStreams>>
  BY DEF StreamNext, StreamClock, CreateHTLC, HTLCCreated, SettleHTLC, CancelHTLC, streamVars
<1> QED
  BY <1>1, <1>2, <1>3, <1>4, TickStep, StopStep

LEMMA StreamInvariant == StreamSpec => []StreamInv
BY StreamInitInv, StreamStepInv, PTL DEF StreamSpec

\* stopStream takes effect at a payment, a tick or a rest: no further payment of the stream
\* begins; one that ends by itself has made all its payments.
THEOREM NoTickAfterStopAlways == StreamSpec => NoTickAfterStop
<1>1. (\A q \in Streams : TickOf(q)) =>
        \A s \in Streams :
          /\ s \in stoppedStreams => stream'[s].begun = stream[s].begun
          /\ stream'[s].at = "done" /\ s \notin stoppedStreams => stream'[s].begun = NumTicks
  BY DEF TickOf
<1> QED
  BY <1>1, StreamInvariant, StreamStepInv, PTL DEF StreamSpec, NoTickAfterStop

\* The contracts, which StreamInv says nothing of.
ContractsTyped ==
  /\ clock \in Nat
  /\ \A k \in creating : k.of \in Contracts /\ k.ms \in 0 .. clock
  /\ \A t \in DOMAIN htlcStore : htlcStore[t].of \subseteq Contracts

LEMMA ContractsStep == ContractsTyped /\ [StreamNext]_streamVars => ContractsTyped'
<1> SUFFICES ASSUME ContractsTyped, [StreamNext]_streamVars PROVE ContractsTyped'
  OBVIOUS
<1>1. CASE UNCHANGED contractVars
  BY <1>1 DEF ContractsTyped, contractVars
<1>2. CASE StreamClock
  BY <1>2 DEF StreamClock, ContractsTyped
<1>3. ASSUME NEW t, NEW c \in Contracts, Stored(t, c)
      PROVE  \A u \in DOMAIN htlcStore' : htlcStore'[u].of \subseteq Contracts
  BY <1>3 DEF Stored, ContractsTyped
<1>4. ASSUME NEW c \in Contracts, CreateHTLC(c) PROVE ContractsTyped'
  <2>1. clock \in 0 .. clock
    BY DEF ContractsTyped
  <2> QED
    BY <1>3, <1>4, <2>1 DEF CreateHTLC, ContractsTyped
<1>5. ASSUME NEW k \in creating, HTLCCreated(k) PROVE ContractsTyped'
  BY <1>3, <1>5 DEF HTLCCreated, ContractsTyped
<1>6. ASSUME NEW t \in DOMAIN htlcStore, NEW status, UNCHANGED <<clock, creating>>,
             htlcStore' = [htlcStore EXCEPT ![t].status = status]
      PROVE  ContractsTyped'
  <2>1. \A u \in DOMAIN htlcStore' : u \in DOMAIN htlcStore /\ htlcStore'[u].of = htlcStore[u].of
    BY <1>6
  <2> QED
    BY <1>6, <2>1 DEF ContractsTyped
<1>7. ASSUME NEW t \in DOMAIN htlcStore, NEW c \in Contracts, SettleHTLC(t, c) PROVE ContractsTyped'
  BY <1>6, <1>7 DEF SettleHTLC
<1>8. ASSUME NEW t \in DOMAIN htlcStore, CancelHTLC(t) PROVE ContractsTyped'
  BY <1>6, <1>8 DEF CancelHTLC
<1>9. ASSUME NEW s \in Streams, \/ StreamPayment(s) \/ TickYielded(s) \/ TickThrows(s)
                                \/ NextTick(s) \/ IntervalEnds(s) \/ StopStream(s)
      PROVE  UNCHANGED contractVars
  BY <1>9 DEF StreamPayment, TickYielded, TickThrows, NextTick, IntervalEnds, StopStream
<1> QED
  BY <1>1, <1>2, <1>4, <1>5, <1>7, <1>8, <1>9 DEF StreamNext, streamVars

\* The streams keep their shape (payments/lightning-v2.ts): none pays more ticks than were asked for,
\* and every tagged payment is of a contract.
THEOREM StreamTypeCorrect == StreamSpec => []StreamTypeOK
<1>1. ASSUME StreamInit PROVE ContractsTyped
  <2>1. \A t \in DOMAIN htlcStore : htlcStore[t] = NoContract
    BY <1>1 DEF StreamInit
  <2>2. NoContract.of = {}
    BY DEF NoContract
  <2>3. clock = 0 /\ creating = {}
    BY <1>1 DEF StreamInit
  <2> QED
    BY <2>1, <2>2, <2>3 DEF ContractsTyped
<1>2. StreamInv /\ ContractsTyped => StreamTypeOK
  BY DEF StreamInv, StreamShape, ContractsTyped, StreamTypeOK
<1> QED
  BY <1>1, <1>2, StreamInvariant, ContractsStep, PTL DEF StreamSpec

-----------------------------------------------------------------------------
(***************************************************************************)
(* RateLimits.  A limiter with a sliding window refuses on the recorded    *)
(* calls, so that WindowsBounded needs RecordsSuffice: within the window   *)
(* that ends now, no more calls were admitted than are recorded, whatever  *)
(* the filters have thrown away.  The relay limiter records a count only:  *)
(* RelayCounts says what the count bounds, and that a window which began   *)
(* before the last restart held no more than one quota until then.  Times  *)
(* are counted over all integers, since windows reach back before zero.    *)
(***************************************************************************)
RateShape ==
  /\ limiter \in Limiters /\ tick \in Nat
  /\ times \in Seq(Nat) /\ (\A i \in DOMAIN times : times[i] <= tick)
  /\ admitted \in Seq(Nat) /\ (\A i \in DOMAIN admitted : admitted[i] <= tick)
  /\ relay \in [known : BOOLEAN, requestCount : Nat, lastReset : Nat]

RecordsSuffice ==
  \A u \in Int : u > tick - WindowTicks => Count(admitted, u..tick) <= Count(times, u..tick)

SlidingBounded ==
  \A t \in Int : Count(admitted, t..t + WindowTicks - 1) <= MaxCount[limiter]

\* What the statistics r of a relay say of the requests a admitted so far, at time now.
RelayCounts(r, a, now) ==
  /\ r.lastReset <= now
  /\ Count(a, r.lastReset..now) <= r.requestCount
  /\ Count(a, r.lastReset..now) <= MaxCount["relay"]
  /\ \A t \in Int : t < r.lastReset /\ r.lastReset <= t + WindowTicks =>
       Count(a, t..r.lastReset - 1) <= MaxCount["relay"]
  /\ \A i \in DOMAIN a : a[i] <= r.lastReset + WindowTicks

RelayBounded ==
  \A t \in Int : Count(admitted, t..t + WindowTicks) <= 2 * MaxCount["relay"]

RateInv ==
  /\ RateShape
  /\ limiter # "relay" => RecordsSuffice /\ SlidingBounded
  /\ limiter = "relay" =>
       /\ RelayBounded
       /\ IF relay.known THEN RelayCounts(relay, admitted, tick)
          ELSE relay = NoStats /\ admitted = <<>>

THEOREM RateInitInv == RateInit => RateInv
<1> SUFFICES ASSUME RateInit PROVE RateInv
  OBVIOUS
<1>1. RateShape
  BY DEF RateInit, RateShape, NoStats
<1>2. \A P : Count(admitted, P) = 0 /\ Count(times, P) = 0
  BY CountEmpty DEF RateInit
<1>3. limiter \in Limiters /\ MaxCount[limiter] \in Nat /\ MaxCount["relay"] \in Nat
  BY RateAssumption DEF RateInit, Limiters
<1>4. RecordsSuffice /\ SlidingBounded /\ RelayBounded
  BY <1>2, <1>3 DEF RecordsSuffice, SlidingBounded, RelayBounded
<1>5. ~relay.known /\ relay = NoStats /\ admitted = <<>>
  BY DEF RateInit, NoStats
<1> QED
  BY <1>1, <1>4, <1>5 DEF RateInv

\* The invariant says what WindowsBounded says.
LEMMA RateInvWindows == RateInv => WindowsBounded
<1> SUFFICES ASSUME RateInv, NEW t \in 0..MaxTick
             PROVE  IF limiter = "relay"
                    THEN AdmittedFrom(t, WindowTicks + 1) <= 2 * MaxCount["relay"]
                    ELSE AdmittedFrom(t, WindowTicks) <= MaxCount[limiter]
  BY DEF WindowsBounded
<1>1. t \in Int /\ WindowTicks \in Nat
  BY RateAssumption
<1>2. AdmittedFrom(t, WindowTicks) = Count(admitted, t..t + WindowTicks - 1)
  BY DEF AdmittedFrom, Count, Places
<1>3. t + (WindowTicks + 1) - 1 = t + WindowTicks
  BY <1>1
<1>4. AdmittedFrom(t, WindowTicks + 1) = Count(admitted, t..t + WindowTicks)
  BY <1>3 DEF AdmittedFrom, Count, Places
<1>5. CASE limiter = "relay"
  BY <1>1, <1>4, <1>5 DEF RateInv, RelayBounded
<1>6. CASE limiter # "relay"
  BY <1>1, <1>2, <1>6 DEF RateInv, SlidingBounded
<1> QED
  BY <1>5, <1>6

\* What ends after every element of s counts what ends at them.
LEMMA CountToEnd ==
  ASSUME NEW s \in Seq(Nat), NEW now \in Int, NEW later \in Int, NEW u \in Int, now <= later,
         \A i \in DOMAIN s : s[i] <= now
  PROVE  Count(s, u..later) = Count(s, u..now)
<1>1. \A i \in DOMAIN s : s[i] \in u..later <=> s[i] \in u..now
  <2>1. \A i \in DOMAIN s : s[i] \in Nat
    OBVIOUS
  <2> QED
    BY <2>1
<1> QED
  BY <1>1, CountSame

\* One call more at the present time, and what it adds to a window.
LEMMA OneCallMore ==
  ASSUME NEW s \in Seq(Nat), NEW now \in Nat, \A i \in DOMAIN s : s[i] <= now
  PROVE  /\ Append(s, now) \in Seq(Nat)
         /\ \A i \in DOMAIN Append(s, now) : Append(s, now)[i] <= now
         /\ \A P : Count(Append(s, now), P) = IF now \in P THEN Count(s, P) + 1 ELSE Count(s, P)
         /\ \A P : Count(s, P) \in Nat
<1>1. /\ Append(s, now) \in Seq(Nat)
      /\ \A i \in DOMAIN Append(s, now) : Append(s, now)[i] <= now
  OBVIOUS
<1> QED
  BY <1>1, CountAppend, CountType

\* The filter keeps every call of a window that ends now.
LEMMA WindowKept ==
  ASSUME NEW s \in Seq(Nat), NEW now \in Nat, \A i \in DOMAIN s : s[i] <= now
  PROVE  LET k == Kept(s, now - WindowTicks + 1 .. now)
         IN /\ k \in Seq(Nat) /\ (\A i \in DOMAIN k : k[i] <= now)
            /\ \A u \in Int : u > now - WindowTicks => Count(k, u..now) = Count(s, u..now)
<1> DEFINE K == now - WindowTicks + 1 .. now
<1>1. PICK k : k = Kept(s, K)
  OBVIOUS
<1>2. /\ k \in Seq(Nat) /\ (\A i \in DOMAIN k : k[i] \in K)
      /\ \A P : Count(k, P) = Count(s, P \cap K)
  <2> HIDE DEF K
  <2>1. /\ Kept(s, K) \in Seq(Nat) /\ (\A i \in DOMAIN Kept(s, K) : Kept(s, K)[i] \in K)
        /\ \A P : Count(Kept(s, K), P) = Count(s, P \cap K)
    BY KeptCounts
  <2> QED
    BY <1>1, <2>1
<1>3. ASSUME NEW u \in Int, u > now - WindowTicks PROVE (u..now) \cap K = u..now
  BY <1>3, RateAssumption
<1>4. \A i \in DOMAIN k : k[i] <= now
  BY <1>2
<1>5. ASSUME NEW u \in Int, u > now - WindowTicks PROVE Count(k, u..now) = Count(s, u..now)
  BY <1>2, <1>3, <1>5
<1> QED
  BY <1>1, <1>2, <1>4, <1>5

\* A sliding limiter that records every admitted call, and admits one only when no more than
\* the limit are on record then, never admits too many in a window.
LEMMA SlidingStep ==
  ASSUME RateInv, limiter # "relay", limiter' = limiter, tick' = tick, RateShape', RecordsSuffice',
         \/ admitted' = admitted
         \/ admitted' = Append(admitted, tick) /\ Len(times') <= MaxCount[limiter]
  PROVE  SlidingBounded'
<1> SUFFICES ASSUME NEW t \in Int
             PROVE  Count(admitted', t..t + WindowTicks - 1) <= MaxCount[limiter]
  BY RateAssumption DEF SlidingBounded
<1>1. /\ tick \in Nat /\ admitted \in Seq(Nat) /\ MaxCount[limiter] \in Nat /\ WindowTicks \in Nat
      /\ \A i \in DOMAIN admitted : admitted[i] <= tick
  BY RateAssumption DEF RateInv, RateShape
<1>2. Count(admitted, t..t + WindowTicks - 1) <= MaxCount[limiter]
  BY DEF RateInv, SlidingBounded
<1>3. CASE admitted' = admitted
  BY <1>2, <1>3
<1>4. CASE admitted' = Append(admitted, tick) /\ Len(times') <= MaxCount[limiter]
  <2>1. CASE tick \notin t..t + WindowTicks - 1
    <3>1. Count(Append(admitted, tick), t..t + WindowTicks - 1) = Count(admitted, t..t + WindowTicks - 1)
      BY <1>1, <2>1, OneCallMore
    <3> QED
      BY <1>2, <1>4, <3>1
  <2>2. CASE tick \in t..t + WindowTicks - 1
    <3>1. t > tick - WindowTicks /\ tick <= t + WindowTicks - 1
      BY <1>1, <2>2
    <3>2. /\ admitted' \in Seq(Nat) /\ times' \in Seq(Nat)
          /\ \A i \in DOMAIN admitted' : admitted'[i] <= tick
      BY DEF RateShape
    <3>3. Count(admitted', t..t + WindowTicks - 1) = Count(admitted', t..tick)
      BY <1>1, <3>1, <3>2, CountToEnd
    <3>4. Count(admitted', t..tick) <= Count(times', t..tick)
      BY <3>1 DEF RecordsSuffice
    <3>5. Count(times', t..tick) <= Len(times')
      BY <3>2, CountAll
    <3>6. /\ Count(times', t..tick) \in Nat /\ Count(admitted', t..tick) \in Nat
          /\ Len(times') \in Nat
      BY <3>2, CountType
    <3> QED
      BY <1>1, <1>4, <3>3, <3>4, <3>5, <3>6
  <2> QED
    BY <2>1, <2>2
<1> QED
  BY <1>3, <1>4

\* One call more keeps the record sufficient, on both sides at once.
LEMMA RecordsStep ==
  ASSUME NEW s \in Seq(Nat), NEW a \in Seq(Nat), NEW now \in Nat,
         \A i \in DOMAIN s : s[i] <= now, \A i \in DOMAIN a : a[i] <= now,
         \A u \in Int : u > now - WindowTicks => Count(a, u..now) <= Count(s, u..now)
  PROVE  \A u \in Int : u > now - WindowTicks =>
           /\ Count(Append(a, now), u..now) <= Count(Append(s, now), u..now)
           /\ Count(a, u..now) <= Count(Append(s, now), u..now)
<1> SUFFICES ASSUME NEW u \in Int, u > now - WindowTicks
             PROVE  /\ Count(Append(a, now), u..now) <= Count(Append(s, now), u..now)
                    /\ Count(a, u..now) <= Count(Append(s, now), u..now)
  OBVIOUS
<1>1. PICK P : P = u..now
  OBVIOUS
<1>2. /\ Count(Append(a, now), P) = IF now \in P THEN Count(a, P) + 1 ELSE Count(a, P)
      /\ Count(Append(s, now), P) = IF now \in P THEN Count(s, P) + 1 ELSE Count(s, P)
      /\ Count(a, P) \in Nat /\ Count(s, P) \in Nat
  BY OneCallMore
<1>3. Count(a, P) <= Count(s, P)
  BY <1>1
<1> QED
  BY <1>1, <1>2, <1>3

LEMMA RateLimitStep ==
  ASSUME RateInv, RateLimit
  PROVE  RateInv'
<1> DEFINE recent == Kept(times, InWindow)
<1>1. /\ limiter # "relay" /\ limiter' = limiter /\ tick' = tick /\ relay' = relay
      /\ limiter \in Limiters /\ tick \in Nat /\ times \in Seq(Nat) /\ admitted \in Seq(Nat)
      /\ (\A i \in DOMAIN times : times[i] <= tick) /\ (\A i \in DOMAIN admitted : admitted[i] <= tick)
      /\ relay \in [known : BOOLEAN, requestCount : Nat, lastReset : Nat]
      /\ MaxCount[limiter] \in Nat /\ WindowTicks \in Nat
  BY RateAssumption DEF RateLimit, RateInv, RateShape
<1>2. /\ recent \in Seq(Nat) /\ (\A i \in DOMAIN recent : recent[i] <= tick)
      /\ \A u \in Int : u > tick - WindowTicks => Count(recent, u..tick) = Count(times, u..tick)
  <2>1. recent = Kept(times, tick - WindowTicks + 1 .. tick)
    BY DEF InWindow
  <2> HIDE DEF recent
  <2> QED
    BY <1>1, <2>1, WindowKept
<1>3. \A u \in Int : u > tick - WindowTicks => Count(admitted, u..tick) <= Count(recent, u..tick)
  <2> HIDE DEF recent
  <2> QED
    BY <1>1, <1>2 DEF RateInv, RecordsSuffice
<1>4. \/ times' \in {times, recent} /\ admitted' = admitted
      \/ /\ times' = Append(recent, tick) /\ admitted' = Append(admitted, tick)
         /\ ~(Len(recent) >= MaxCount[limiter])
  BY DEF RateLimit
<1> HIDE DEF recent
<1>5. CASE times' \in {times, recent} /\ admitted' = admitted
  <2>1. RateShape'
    BY <1>1, <1>2, <1>5 DEF RateShape
  <2>2. RecordsSuffice'
    <3>1. CASE times' = times
      BY <1>1, <1>5, <3>1 DEF RateInv, RecordsSuffice
    <3>2. CASE times' = recent
      BY <1>1, <1>3, <1>5, <3>2 DEF RecordsSuffice
    <3> QED
      BY <1>5, <3>1, <3>2
  <2>3. SlidingBounded'
    BY <1>1, <1>5, <2>1, <2>2, SlidingStep
  <2> QED
    BY <1>1, <2>1, <2>2, <2>3 DEF RateInv
<1>6. CASE /\ times' = Append(recent, tick) /\ admitted' = Append(admitted, tick)
           /\ ~(Len(recent) >= MaxCount[limiter])
  <2>1. /\ times' \in Seq(Nat) /\ (\A i \in DOMAIN times' : times'[i] <= tick)
        /\ admitted' \in Seq(Nat) /\ (\A i \in DOMAIN admitted' : admitted'[i] <= tick)
        /\ Len(times') = Len(recent) + 1 /\ Len(recent) \in Nat
    BY <1>1, <1>2, <1>6
  <2>2. RateShape'
    BY <1>1, <2>1 DEF RateShape
  <2>3. RecordsSuffice'
    BY <1>1, <1>2, <1>3, <1>6, RecordsStep DEF RecordsSuffice
  <2>4. Len(times') <= MaxCount[limiter]
    BY <1>1, <1>6, <2>1
  <2>5. SlidingBounded'
    BY <1>1, <1>6, <2>2, <2>3, <2>4, SlidingStep
  <2> QED
    BY <1>1, <2>2, <2>3, <2>5 DEF RateInv
<1> QED
  BY <1>4, <1>5, <1>6

LEMMA FloodStep ==
  ASSUME RateInv, DetectHTLCFlood
  PROVE  RateInv'
<1>1. /\ limiter # "relay" /\ limiter' = limiter /\ tick' = tick /\ relay' = relay
      /\ limiter = "htlcs" /\ limiter \in Limiters /\ tick \in Nat
      /\ times \in Seq(Nat) /\ admitted \in Seq(Nat)
      /\ (\A i \in DOMAIN times : times[i] <= tick) /\ (\A i \in DOMAIN admitted : admitted[i] <= tick)
      /\ relay \in [known : BOOLEAN, requestCount : Nat, lastReset : Nat]
      /\ MaxCount[limiter] \in Nat /\ WindowTicks \in Nat
  BY RateAssumption DEF DetectHTLCFlood, RateInv, RateShape
<1>2. PICK more : more = Append(times, tick)
  OBVIOUS
<1>3. /\ more \in Seq(Nat) /\ (\A i \in DOMAIN more : more[i] <= tick)
      /\ \A u \in Int : u > tick - WindowTicks =>
           /\ Count(Append(admitted, tick), u..tick) <= Count(more, u..tick)
           /\ Count(admitted, u..tick) <= Count(more, u..tick)
  <2>1. \A u \in Int : u > tick - WindowTicks => Count(admitted, u..tick) <= Count(times, u..tick)
    BY <1>1 DEF RateInv, RecordsSuffice
  <2>2. more \in Seq(Nat) /\ (\A i \in DOMAIN more : more[i] <= tick)
    BY <1>1, <1>2, OneCallMore
  <2>3. \A u \in Int : u > tick - WindowTicks =>
          /\ Count(Append(admitted, tick), u..tick) <= Count(Append(times, tick), u..tick)
          /\ Count(admitted, u..tick) <= Count(Append(times, tick), u..tick)
    BY <1>1, <2>1, RecordsStep
  <2> QED
    BY <1>2, <2>2, <2>3
<1>4. times' = Kept(more, tick - WindowTicks + 1 .. tick)
  BY <1>2 DEF DetectHTLCFlood, InWindow
<1>5. /\ times' \in Seq(Nat) /\ (\A i \in DOMAIN times' : times'[i] <= tick)
      /\ \A u \in Int : u > tick - WindowTicks => Count(times', u..tick) = Count(more, u..tick)
  BY <1>1, <1>3, <1>4, WindowKept
<1>6. \/ admitted' = admitted
      \/ admitted' = Append(admitted, tick) /\ ~(Len(times') > MaxCount[limiter])
  BY <1>1 DEF DetectHTLCFlood
<1>7. admitted' \in Seq(Nat) /\ (\A i \in DOMAIN admitted' : admitted'[i] <= tick)
  <2>1. /\ Append(admitted, tick) \in Seq(Nat)
        /\ \A i \in DOMAIN Append(admitted, tick) : Append(admitted, tick)[i] <= tick
    BY <1>1, OneCallMore
  <2> QED
    BY <1>1, <1>6, <2>1
<1>8. RateShape'
  BY <1>1, <1>5, <1>7 DEF RateShape
<1>9. RecordsSuffice'
  BY <1>1, <1>3, <1>5, <1>6 DEF RecordsSuffice
<1>10. \/ admitted' = admitted
       \/ admitted' = Append(admitted, tick) /\ Len(times') <= MaxCount[limiter]
  <2>1. Len(times') \in Nat
    BY <1>5
  <2>2. ~(Len(times') > MaxCount[limiter]) => Len(times') <= MaxCount[limiter]
    BY <1>1, <2>1
  <2> QED
    BY <1>6, <2>2
<1>11. SlidingBounded'
  BY <1>1, <1>8, <1>9, <1>10, SlidingStep
<1> QED
  BY <1>1, <1>8, <1>9, <1>11 DEF RateInv

\* The statistics stay right with the clock.
LEMMA RelayLater ==
  ASSUME NEW r \in [known : BOOLEAN, requestCount : Nat, lastReset : Nat], NEW a \in Seq(Nat),
         NEW now \in Nat, NEW later \in Nat, now <= later, \A i \in DOMAIN a : a[i] <= now,
         RelayCounts(r, a, now)
  PROVE  RelayCounts(r, a, later)
<1>1. r.lastReset \in Nat
  OBVIOUS
<1>2. Count(a, r.lastReset..later) = Count(a, r.lastReset..now)
  BY <1>1, CountToEnd
<1> QED
  BY <1>1, <1>2 DEF RelayCounts

LEMMA RateTickStep ==
  ASSUME RateInv, Tick
  PROVE  RateInv'
<1>1. /\ limiter' = limiter /\ tick' = tick + 1 /\ times' = times /\ relay' = relay
      /\ admitted' = admitted /\ tick \in Nat /\ times \in Seq(Nat) /\ admitted \in Seq(Nat)
      /\ (\A i \in DOMAIN times : times[i] <= tick) /\ (\A i \in DOMAIN admitted : admitted[i] <= tick)
      /\ relay \in [known : BOOLEAN, requestCount : Nat, lastReset : Nat]
      /\ limiter \in Limiters /\ WindowTicks \in Nat
  BY RateAssumption DEF Tick, RateInv, RateShape
<1>2. RateShape'
  <2>1. tick' \in Nat /\ (\A n \in Nat : n <= tick => n <= tick')
    BY <1>1
  <2>2. /\ (\A i \in DOMAIN times : times[i] \in Nat)
        /\ (\A i \in DOMAIN admitted : admitted[i] \in Nat)
    BY <1>1
  <2> QED
    BY <1>1, <2>1, <2>2 DEF RateShape
<1>3. ASSUME limiter # "relay" PROVE RecordsSuffice' /\ SlidingBounded'
  <2>1. SlidingBounded'
    BY <1>1, <1>3 DEF RateInv, SlidingBounded
  <2>2. ASSUME NEW u \in Int, u > (tick + 1) - WindowTicks
        PROVE  Count(admitted, u..(tick + 1)) <= Count(times, u..(tick + 1))
    <3>1. u > tick - WindowTicks /\ tick <= tick + 1 /\ tick + 1 \in Int /\ tick \in Int
      BY <1>1, <2>2
    <3>2. PICK later : later = tick + 1
      OBVIOUS
    <3>3. /\ Count(admitted, u..later) = Count(admitted, u..tick)
          /\ Count(times, u..later) = Count(times, u..tick)
      BY <1>1, <3>1, <3>2, CountToEnd
    <3>4. Count(admitted, u..tick) <= Count(times, u..tick)
      BY <1>3, <3>1 DEF RateInv, RecordsSuffice
    <3> QED
      BY <3>2, <3>3, <3>4
  <2> QED
    BY <1>1, <2>1, <2>2 DEF RecordsSuffice
<1>4. ASSUME limiter = "relay"
      PROVE  RelayBounded' /\ IF relay.known THEN RelayCounts(relay, admitted, tick')
                              ELSE relay = NoStats /\ admitted = <<>>
  <2>1. RelayBounded'
    BY <1>1, <1>4 DEF RateInv, RelayBounded
  <2>2. tick' \in Nat /\ tick <= tick'
    BY <1>1
  <2>3. ASSUME relay.known PROVE RelayCounts(relay, admitted, tick')
    <3>1. RelayCounts(relay, admitted, tick)
      BY <1>4, <2>3 DEF RateInv
    <3> QED
      BY <1>1, <2>2, <3>1, RelayLater
  <2> QED
    BY <1>4, <2>1, <2>3 DEF RateInv
<1> QED
  BY <1>1, <1>2, <1>3, <1>4 DEF RateInv

\* The statistics RateLimitRelay counts on with: those of an unknown peer begin now, and those
\* of a window that has ended begin anew.
LEMMA RelayRestarts ==
  ASSUME RateShape, NEW r \in [known : BOOLEAN, requestCount : Nat, lastReset : Nat],
         NEW f, f = IF tick - r.lastReset > WindowTicks
                    THEN [r EXCEPT !.requestCount = 0, !.lastReset = tick] ELSE r,
         RelayCounts(r, admitted, tick)
  PROVE  /\ f \in [known : BOOLEAN, requestCount : Nat, lastReset : Nat] /\ f.known = r.known
         /\ RelayCounts(f, admitted, tick) /\ tick - f.lastReset <= WindowTicks
<1>1. /\ tick \in Nat /\ admitted \in Seq(Nat) /\ (\A i \in DOMAIN admitted : admitted[i] <= tick)
      /\ WindowTicks \in Nat /\ MaxCount["relay"] \in Nat /\ r.lastReset \in Nat /\ r.requestCount \in Nat
  BY RateAssumption DEF RateShape, Limiters
<1>2. CASE ~(tick - r.lastReset > WindowTicks)
  BY <1>1, <1>2
<1>3. CASE tick - r.lastReset > WindowTicks
  <2>1. f = [known |-> r.known, requestCount |-> 0, lastReset |-> tick]
    BY <1>3
  <2>2. /\ f \in [known : BOOLEAN, requestCount : Nat, lastReset : Nat]
        /\ f.requestCount = 0 /\ f.lastReset = tick /\ f.known = r.known
    BY <1>1, <2>1
  <2>3. \A i \in DOMAIN admitted : admitted[i] \in Nat /\ admitted[i] <= r.lastReset + WindowTicks
    BY <1>1 DEF RelayCounts
  <2>4. Count(admitted, tick..tick) = 0
    <3>1. \A i \in DOMAIN admitted : admitted[i] \notin tick..tick
      BY <1>1, <1>3, <2>3
    <3> QED
      BY <3>1, CountNone
  <2>5. ASSUME NEW t \in Int, t < tick, tick <= t + WindowTicks
        PROVE  Count(admitted, t..tick - 1) <= MaxCount["relay"]
    <3>1. t..tick - 1 \subseteq r.lastReset..tick
      BY <1>1, <1>3, <2>5
    <3>2. Count(admitted, t..tick - 1) <= Count(admitted, r.lastReset..tick)
      BY <1>1, <3>1, CountMore
    <3>3. Count(admitted, r.lastReset..tick) <= MaxCount["relay"]
      BY DEF RelayCounts
    <3>4. Count(admitted, t..tick - 1) \in Nat /\ Count(admitted, r.lastReset..tick) \in Nat
      BY <1>1, CountType
    <3> QED
      BY <1>1, <3>2, <3>3, <3>4
  <2>6. \A i \in DOMAIN admitted : admitted[i] <= tick + WindowTicks
    BY <1>1, <2>3
  <2>7. RelayCounts(f, admitted, tick)
    <3>1. f.lastReset <= tick
      BY <1>1, <2>2
    <3>0. Count(admitted, f.lastReset..tick) = 0
      BY <2>2, <2>4, Zenon
    <3>2. Count(admitted, f.lastReset..tick) <= f.requestCount
      BY <2>2, <3>0
    <3>3. Count(admitted, f.lastReset..tick) <= MaxCount["relay"]
      BY <1>1, <3>0
    <3>4. \A t \in Int : t < f.lastReset /\ f.lastReset <= t + WindowTicks =>
            Count(admitted, t..f.lastReset - 1) <= MaxCount["relay"]
      BY <2>2, <2>5
    <3>5. \A i \in DOMAIN admitted : admitted[i] <= f.lastReset + WindowTicks
      BY <2>2, <2>6
    <3> QED
      BY <3>1, <3>2, <3>3, <3>4, <3>5 DEF RelayCounts
  <2> QED
    BY <1>1, <2>2, <2>7
<1> QED
  BY <1>2, <1>3

\* One request more, counted and, within the limit, admitted.
LEMMA RelayAdmits ==
  ASSUME RateShape, NEW f \in [known : BOOLEAN, requestCount : Nat, lastReset : Nat],
         RelayCounts(f, admitted, tick), tick - f.lastReset <= WindowTicks,
         NEW g, g = [f EXCEPT !.requestCount = @ + 1],
         NEW a, a = IF g.requestCount <= MaxCount["relay"] THEN Append(admitted, tick) ELSE admitted
  PROVE  /\ g \in [known : BOOLEAN, requestCount : Nat, lastReset : Nat] /\ g.known = f.known
         /\ a \in Seq(Nat) /\ (\A i \in DOMAIN a : a[i] <= tick)
         /\ RelayCounts(g, a, tick)
<1>1. /\ tick \in Nat /\ admitted \in Seq(Nat) /\ (\A i \in DOMAIN admitted : admitted[i] <= tick)
      /\ WindowTicks \in Nat /\ MaxCount["relay"] \in Nat /\ f.lastReset \in Nat /\ f.requestCount \in Nat
  BY RateAssumption DEF RateShape, Limiters
<1>2. g = [known |-> f.known, requestCount |-> f.requestCount + 1, lastReset |-> f.lastReset]
  OBVIOUS
<1>3. /\ g \in [known : BOOLEAN, requestCount : Nat, lastReset : Nat] /\ g.known = f.known
      /\ g.requestCount = f.requestCount + 1 /\ g.lastReset = f.lastReset
  BY <1>1, <1>2
<1>4. \/ a = admitted
      \/ a = Append(admitted, tick) /\ f.requestCount + 1 <= MaxCount["relay"]
  BY <1>3
<1>5. CASE a = admitted
  <2>1. Count(admitted, f.lastReset..tick) \in Nat
    BY <1>1, CountType
  <2>2. RelayCounts(g, admitted, tick)
    BY <1>1, <1>3, <2>1 DEF RelayCounts
  <2> QED
    BY <1>1, <1>3, <1>5, <2>2
<1>6. CASE a = Append(admitted, tick) /\ f.requestCount + 1 <= MaxCount["relay"]
  <2>1. /\ a \in Seq(Nat) /\ (\A i \in DOMAIN a : a[i] <= tick)
        /\ \A P : Count(a, P) = IF tick \in P THEN Count(admitted, P) + 1 ELSE Count(admitted, P)
        /\ \A P : Count(admitted, P) \in Nat
    <3>1. /\ Append(admitted, tick) \in Seq(Nat)
          /\ \A i \in DOMAIN Append(admitted, tick) : Append(admitted, tick)[i] <= tick
          /\ \A P : Count(Append(admitted, tick), P)
                       = IF tick \in P THEN Count(admitted, P) + 1 ELSE Count(admitted, P)
          /\ \A P : Count(admitted, P) \in Nat
      BY <1>1, OneCallMore
    <3> QED
      BY <1>6, <3>1
  <2>2. PICK now : now = f.lastReset..tick
    OBVIOUS
  <2>3. Count(a, now) <= f.requestCount + 1 /\ Count(a, now) <= MaxCount["relay"]
    <3>1. /\ Count(a, now) = IF tick \in now THEN Count(admitted, now) + 1 ELSE Count(admitted, now)
          /\ Count(admitted, now) \in Nat
      BY <2>1
    <3>2. Count(admitted, now) <= f.requestCount
      BY <2>2 DEF RelayCounts
    <3> QED
      BY <1>1, <1>6, <3>1, <3>2
  <2>4. ASSUME NEW t \in Int, t < f.lastReset, f.lastReset <= t + WindowTicks
        PROVE  Count(a, t..f.lastReset - 1) <= MaxCount["relay"]
    <3>1. tick \notin t..f.lastReset - 1
      BY <1>1 DEF RelayCounts
    <3>2. Count(a, t..f.lastReset - 1) = Count(admitted, t..f.lastReset - 1)
      BY <2>1, <3>1
    <3> QED
      BY <2>4, <3>2 DEF RelayCounts
  <2>5. \A i \in DOMAIN a : a[i] <= f.lastReset + WindowTicks
    <3>1. \A i \in DOMAIN a : a[i] \in Nat /\ a[i] <= tick
      BY <2>1
    <3> QED
      BY <1>1, <3>1
  <2>6. RelayCounts(g, a, tick)
    BY <1>3, <2>2, <2>3, <2>4, <2>5 DEF RelayCounts
  <2> QED
    BY <1>3, <2>1, <2>6
<1> QED
  BY <1>4, <1>5, <1>6

\* What the statistics bound: a window that reaches to the present holds at most the quota from
\* before the last restart and the quota since.
LEMMA RelayWindow ==
  ASSUME NEW now \in Nat, NEW a \in Seq(Nat), \A i \in DOMAIN a : a[i] <= now,
         NEW g \in [known : BOOLEAN, requestCount : Nat, lastReset : Nat], RelayCounts(g, a, now),
         NEW t \in Int, t <= now, now <= t + WindowTicks
  PROVE  Count(a, t..t + WindowTicks) <= 2 * MaxCount["relay"]
<1>1. /\ WindowTicks \in Nat /\ MaxCount["relay"] \in Nat /\ g.lastReset \in Nat
      /\ g.lastReset <= now
  BY RateAssumption DEF Limiters, RelayCounts
<1>2. Count(a, t..t + WindowTicks) = Count(a, t..now)
  BY <1>1, CountToEnd
<1>3. Count(a, g.lastReset..now) <= MaxCount["relay"]
  BY DEF RelayCounts
<1>4. /\ Count(a, t..now) \in Nat /\ Count(a, g.lastReset..now) \in Nat
      /\ Count(a, t..g.lastReset - 1) \in Nat
  BY CountType
<1>5. CASE g.lastReset <= t
  <2>1. t..now \subseteq g.lastReset..now
    BY <1>1, <1>5
  <2>2. Count(a, t..now) <= Count(a, g.lastReset..now)
    BY <2>1, CountMore
  <2> QED
    BY <1>1, <1>2, <1>3, <1>4, <2>2
<1>6. CASE t < g.lastReset
  <2>1. g.lastReset <= t + WindowTicks
    BY <1>1
  <2>2. Count(a, t..g.lastReset - 1) <= MaxCount["relay"]
    BY <1>6, <2>1 DEF RelayCounts
  <2>3. t..now = (t..g.lastReset - 1) \cup (g.lastReset..now)
    BY <1>1, <1>6
  <2>4. Count(a, t..now) <= Count(a, t..g.lastReset - 1) + Count(a, g.lastReset..now)
    BY <2>3, CountUnion
  <2> QED
    BY <1>1, <1>2, <1>3, <1>4, <2>2, <2>4
<1> QED
  BY <1>1, <1>5, <1>6

LEMMA RelayStep ==
  ASSUME RateInv, RateLimitRelay
  PROVE  RateInv'
<1> DEFINE R == [known : BOOLEAN, requestCount : Nat, lastReset : Nat]
           stats == IF relay.known THEN relay ELSE [NoStats EXCEPT !.known = TRUE, !.lastReset = tick]
           fresh == IF tick - stats.lastReset > WindowTicks
                    THEN [stats EXCEPT !.requestCount = 0, !.lastReset = tick] ELSE stats
<1>1. /\ limiter = "relay" /\ limiter' = limiter /\ tick' = tick /\ times' = times
      /\ RateShape /\ RelayBounded /\ tick \in Nat /\ admitted \in Seq(Nat) /\ relay \in R
      /\ (\A i \in DOMAIN admitted : admitted[i] <= tick)
      /\ WindowTicks \in Nat /\ MaxCount["relay"] \in Nat
  BY RateAssumption DEF RateLimitRelay, RateInv, RateShape, Limiters
<1>2. stats \in R /\ stats.known /\ RelayCounts(stats, admitted, tick)
  <2>1. CASE relay.known
    BY <1>1, <2>1 DEF RateInv
  <2>2. CASE ~relay.known
    <3>1. stats = [known |-> TRUE, requestCount |-> 0, lastReset |-> tick]
      BY <2>2 DEF NoStats
    <3>2. stats \in R /\ stats.known /\ stats.requestCount = 0 /\ stats.lastReset = tick
      <4> HIDE DEF stats
      <4> QED
        BY <1>1, <3>1
    <3>3. admitted = <<>>
      BY <1>1, <2>2 DEF RateInv
    <3>4. (\A P : Count(admitted, P) = 0) /\ DOMAIN admitted = {}
      BY <3>3, CountEmpty
    <3> HIDE DEF stats
    <3> QED
      BY <1>1, <3>2, <3>4 DEF RelayCounts
  <2> QED
    BY <2>1, <2>2
<1>3. PICK s : s = stats
  OBVIOUS
<1>4. PICK f : f = IF tick - s.lastReset > WindowTicks
                   THEN [s EXCEPT !.requestCount = 0, !.lastReset = tick] ELSE s
  OBVIOUS
<1>5. /\ relay' = [f EXCEPT !.requestCount = @ + 1]
      /\ admitted' = IF relay'.requestCount <= MaxCount["relay"]
                     THEN Append(admitted, tick) ELSE admitted
  BY <1>3, <1>4 DEF RateLimitRelay
<1> HIDE DEF stats
<1>6. f \in R /\ f.known /\ RelayCounts(f, admitted, tick) /\ tick - f.lastReset <= WindowTicks
  BY <1>1, <1>2, <1>3, <1>4, RelayRestarts
<1>7. /\ relay' \in R /\ relay'.known
      /\ admitted' \in Seq(Nat) /\ (\A i \in DOMAIN admitted' : admitted'[i] <= tick)
      /\ RelayCounts(relay', admitted', tick)
  BY <1>1, <1>5, <1>6, RelayAdmits
<1>8. RateShape'
  BY <1>1, <1>7 DEF RateShape
<1>9. RelayBounded'
  <2> SUFFICES ASSUME NEW t \in Int PROVE Count(admitted', t..t + WindowTicks) <= 2 * MaxCount["relay"]
    BY DEF RelayBounded
  <2>1. CASE tick \in t..t + WindowTicks
    <3>1. t <= tick /\ tick <= t + WindowTicks
      BY <1>1, <2>1
    <3>2. PICK a : a = admitted'
      OBVIOUS
    <3>3. PICK g : g = relay'
      OBVIOUS
    <3>4. Count(a, t..t + WindowTicks) <= 2 * MaxCount["relay"]
      BY <1>1, <1>7, <3>1, <3>2, <3>3, RelayWindow
    <3> QED
      BY <3>2, <3>4
  <2>2. CASE tick \notin t..t + WindowTicks
    <3>0. PICK P : P = t..t + WindowTicks
      OBVIOUS
    <3>1. Count(Append(admitted, tick), P) = Count(admitted, P)
      BY <1>1, <2>2, <3>0, OneCallMore
    <3>2. Count(admitted', t..t + WindowTicks) = Count(admitted, t..t + WindowTicks)
      BY <1>5, <3>0, <3>1
    <3> QED
      BY <1>1, <3>2 DEF RelayBounded
  <2> QED
    BY <2>1, <2>2
<1> QED
  BY <1>1, <1>7, <1>8, <1>9 DEF RateInv

LEMMA RateStepInv == RateInv /\ [RateNext]_rateVars => RateInv'
<1>1. ASSUME RateInv, UNCHANGED rateVars PROVE RateInv'
  BY <1>1 DEF rateVars, RateInv, RateShape, RecordsSuffice, SlidingBounded, RelayBounded
<1> QED
  BY <1>1, RateTickStep, RateLimitStep, FloodStep, RelayStep DEF RateNext

\* No window of a limiter admits more calls than its limit, and none of the relay's, across a
\* restart, more than twice that (rateLimitNewIdentities, rateLimitViewChanges, rateLimitRelay,
\* detectHTLCFlood), for every length of the window and every limit.
THEOREM WindowsBoundedAlways == RateSpec => []WindowsBounded
BY RateInitInv, RateStepInv, RateInvWindows, PTL DEF RateSpec

\* What RateInv leaves open: the bounds of the clock and of what a relay window counts.
RateTyped ==
  /\ tick <= MaxTick /\ relay.lastReset <= tick
  /\ relay.requestCount <= MaxCount["relay"] + MaxRefused

LEMMA RateTypedStep == RateInv /\ RateTyped /\ [RateNext]_rateVars => RateTyped'
<1> SUFFICES ASSUME RateInv, RateTyped, [RateNext]_rateVars PROVE RateTyped'
  OBVIOUS
<1>1. tick \in Nat /\ relay \in [known : BOOLEAN, requestCount : Nat, lastReset : Nat] /\ MaxTick \in Nat
  BY RateAssumption DEF RateInv, RateShape
<1>2. CASE UNCHANGED <<tick, relay>>
  BY <1>2 DEF RateTyped
<1>3. CASE Tick
  BY <1>1, <1>3 DEF Tick, RateTyped
<1>4. CASE RateLimitRelay
  <2> DEFINE stats == IF relay.known THEN relay ELSE [NoStats EXCEPT !.known = TRUE, !.lastReset = tick]
             fresh == IF tick - stats.lastReset > WindowTicks
                      THEN [stats EXCEPT !.requestCount = 0, !.lastReset = tick] ELSE stats
  <2>1. /\ relay' = [fresh EXCEPT !.requestCount = @ + 1] /\ tick' = tick
        /\ relay'.requestCount <= MaxCount["relay"] + MaxRefused
    BY <1>4 DEF RateLimitRelay
  <2>2. stats \in [known : BOOLEAN, requestCount : Nat, lastReset : Nat] /\ stats.lastReset <= tick
    <3>1. CASE relay.known
      BY <1>1, <3>1 DEF RateTyped
    <3>2. CASE ~relay.known
      <4>1. stats = [known |-> TRUE, requestCount |-> 0, lastReset |-> tick]
        BY <3>2 DEF NoStats
      <4> HIDE DEF stats
      <4> QED
        BY <1>1, <4>1
    <3> QED
      BY <3>1, <3>2
  <2> HIDE DEF stats
  <2>3. fresh \in [known : BOOLEAN, requestCount : Nat, lastReset : Nat] /\ fresh.lastReset <= tick
    <3>1. CASE fresh = stats
      BY <2>2, <3>1
    <3>2. CASE fresh = [stats EXCEPT !.requestCount = 0, !.lastReset = tick]
      <4>1. fresh = [known |-> stats.known, requestCount |-> 0, lastReset |-> tick]
        BY <2>2, <3>2
      <4> HIDE DEF fresh
      <4>2. stats.known \in BOOLEAN
        BY <2>2
      <4> QED
        BY <1>1, <4>1, <4>2
    <3> QED
      BY <3>1, <3>2
  <2> HIDE DEF fresh
  <2>4. relay'.lastReset = fresh.lastReset
    BY <2>1, <2>3
  <2> QED
    BY <2>1, <2>3, <2>4 DEF RateTyped
<1> QED
  BY <1>2, <1>3, <1>4 DEF RateNext, RateLimit, DetectHTLCFlood, rateVars

LEMMA SequenceOf ==
  ASSUME NEW S, NEW n \in Nat, NEW s \in [1..n -> S]
  PROVE  s \in Seq(S)
OBVIOUS

LEMMA RateTypes == RateInv /\ RateTyped => RateTypeOK
<1> SUFFICES ASSUME RateInv, RateTyped PROVE RateTypeOK
  OBVIOUS
<1>1. RateShape /\ MaxTick \in Nat /\ MaxRefused \in Nat /\ MaxCount["relay"] \in Nat
  BY RateAssumption DEF RateInv, Limiters
<1>2. ASSUME NEW s \in Seq(Nat), \A i \in DOMAIN s : s[i] <= tick PROVE s \in Seq(0..MaxTick)
  <2>1. \A i \in 1..Len(s) : s[i] \in 0..MaxTick
    BY <1>1, <1>2 DEF RateShape, RateTyped
  <2>2. Len(s) \in Nat /\ s = [i \in 1..Len(s) |-> s[i]]
    OBVIOUS
  <2>3. PICK n, S : n = Len(s) /\ n \in Nat /\ S = 0..MaxTick
    BY <2>2
  <2>4. s \in [1..n -> S]
    BY <2>1, <2>2, <2>3
  <2>5. s \in Seq(S)
    BY <2>3, <2>4, SequenceOf
  <2> QED
    BY <2>3, <2>5
<1>3. times \in Seq(0..MaxTick) /\ admitted \in Seq(0..MaxTick)
  BY <1>1, <1>2 DEF RateShape
<1>4. relay.requestCount \in 0..MaxCount["relay"] + MaxRefused /\ relay.lastReset \in 0..MaxTick
  BY <1>1 DEF RateShape, RateTyped
<1>5. relay \in [known : BOOLEAN, requestCount : 0..MaxCount["relay"] + MaxRefused, lastReset : 0..MaxTick]
  BY <1>1, <1>4 DEF RateShape
<1> QED
  BY <1>1, <1>3, <1>5 DEF RateTypeOK, RateShape, RateTyped

\* The limiters keep their shape (security/networkHardening.ts, lightningHardening.ts): every time
\* that is remembered is one that was, and a relay's count passes its maximum by refusals only.
THEOREM RateTypeCorrect == RateSpec => []RateTypeOK
<1>1. RateInit => RateTyped
  <2>1. MaxCount["relay"] \in Nat /\ MaxTick \in Nat /\ MaxRefused \in Nat
    BY RateAssumption DEF Limiters
  <2> QED
    BY <2>1 DEF RateInit, RateTyped, NoStats
<1> QED
  BY <1>1, RateInitInv, RateStepInv, RateTypedStep, RateTypes, PTL DEF RateSpec

-----------------------------------------------------------------------------
(***************************************************************************)
(* VoteAudit.  The detector keeps the first vote of every round and        *)
(* compares later ones with it: that is enough, since two votes that       *)
(* differ from one another do not both equal the first.  The invariant is  *)
(* one of the loop over a batch as well (Watched), with the votes seen so  *)
(* far; the votes after the first equivocation are not looked at.          *)
(***************************************************************************)
AuditState ==
  [history : [AuditedRounds -> Ballots \cup {NoBallot}], seen : SUBSET AuditVote, found : BOOLEAN]

Watched(st, before) ==
  /\ \A v \in st.seen : st.history[v.round] # NoBallot
  /\ \A r \in AuditedRounds : st.history[r] # NoBallot =>
       \E v \in st.seen : v.round = r /\ v.vote = st.history[r]
  /\ (before \/ st.found) <=> \E v \in st.seen : st.history[v.round] # v.vote

AuditRecord == [history |-> voteHistory, seen |-> presented, found |-> reported]

AuditInv == AuditRecord \in AuditState /\ Watched(AuditRecord, FALSE)

THEOREM AuditInitInv == AuditInit => AuditInv
<1> SUFFICES ASSUME AuditInit PROVE AuditInv
  OBVIOUS
<1>1. /\ AuditRecord.history = [r \in AuditedRounds |-> NoBallot]
      /\ AuditRecord.seen = {} /\ AuditRecord.found = FALSE
  BY DEF AuditInit, AuditRecord
<1>2. AuditRecord \in AuditState
  BY DEF AuditInit, AuditRecord, AuditState
<1>3. Watched(AuditRecord, FALSE)
  BY <1>1 DEF Watched
<1> QED
  BY <1>2, <1>3 DEF AuditInv

LEMMA AuditInvCaught == AuditInv => EquivocatorsCaught
<1> SUFFICES ASSUME AuditInv PROVE EquivocatorsCaught
  OBVIOUS
<1>1. /\ voteHistory \in [AuditedRounds -> Ballots \cup {NoBallot}] /\ presented \subseteq AuditVote
      /\ \A v \in presented : voteHistory[v.round] # NoBallot
      /\ \A r \in AuditedRounds : voteHistory[r] # NoBallot =>
           \E v \in presented : v.round = r /\ v.vote = voteHistory[r]
      /\ reported <=> \E v \in presented : voteHistory[v.round] # v.vote
  BY DEF AuditInv, AuditRecord, AuditState, Watched
<1>2. \A v \in AuditVote : v.round \in AuditedRounds
  BY DEF AuditVote
<1>3. ASSUME NEW v \in presented, voteHistory[v.round] # v.vote
      PROVE  \E w \in presented : w.round = v.round /\ w.vote # v.vote
  BY <1>1, <1>2, <1>3
<1>4. ASSUME NEW v \in presented, NEW w \in presented, v.round = w.round, v.vote # w.vote
      PROVE  \E x \in presented : voteHistory[x.round] # x.vote
  BY <1>4
<1> QED
  BY <1>1, <1>3, <1>4 DEF EquivocatorsCaught

\* One vote of a batch.
LEMMA RecordStep ==
  ASSUME NEW st \in AuditState, NEW v \in AuditVote, NEW before \in BOOLEAN, Watched(st, before)
  PROVE  Record(st, v) \in AuditState /\ Watched(Record(st, v), before)
<1> DEFINE H == [AuditedRounds -> Ballots \cup {NoBallot}]
<1>1. /\ st.history \in H /\ st.seen \in SUBSET AuditVote /\ st.found \in BOOLEAN
      /\ st = [history |-> st.history, seen |-> st.seen, found |-> st.found]
  BY DEF AuditState
<1>2. v.round \in AuditedRounds /\ v.vote \in Ballots /\ v.vote # NoBallot
  BY AuditAssumption DEF AuditVote
<1>3. CASE st.found
  BY <1>3 DEF Record
<1>4. CASE ~st.found /\ st.history[v.round] = NoBallot
  <2>1. PICK h : h = [st.history EXCEPT ![v.round] = v.vote]
    OBVIOUS
  <2>2. /\ h \in H /\ h[v.round] = v.vote
        /\ \A r \in AuditedRounds : r # v.round => h[r] = st.history[r]
    BY <1>1, <1>2, <2>1
  <2>3. Record(st, v) = [history |-> h, seen |-> st.seen \cup {v}, found |-> st.found]
    BY <1>1, <1>4, <2>1 DEF Record
  <2>4. /\ Record(st, v).history = h /\ Record(st, v).seen = st.seen \cup {v}
        /\ Record(st, v).found = st.found /\ Record(st, v) \in AuditState
    BY <1>1, <2>2, <2>3 DEF AuditState
  <2>5. \A w \in st.seen : w.round \in AuditedRounds /\ w.round # v.round
    BY <1>1, <1>4 DEF Watched, AuditVote
  <2>6. \A w \in st.seen \cup {v} : h[w.round] # NoBallot
    BY <1>2, <2>2, <2>5 DEF Watched
  <2>7. \A r \in AuditedRounds : h[r] # NoBallot =>
          \E w \in st.seen \cup {v} : w.round = r /\ w.vote = h[r]
    BY <2>2 DEF Watched
  <2>8. (\E w \in st.seen \cup {v} : h[w.round] # w.vote)
          <=> \E w \in st.seen : st.history[w.round] # w.vote
    BY <2>2, <2>5
  <2>9. (before \/ st.found) <=> \E w \in st.seen \cup {v} : h[w.round] # w.vote
    BY <2>8 DEF Watched
  <2> QED
    BY <2>4, <2>6, <2>7, <2>9 DEF Watched
<1>5. CASE ~st.found /\ st.history[v.round] # NoBallot
  <2>1. PICK b \in BOOLEAN : b = (st.history[v.round] # v.vote)
    OBVIOUS
  <2>2. Record(st, v) = [history |-> st.history, seen |-> st.seen \cup {v}, found |-> b]
    BY <1>1, <1>5, <2>1 DEF Record
  <2>3. /\ Record(st, v).history = st.history /\ Record(st, v).seen = st.seen \cup {v}
        /\ Record(st, v).found = b /\ Record(st, v) \in AuditState
    BY <1>1, <2>2 DEF AuditState
  <2>4. (before \/ b) <=> \E w \in st.seen \cup {v} : st.history[w.round] # w.vote
    BY <1>5, <2>1 DEF Watched
  <2>5. \A w \in st.seen \cup {v} : st.history[w.round] # NoBallot
    BY <1>5 DEF Watched
  <2>6. \A r \in AuditedRounds : st.history[r] # NoBallot =>
          \E w \in st.seen \cup {v} : w.round = r /\ w.vote = st.history[r]
    BY DEF Watched
  <2> QED
    BY <2>3, <2>4, <2>5, <2>6 DEF Watched
<1> QED
  BY <1>3, <1>4, <1>5

\* The loop over a batch, as the fold of its steps.
BatchFolds(h, start, batch) ==
  h = [t \in SUBSET DOMAIN batch |->
         IF t = {} THEN start ELSE Record(h[t \ {Largest(t)}], batch[Largest(t)])]

LEMMA BatchUnfolds ==
  ASSUME NEW n \in Nat, NEW batch \in [1..n -> AuditVote], NEW start \in AuditState
  PROVE  \E h : /\ FoldLeft(Record, start, batch) = h[1..n]
                /\ h[1..0] = start
                /\ \A k \in 1..n : h[1..k] = Record(h[1..(k - 1)], batch[k])
<1> DEFINE op == [p \in AuditState \X (1..n) |-> Record(p[1], batch[p[2]])]
<1>1. op \in [AuditState \X (1..n) -> AuditState]
  <2>1. ASSUME NEW st \in AuditState, NEW v \in AuditVote PROVE Record(st, v) \in AuditState
    <3>1. /\ st.history \in [AuditedRounds -> Ballots \cup {NoBallot}]
          /\ st.seen \in SUBSET AuditVote /\ st.found \in BOOLEAN
          /\ st = [history |-> st.history, seen |-> st.seen, found |-> st.found]
      BY DEF AuditState
    <3>2. v.round \in AuditedRounds /\ v.vote \in Ballots
      BY DEF AuditVote
    <3>3. [st.history EXCEPT ![v.round] = v.vote] \in [AuditedRounds -> Ballots \cup {NoBallot}]
      BY <3>1, <3>2
    <3>4. CASE ~st.found /\ st.history[v.round] = NoBallot
      <4>1. Record(st, v) = [history |-> [st.history EXCEPT ![v.round] = v.vote],
                             seen |-> st.seen \cup {v}, found |-> st.found]
        BY <3>1, <3>4 DEF Record
      <4> QED
        BY <3>1, <3>3, <4>1 DEF AuditState
    <3>5. CASE ~st.found /\ st.history[v.round] # NoBallot
      <4>1. PICK b \in BOOLEAN : b = (st.history[v.round] # v.vote)
        OBVIOUS
      <4>2. Record(st, v) = [history |-> st.history, seen |-> st.seen \cup {v}, found |-> b]
        BY <3>1, <3>5, <4>1 DEF Record
      <4> QED
        BY <3>1, <4>2 DEF AuditState
    <3>6. CASE st.found
      BY <3>6 DEF Record
    <3> QED
      BY <3>4, <3>5, <3>6
  <2> QED
    BY <2>1
<1>2. \E h : BatchFolds(h, start, batch)
  <2>1. PICK h \in [SUBSET (1..n) -> AuditState] : LeftFold(h, op, start, n)
    <3> HIDE DEF op
    <3> QED
      BY <1>1, LeftFoldExists
  <2>2. ASSUME NEW t \in SUBSET (1..n), t # {}
        PROVE  op[<<h[t \ {Largest(t)}], Largest(t)>>]
                 = Record(h[t \ {Largest(t)}], batch[Largest(t)])
    <3>1. Largest(t) \in 1..n
      BY <2>2, HasLargest
    <3>2. h[t \ {Largest(t)}] \in AuditState
      OBVIOUS
    <3> QED
      BY <3>1, <3>2
  <2>3. h = [t \in SUBSET (1..n) |->
               IF t = {} THEN start ELSE Record(h[t \ {Largest(t)}], batch[Largest(t)])]
    <3> HIDE DEF op
    <3> QED
      BY <2>1, <2>2 DEF LeftFold
  <2> QED
    BY <2>3 DEF BatchFolds
<1>3. PICK h : h = (CHOOSE g : BatchFolds(g, start, batch))
  OBVIOUS
<1>4. FoldLeft(Record, start, batch) = h[1..n]
  BY <1>3 DEF FoldLeft, MapThenFoldSet, BatchFolds, Largest, Max
<1>5. \A t \in SUBSET (1..n) :
        h[t] = IF t = {} THEN start ELSE Record(h[t \ {Largest(t)}], batch[Largest(t)])
  <2>1. BatchFolds(h, start, batch)
    BY <1>2, <1>3
  <2> QED
    BY <2>1 DEF BatchFolds
<1>6. h[1..0] = start
  <2>1. 1..0 = {} /\ 1..0 \in SUBSET (1..n)
    OBVIOUS
  <2> QED
    BY <1>5, <2>1
<1>7. ASSUME NEW k \in 1..n PROVE h[1..k] = Record(h[1..(k - 1)], batch[k])
  <2>1. 1..k \in SUBSET (1..n) /\ k \in Nat \ {0}
    OBVIOUS
  <2> QED
    BY <1>5, <2>1, Prefix
<1> QED
  BY <1>4, <1>6, <1>7

\* A whole batch keeps the detector's books, wherever in it the loop returns.
LEMMA BatchWatched ==
  ASSUME NEW n \in Nat, NEW batch \in [1..n -> AuditVote], NEW start \in AuditState,
         NEW before \in BOOLEAN, Watched(start, before)
  PROVE  /\ FoldLeft(Record, start, batch) \in AuditState
         /\ Watched(FoldLeft(Record, start, batch), before)
<1>1. PICK h : /\ FoldLeft(Record, start, batch) = h[1..n]
               /\ h[1..0] = start
               /\ \A k \in 1..n : h[1..k] = Record(h[1..(k - 1)], batch[k])
  BY BatchUnfolds
<1> DEFINE P == {k \in 0..n : h[1..k] \in AuditState /\ Watched(h[1..k], before)}
<1>2. 0 \in P
  <2>1. 0 \in 0..n
    OBVIOUS
  <2> QED
    BY <1>1, <2>1
<1>3. ASSUME NEW k \in 0..n, k # n, k \in P PROVE k + 1 \in P
  <2>1. PICK m \in 1..n : m = k + 1
    <3>1. k + 1 \in 1..n
      BY <1>3
    <3> QED
      BY <3>1
  <2>2. m - 1 = k /\ m \in 0..n /\ batch[m] \in AuditVote
    BY <2>1
  <2>3. h[1..m] = Record(h[1..k], batch[m])
    BY <1>1, <2>2
  <2>4. PICK st \in AuditState : st = h[1..k] /\ Watched(st, before)
    BY <1>3
  <2>5. h[1..m] \in AuditState /\ Watched(h[1..m], before)
    BY <2>2, <2>3, <2>4, RecordStep
  <2>6. m \in P
    BY <2>2, <2>5
  <2> HIDE DEF P
  <2> QED
    BY <2>1, <2>6
<1> HIDE DEF P
<1>4. n \in P
  <2>1. \A k \in 0..n : k # n /\ k \in P => k + 1 \in P
    BY <1>3
  <2>2. 0..n \subseteq P
    BY <1>2, <2>1, UpTo
  <2> QED
    BY <2>2
<1> QED
  BY <1>1, <1>4 DEF P

LEMMA AuditStepInv == AuditInv /\ [AuditNext]_auditVars => AuditInv'
<1> SUFFICES ASSUME AuditInv, [AuditNext]_auditVars PROVE AuditInv'
  OBVIOUS
<1>1. CASE UNCHANGED <<voteHistory, presented, reported>>
  BY <1>1 DEF AuditInv, AuditRecord, Watched
<1>2. ASSUME NEW batch \in Batches, DetectDoubleVote(batch) PROVE AuditInv'
  <2>1. PICK n \in Nat : batch \in [1..n -> AuditVote]
    BY AuditAssumption DEF Batches
  <2>2. PICK start : start = [history |-> voteHistory, seen |-> presented, found |-> FALSE]
    OBVIOUS
  <2>3. /\ voteHistory \in [AuditedRounds -> Ballots \cup {NoBallot}]
        /\ presented \in SUBSET AuditVote /\ reported \in BOOLEAN
    BY DEF AuditInv, AuditRecord, AuditState
  <2>4. start \in AuditState /\ Watched(start, reported)
    BY <2>2, <2>3 DEF AuditInv, AuditRecord, AuditState, Watched
  <2>5. PICK end : end = FoldLeft(Record, start, batch)
    OBVIOUS
  <2>6. end \in AuditState /\ Watched(end, reported)
    BY <2>1, <2>3, <2>4, <2>5, BatchWatched
  <2>7. voteHistory' = end.history /\ presented' = end.seen /\ reported' = (reported \/ end.found)
    BY <1>2, <2>2, <2>5 DEF DetectDoubleVote
  <2>8. /\ AuditRecord' = [history |-> end.history, seen |-> end.seen,
                           found |-> (reported \/ end.found)]
    BY <2>7 DEF AuditRecord
  <2>9. AuditRecord' \in AuditState
    BY <2>3, <2>6, <2>8 DEF AuditState
  <2>10. Watched(AuditRecord', FALSE)
    BY <2>3, <2>6, <2>8 DEF Watched, AuditState
  <2> QED
    BY <2>9, <2>10 DEF AuditInv
<1>3. \/ UNCHANGED <<voteHistory, presented, reported>>
      \/ \E b \in Batches : DetectDoubleVote(b)
  BY DEF AuditNext, auditVars, SelectLeaderVRF, DetectQuorumCollusion
<1> QED
  BY <1>1, <1>2, <1>3

\* A node is reported exactly when it has voted twice in a round (detectDoubleVote), however the
\* votes are divided into batches, although the call returns at the first equivocation.
THEOREM EquivocatorsCaughtAlways == AuditSpec => []EquivocatorsCaught
BY AuditInitInv, AuditStepInv, AuditInvCaught, PTL DEF AuditSpec

-----------------------------------------------------------------------------
(***************************************************************************)
(* Agents.  LoopInv: as long as the agent was not started across a run of  *)
(* before, there is a timer, or a cycle that will set one, or neither,     *)
(* never both, and an agent at rest has let go of its timers.  WorkInv: a  *)
(* split that is worked on is at one drain, those a drain has yet to do    *)
(* are pending and at no other drain, so that none is credited again.      *)
(* PollsInv: a proposal that has passed had its quorum or its end.         *)
(***************************************************************************)
Loops == [op : {"cycle"}, loop : BOOLEAN, step : {"fetch"}]
Works == [op : {"cycle"}, loop : BOOLEAN, step : {"work"},
          left : SUBSET (Items \cup Proposals), free : SUBSET JobWorkers]
Drains == [op : {"drain"}, loop : BOOLEAN, now : Items, rest : Seq(Items),
           step : {"persist", "credit", "notify"}]
InProgress == {Free} \cup Loops \cup Works \cup Drains

SplitRecord ==
  [status : {"none", "pending", "processing", "settled", "failed"}, credited : Nat]
Proposal == [status : {"active", "passed", "rejected"}, large : BOOLEAN, yes : Nat, no : Nat,
             expired : BOOLEAN, executed : BOOLEAN]

AgentShape ==
  /\ agentKind \in {"security", "routing", "dao", "treasury"}
  /\ agentStatus \in {"idle", "working", "paused", "error", "stopped"}
  /\ beats \in Nat /\ timers \in Nat
  /\ beatHandle \in BOOLEAN /\ timerHandle \in BOOLEAN
  /\ crossed \in BOOLEAN /\ interrupted \in BOOLEAN
  /\ cycles \in [Slots -> InProgress]
  /\ agentKind # "treasury" => \A s \in Slots : cycles[s].op # "drain"
  /\ splits \in [Items -> SplitRecord] /\ pendingQueue \in Seq(Items)
  /\ proposals \in [Proposals -> Proposal]

LoopInv ==
  /\ beatHandle => beats > 0
  /\ timerHandle => timers > 0
  /\ agentStatus \in {"idle", "stopped"} => ~beatHandle /\ ~timerHandle
  /\ agentStatus = "paused" => interrupted
  /\ ~crossed => /\ beats = Counted(beatHandle) /\ timers = Counted(timerHandle)
                 /\ timers > 0 => Looping = {}
                 /\ \A s, t \in Looping : s = t
  /\ agentStatus = "working" /\ ~interrupted /\ agentKind # "treasury" =>
       timers > 0 \/ Looping # {}

\* What an operation in progress, c, may be at when the splits are ss.
Settling(ss, c) ==
  c.op = "drain" => /\ ss[c.now].status = "processing"
                    /\ c.step # "notify" => ss[c.now].credited = 0
                    /\ ~c.loop => c.rest = <<>>
                    /\ Distinct(c.rest)
                    /\ \A k \in DOMAIN c.rest : ss[c.rest[k]].status = "pending"

SplitsOnce ==
  /\ \A i \in Items : /\ splits[i].credited <= 1
                      /\ splits[i].status \in {"none", "pending"} => splits[i].credited = 0
  /\ \A s \in Slots : Settling(splits, cycles[s])
  /\ \A s, t \in Slots :
       cycles[s].op = "drain" /\ cycles[t].op = "drain" /\ cycles[s].now = cycles[t].now => s = t

CreditsFirst ==
  /\ \A i \in Items : splits[i].status = "settled" => splits[i].credited >= 1
  /\ \A s \in Slots :
       cycles[s].op = "drain" /\ cycles[s].step = "notify" => splits[cycles[s].now].credited >= 1

QueueInv ==
  /\ Distinct(pendingQueue)
  /\ \A k \in DOMAIN pendingQueue : splits[pendingQueue[k]].status # "none"

WorkInv == QueueInv /\ CreditsFirst /\ (~crossed => SplitsOnce)

\* What a vote or an end has decided about proposal p.
Decided(p) ==
  /\ p.executed => p.status = "passed" /\ ~p.large
  /\ p.status = "passed" => p.expired \/ Total(p) >= DaoQuorum

PollsInv == \A i \in Proposals : Decided(proposals[i])

AgentInv == AgentShape /\ LoopInv /\ WorkInv /\ PollsInv

LEMMA AgentInitInv == AgentInit => AgentInv
<1> SUFFICES ASSUME AgentInit PROVE AgentInv
  OBVIOUS
<1>1. \A s \in Slots : cycles[s] = Free /\ cycles[s].op = "none"
  BY DEF AgentInit, Free
<1>2. proposals \in [Proposals -> Proposal] /\ \A i \in Proposals : Decided(proposals[i])
  <2>1. PICK R : R = [status : {"active"}, large : IF agentKind = "dao" THEN BOOLEAN ELSE {FALSE},
                      yes : {0}, no : {0}, expired : {FALSE}, executed : {FALSE}]
    OBVIOUS
  <2>2. proposals \in [Proposals -> R]
    BY <2>1 DEF AgentInit
  <2>3. ASSUME NEW p \in R PROVE p \in Proposal /\ p.status = "active" /\ p.executed = FALSE
    <3>1. PICK B \in SUBSET BOOLEAN : B = IF agentKind = "dao" THEN BOOLEAN ELSE {FALSE}
      OBVIOUS
    <3>2. p \in [status : {"active"}, large : B, yes : {0}, no : {0}, expired : {FALSE},
                 executed : {FALSE}]
      BY <2>1, <3>1
    <3>3. /\ p.status = "active" /\ p.executed = FALSE /\ p.large \in BOOLEAN
          /\ p = [status |-> "active", large |-> p.large, yes |-> 0, no |-> 0,
                  expired |-> FALSE, executed |-> FALSE]
      BY <3>1, <3>2
    <3>4. PICK l \in BOOLEAN : l = p.large
      BY <3>3
    <3>5. PICK q : q = [status |-> "active", large |-> l, yes |-> 0, no |-> 0,
                        expired |-> FALSE, executed |-> FALSE]
      OBVIOUS
    <3>6. q \in Proposal
      BY <3>5 DEF Proposal
    <3>7. p = q
      BY <3>3, <3>4, <3>5
    <3> QED
      BY <3>3, <3>6, <3>7
  <2> QED
    BY <2>2, <2>3 DEF Decided
<1>3. cycles \in [Slots -> InProgress] /\ splits \in [Items -> SplitRecord] /\ pendingQueue = <<>>
  BY DEF AgentInit, InProgress, SplitRecord
<1>4. AgentShape
  <2>1. <<>> \in Seq(Items)
    OBVIOUS
  <2> QED
    BY <1>1, <1>2, <1>3, <2>1 DEF AgentInit, AgentShape
<1>5. Looping = {}
  BY <1>1 DEF Looping
<1>6. LoopInv
  BY <1>5 DEF AgentInit, LoopInv, Counted
<1>7. \A i \in Items : splits[i].status = "none" /\ splits[i].credited = 0
  BY DEF AgentInit
<1>8. WorkInv
  BY <1>1, <1>3, <1>7 DEF WorkInv, QueueInv, CreditsFirst, SplitsOnce, Settling, Distinct
<1> QED
  BY <1>2, <1>4, <1>6, <1>8 DEF AgentInv, PollsInv

\* The invariant says what DoneOnce says.
LEMMA AgentInvDone == AgentInv => DoneOnce
<1> SUFFICES ASSUME AgentInv PROVE DoneOnce
  OBVIOUS
<1>1. IsFiniteSet(Looping)
  BY AgentAssumption, FS_Subset DEF Looping
<1>2. timers \in Nat /\ Cardinality(Looping) \in Nat
  BY <1>1, FS_CardinalityType DEF AgentInv, AgentShape
<1>3. ASSUME ~crossed PROVE timers + Cardinality(Looping) <= 1
  <2>1. CASE Looping = {}
    BY <1>3, <2>1, FS_EmptySet DEF AgentInv, LoopInv, Counted
  <2>2. CASE Looping # {}
    <3>1. PICK s : Looping = {s}
      BY <1>3, <2>2 DEF AgentInv, LoopInv
    <3>2. Cardinality(Looping) = 1
      BY <3>1, FS_Singleton
    <3>3. timers = 0
      BY <1>2, <1>3, <2>2 DEF AgentInv, LoopInv
    <3> QED
      BY <3>2, <3>3
  <2> QED
    BY <2>1, <2>2
<1>4. ASSUME timers > 0 \/ Looping # {} PROVE timers + Cardinality(Looping) >= 1
  <2>1. CASE Looping # {}
    BY <1>1, <1>2, <2>1, FS_EmptySet
  <2>2. CASE timers > 0
    BY <1>2, <2>2
  <2> QED
    BY <1>4, <2>1, <2>2
<1>5. OneLoop
  BY <1>3, <1>4 DEF OneLoop, AgentInv, LoopInv
<1>6. CreditedOnce
  BY DEF CreditedOnce, AgentInv, WorkInv, CreditsFirst, SplitsOnce
<1>7. QuorumOrEnd
  BY DEF QuorumOrEnd, AgentInv, PollsInv, Decided
<1> QED
  BY <1>5, <1>6, <1>7 DEF DoneOnce

\* One operation in progress changes.
LEMMA LoopingAfter ==
  ASSUME cycles \in [Slots -> InProgress], NEW s \in Slots, NEW c \in InProgress,
         cycles' = [cycles EXCEPT ![s] = c]
  PROVE  /\ cycles' \in [Slots -> InProgress] /\ cycles'[s] = c
         /\ \A t \in Slots : t # s => cycles'[t] = cycles[t]
         /\ Looping' = IF c.op \in {"cycle", "drain"} /\ c.loop
                       THEN Looping \cup {s} ELSE Looping \ {s}
<1>1. /\ cycles' \in [Slots -> InProgress] /\ cycles'[s] = c
      /\ \A t \in Slots : t # s => cycles'[t] = cycles[t]
  OBVIOUS
<1> QED
  BY <1>1 DEF Looping
-----------------------------------------------------------------------------
(***************************************************************************)
(* Agents, step by step: first what leaves the splits alone.               *)
(***************************************************************************)
AgentFrame == agentKind' = agentKind /\ crossed' = crossed /\ splits' = splits /\ pendingQueue' = pendingQueue

\* No drain changes.
LEMMA WorkUntouched ==
  ASSUME WorkInv, AgentFrame,
         \A s \in Slots : cycles'[s].op = "drain" => cycles'[s] = cycles[s]
  PROVE  WorkInv'
<1>1. QueueInv'
  BY DEF WorkInv, QueueInv, AgentFrame
<1>2. CreditsFirst'
  BY DEF WorkInv, CreditsFirst, AgentFrame
<1>3. ASSUME ~crossed PROVE SplitsOnce'
  <2>1. \A s \in Slots : Settling(splits, cycles[s])
    BY <1>3 DEF WorkInv, SplitsOnce
  <2>2. \A s \in Slots : Settling(splits, cycles[s])'
    <3> SUFFICES ASSUME NEW s \in Slots PROVE Settling(splits, cycles[s])'
      OBVIOUS
    <3>1. CASE cycles'[s].op = "drain"
      BY <2>1, <3>1 DEF Settling, AgentFrame
    <3>2. CASE cycles'[s].op # "drain"
      BY <3>2 DEF Settling
    <3> QED
      BY <3>1, <3>2
  <2>3. \A s, t \in Slots : cycles'[s].op = "drain" /\ cycles'[t].op = "drain"
                            /\ cycles'[s].now = cycles'[t].now => s = t
    BY <1>3 DEF WorkInv, SplitsOnce
  <2>4. \A i \in Items : /\ splits'[i].credited <= 1
                         /\ splits'[i].status \in {"none", "pending"} => splits'[i].credited = 0
    BY <1>3 DEF WorkInv, SplitsOnce, AgentFrame
  <2> QED
    BY <2>2, <2>3, <2>4 DEF SplitsOnce
<1> QED
  BY <1>1, <1>2, <1>3 DEF WorkInv, AgentFrame

\* stop, pause and resume.
LEMMA LifecycleStep ==
  ASSUME AgentShape, LoopInv, WorkInv, Stop \/ Pause \/ Resume
  PROVE  AgentShape' /\ LoopInv' /\ WorkInv' /\ proposals' = proposals
<1>1. cycles' = cycles /\ Looping' = Looping /\ AgentFrame /\ proposals' = proposals
  BY DEF Stop, Pause, Resume, dataVars, Looping, AgentFrame
<1>2. WorkInv'
  BY <1>1, WorkUntouched
<1>3. CASE Stop
  <2>1. /\ agentStatus' = "stopped" /\ beats' = beats - Counted(beatHandle) /\ beatHandle' = FALSE
        /\ timers' = timers - Counted(timerHandle) /\ timerHandle' = FALSE
        /\ crossed' = crossed /\ interrupted' = interrupted
    BY <1>3 DEF Stop
  <2>2. beats' \in Nat /\ timers' \in Nat
    <3>1. CASE beatHandle
      BY <2>1, <3>1 DEF AgentShape, LoopInv, Counted
    <3>2. CASE ~beatHandle
      BY <2>1, <3>2 DEF AgentShape, LoopInv, Counted
    <3> QED
      BY <3>1, <3>2
  <2>3. ~crossed => beats' = 0 /\ timers' = 0
    <3> SUFFICES ASSUME ~crossed PROVE beats' = 0 /\ timers' = 0
      OBVIOUS
    <3>1. /\ beats = Counted(beatHandle) /\ timers = Counted(timerHandle)
          /\ beats \in Nat /\ timers \in Nat
      BY DEF AgentShape, LoopInv
    <3> QED
      BY <2>1, <3>1
  <2>4. AgentShape'
    BY <1>1, <2>1, <2>2 DEF AgentShape, AgentFrame
  <2>5. LoopInv'
    BY <1>1, <2>1, <2>2, <2>3 DEF LoopInv, Counted, AgentFrame
  <2> QED
    BY <1>1, <1>2, <2>4, <2>5
<1>4. CASE Pause
  <2>1. AgentShape'
    BY <1>1, <1>4 DEF Pause, AgentShape, AgentFrame
  <2>2. LoopInv'
    BY <1>1, <1>4 DEF Pause, LoopInv, AgentFrame
  <2> QED
    BY <1>1, <1>2, <2>1, <2>2
<1>5. CASE Resume
  <2>1. AgentShape'
    BY <1>1, <1>5 DEF Resume, AgentShape, AgentFrame
  <2>2. LoopInv'
    BY <1>1, <1>5 DEF Resume, LoopInv, AgentFrame
  <2> QED
    BY <1>1, <1>2, <2>1, <2>2
<1> QED
  BY <1>3, <1>4, <1>5

\* What only changes the log, the matches and the proposals.
LEMMA AsideStep ==
  ASSUME AgentShape, LoopInv, WorkInv, UNCHANGED <<lifeVars, cycles, splits, pendingQueue>>,
         proposals' \in [Proposals -> Proposal]
  PROVE  AgentShape' /\ LoopInv' /\ WorkInv'
<1>1. /\ agentKind' = agentKind /\ agentStatus' = agentStatus /\ beats' = beats
      /\ beatHandle' = beatHandle /\ timers' = timers /\ timerHandle' = timerHandle
      /\ crossed' = crossed /\ interrupted' = interrupted /\ cycles' = cycles
      /\ splits' = splits /\ pendingQueue' = pendingQueue
  BY DEF lifeVars
<1>2. Looping' = Looping
  BY <1>1 DEF Looping
<1>3. WorkInv'
  BY <1>1, WorkUntouched DEF AgentFrame
<1>4. AgentShape'
  BY <1>1 DEF AgentShape
<1>5. LoopInv'
  BY <1>1, <1>2 DEF LoopInv
<1> QED
  BY <1>3, <1>4, <1>5

\* One step of a cycle that stays in progress, in the loop if it was.
LEMMA InCycleStep ==
  ASSUME AgentShape, LoopInv, WorkInv, UNCHANGED <<lifeVars, splits, pendingQueue>>,
         proposals' \in [Proposals -> Proposal],
         NEW s \in Slots, cycles[s].op = "cycle", NEW c \in Loops \cup Works,
         c.loop = cycles[s].loop, cycles' = [cycles EXCEPT ![s] = c]
  PROVE  AgentShape' /\ LoopInv' /\ WorkInv'
<1>1. /\ agentKind' = agentKind /\ agentStatus' = agentStatus /\ beats' = beats
      /\ beatHandle' = beatHandle /\ timers' = timers /\ timerHandle' = timerHandle
      /\ crossed' = crossed /\ interrupted' = interrupted
      /\ splits' = splits /\ pendingQueue' = pendingQueue
  BY DEF lifeVars
<1>2. c \in InProgress /\ c.op = "cycle"
  BY DEF InProgress, Loops, Works
<1>3. /\ cycles' \in [Slots -> InProgress] /\ cycles'[s] = c
      /\ \A t \in Slots : t # s => cycles'[t] = cycles[t]
      /\ Looping' = IF c.op \in {"cycle", "drain"} /\ c.loop
                    THEN Looping \cup {s} ELSE Looping \ {s}
  BY <1>2, LoopingAfter DEF AgentShape
<1>4. Looping' = Looping
  BY <1>2, <1>3 DEF Looping
<1>5. \A t \in Slots : cycles'[t].op = "drain" => cycles'[t] = cycles[t] /\ t # s
  BY <1>2, <1>3
<1>6. WorkInv'
  BY <1>1, <1>5, WorkUntouched DEF AgentFrame
<1>7. AgentShape'
  BY <1>1, <1>3, <1>5 DEF AgentShape
<1>8. LoopInv'
  BY <1>1, <1>4 DEF LoopInv
<1> QED
  BY <1>6, <1>7, <1>8

LEMMA TimerStep ==
  ASSUME AgentShape, LoopInv, WorkInv, NEW s \in Slots, TimerFires(s) \/ CalledDirectly(s)
  PROVE  AgentShape' /\ LoopInv' /\ WorkInv' /\ proposals' = proposals
<1>1. /\ agentKind' = agentKind /\ agentStatus' = agentStatus /\ beats' = beats
      /\ beatHandle' = beatHandle /\ crossed' = crossed /\ interrupted' = interrupted
      /\ splits' = splits /\ pendingQueue' = pendingQueue /\ proposals' = proposals
      /\ cycles[s] = Free
  BY DEF TimerFires, CalledDirectly, lifeVars, dataVars
<1>2. cycles[s].op = "none" /\ s \notin Looping
  BY <1>1 DEF Free, Looping
<1>3. CASE TimerFires(s)
  <2>1. timers > 0 /\ timers' = timers - 1 /\ timerHandle' = (timerHandle /\ timers > 1)
    BY <1>3 DEF TimerFires
  <2>2. timers' \in Nat /\ timerHandle' \in BOOLEAN /\ (timerHandle' => timers' > 0)
    <3>1. timers' \in Nat /\ (timers > 1 => timers' > 0)
      BY <2>1 DEF AgentShape
    <3>2. timerHandle' \in BOOLEAN
      BY <2>1
    <3>3. timerHandle' => timers > 1
      BY <2>1, Zenon
    <3> QED
      BY <3>1, <3>2, <3>3
  <2>3. ~crossed => Looping = {} /\ timers = 1 /\ timers' = 0 /\ ~timerHandle' /\ timerHandle
    <3> SUFFICES ASSUME ~crossed
                 PROVE  Looping = {} /\ timers = 1 /\ timers' = 0 /\ ~timerHandle' /\ timerHandle
      OBVIOUS
    <3>1. timers = Counted(timerHandle) /\ Looping = {} /\ timers \in Nat
      BY <2>1 DEF AgentShape, LoopInv
    <3>2. timers = 1 /\ timerHandle
      BY <2>1, <3>1 DEF Counted
    <3>3. ~(timers > 1) /\ timers' = 0
      BY <2>1, <3>2
    <3>4. ~timerHandle'
      BY <2>1, <3>3, Zenon
    <3> QED
      BY <3>1, <3>2, <3>3, <3>4
  <2>4. CASE agentStatus = "working"
    <3>1. PICK c : c = [op |-> "cycle", loop |-> TRUE, step |-> "fetch"]
      OBVIOUS
    <3>2. c \in InProgress /\ c.op = "cycle" /\ c.loop
      BY <3>1 DEF InProgress, Loops
    <3>3. cycles' = [cycles EXCEPT ![s] = c]
      BY <1>3, <2>4, <3>1 DEF TimerFires, CycleBegins
    <3>4. /\ cycles' \in [Slots -> InProgress] /\ cycles'[s] = c
          /\ \A t \in Slots : t # s => cycles'[t] = cycles[t]
          /\ Looping' = IF c.op \in {"cycle", "drain"} /\ c.loop
                        THEN Looping \cup {s} ELSE Looping \ {s}
      BY <3>2, <3>3, LoopingAfter DEF AgentShape
    <3>5. Looping' = Looping \cup {s}
      BY <3>2, <3>4
    <3>6. \A t \in Slots : cycles'[t].op = "drain" => cycles'[t] = cycles[t] /\ t # s
      BY <3>2, <3>4
    <3>7. WorkInv'
      BY <1>1, <3>6, WorkUntouched DEF AgentFrame
    <3>8. AgentShape'
      BY <1>1, <2>2, <3>4, <3>6 DEF AgentShape
    <3>9. LoopInv'
      BY <1>1, <2>2, <2>3, <2>4, <3>5 DEF LoopInv, Counted
    <3> QED
      BY <1>1, <3>7, <3>8, <3>9
  <2>5. CASE agentStatus # "working"
    <3>1. cycles' = cycles /\ Looping' = Looping
      BY <1>3, <2>5 DEF TimerFires, CycleBegins, Looping
    <3>2. WorkInv'
      BY <1>1, <3>1, WorkUntouched DEF AgentFrame
    <3>3. AgentShape'
      BY <1>1, <2>2, <3>1 DEF AgentShape
    <3>4. LoopInv'
      BY <1>1, <2>1, <2>2, <2>3, <2>5, <3>1 DEF LoopInv, Counted
    <3> QED
      BY <1>1, <3>2, <3>3, <3>4
  <2> QED
    BY <2>4, <2>5
<1>4. CASE CalledDirectly(s)
  <2>1. timers' = timers /\ timerHandle' = timerHandle /\ agentStatus = "working"
    BY <1>4 DEF CalledDirectly, lifeVars
  <2>2. PICK c : c = [op |-> "cycle", loop |-> FALSE, step |-> "fetch"]
    OBVIOUS
  <2>3. c \in InProgress /\ c.op = "cycle" /\ ~c.loop
    BY <2>2 DEF InProgress, Loops
  <2>4. cycles' = [cycles EXCEPT ![s] = c]
    BY <1>4, <2>1, <2>2 DEF CalledDirectly, CycleBegins
  <2>5. /\ cycles' \in [Slots -> InProgress] /\ cycles'[s] = c
        /\ \A t \in Slots : t # s => cycles'[t] = cycles[t]
        /\ Looping' = IF c.op \in {"cycle", "drain"} /\ c.loop
                      THEN Looping \cup {s} ELSE Looping \ {s}
    BY <2>3, <2>4, LoopingAfter DEF AgentShape
  <2>6. Looping' = Looping
    BY <1>2, <2>3, <2>5
  <2>7. \A t \in Slots : cycles'[t].op = "drain" => cycles'[t] = cycles[t] /\ t # s
    BY <2>3, <2>5
  <2>8. WorkInv'
    BY <1>1, <2>7, WorkUntouched DEF AgentFrame
  <2>9. AgentShape'
    BY <1>1, <2>1, <2>5, <2>7 DEF AgentShape
  <2>10. LoopInv'
    BY <1>1, <2>1, <2>6 DEF LoopInv
  <2> QED
    BY <1>1, <2>8, <2>9, <2>10
<1> QED
  BY <1>3, <1>4

LEMMA CycleOverStep ==
  ASSUME AgentShape, LoopInv, WorkInv, NEW s \in Slots, CycleFails(s) \/ CycleEnds(s)
  PROVE  AgentShape' /\ LoopInv' /\ WorkInv' /\ proposals' = proposals
<1>1. /\ agentKind' = agentKind /\ beats' = beats
      /\ beatHandle' = beatHandle /\ crossed' = crossed
      /\ splits' = splits /\ pendingQueue' = pendingQueue /\ proposals' = proposals
      /\ cycles[s].op = "cycle" /\ cycles' = [cycles EXCEPT ![s] = Free]
  BY DEF CycleFails, CycleEnds, dataVars
<1>2. Free \in InProgress /\ Free.op = "none"
  BY DEF InProgress, Free
<1>3. /\ cycles' \in [Slots -> InProgress] /\ cycles'[s] = Free
      /\ \A t \in Slots : t # s => cycles'[t] = cycles[t]
      /\ Looping' = IF Free.op \in {"cycle", "drain"} /\ Free.loop
                    THEN Looping \cup {s} ELSE Looping \ {s}
  BY <1>1, <1>2, LoopingAfter DEF AgentShape
<1>4. Looping' = Looping \ {s}
  BY <1>2, <1>3
<1>5. \A t \in Slots : cycles'[t].op = "drain" => cycles'[t] = cycles[t] /\ t # s
  BY <1>2, <1>3
<1>6. WorkInv'
  BY <1>1, <1>5, WorkUntouched DEF AgentFrame
<1>7. CASE CycleFails(s)
  <2>1. /\ agentStatus' = "error" /\ interrupted' = TRUE /\ timers' = timers
        /\ timerHandle' = timerHandle
    BY <1>7 DEF CycleFails
  <2>2. AgentShape'
    BY <1>1, <1>3, <1>5, <2>1 DEF AgentShape
  <2>3. LoopInv'
    BY <1>1, <1>4, <2>1 DEF LoopInv
  <2> QED
    BY <1>1, <1>6, <2>2, <2>3
<1>8. CASE CycleEnds(s)
  <2>1. PICK again \in BOOLEAN : again = (cycles[s].loop /\ agentStatus = "working")
    OBVIOUS
  <2>2. /\ timers' = timers + Counted(again) /\ timerHandle' = (timerHandle \/ again)
        /\ agentStatus' = agentStatus /\ interrupted' = interrupted
    BY <1>8, <2>1 DEF CycleEnds
  <2>3. CASE again
    <3>1. timers' = timers + 1 /\ timerHandle' = TRUE /\ timers \in Nat
      BY <2>2, <2>3 DEF Counted, AgentShape
    <3>2. s \in Looping /\ agentStatus = "working"
      BY <1>1, <2>1, <2>3 DEF Looping
    <3>3. ~crossed => Looping = {s} /\ timers = 0
      BY <3>1, <3>2 DEF LoopInv
    <3>4. AgentShape'
      BY <1>1, <1>3, <1>5, <2>2, <3>1 DEF AgentShape
    <3>5. LoopInv'
      BY <1>1, <1>4, <2>2, <3>1, <3>2, <3>3 DEF LoopInv, Counted
    <3> QED
      BY <1>1, <1>6, <3>4, <3>5
  <2>4. CASE ~again
    <3>1. timers' = timers /\ timerHandle' = timerHandle /\ timers \in Nat
      BY <2>2, <2>4 DEF Counted, AgentShape
    <3>2. agentStatus = "working" => Looping' = Looping
      BY <1>4, <2>1, <2>4 DEF Looping
    <3>3. AgentShape'
      BY <1>1, <1>3, <1>5, <2>2, <3>1 DEF AgentShape
    <3>4. LoopInv'
      BY <1>1, <1>4, <2>2, <3>1, <3>2 DEF LoopInv
    <3> QED
      BY <1>1, <1>6, <3>3, <3>4
  <2> QED
    BY <2>3, <2>4
<1> QED
  BY <1>7, <1>8

\* What is fetched, and what is done with one thing fetched.
LEMMA CycleWorkStep ==
  ASSUME AgentShape, LoopInv, WorkInv, NEW s \in Slots, proposals' \in [Proposals -> Proposal],
         \/ \E items \in SUBSET (Items \cup Proposals), hands \in SUBSET JobWorkers :
              Fetched(s, items, hands)
         \/ \E i \in Items : LogThreat(s, i) \/ MatchJob(s, i)
         \/ \E i \in Proposals : EvaluateProposal(s, i)
  PROVE  AgentShape' /\ LoopInv' /\ WorkInv'
<1>1. cycles[s] \in InProgress /\ cycles \in [Slots -> InProgress]
  BY DEF AgentShape
<1>2. ASSUME NEW items \in SUBSET (Items \cup Proposals), NEW hands \in SUBSET JobWorkers,
             Fetched(s, items, hands)
      PROVE  AgentShape' /\ LoopInv' /\ WorkInv'
  <2>1. cycles[s].op = "cycle" /\ cycles[s].step = "fetch"
        /\ UNCHANGED <<lifeVars, splits, pendingQueue>>
    BY <1>2 DEF Fetched, dataVars
  <2>2. PICK l \in BOOLEAN : l = cycles[s].loop
    <3>1. cycles[s] \in Loops \cup Works
      BY <1>1, <2>1 DEF InProgress, Free, Drains
    <3> QED
      BY <3>1 DEF Loops, Works
  <2>3. PICK c : c = [op |-> "cycle", loop |-> l, step |-> "work", left |-> items, free |-> hands]
    OBVIOUS
  <2>4. c \in Works /\ c.loop = l
    BY <2>3 DEF Works
  <2>5. cycles' = [cycles EXCEPT ![s] = c]
    BY <1>2, <2>2, <2>3 DEF Fetched
  <2> QED
    BY <2>1, <2>2, <2>4, <2>5, InCycleStep
<1>3. ASSUME cycles[s].op = "cycle", cycles[s].step = "work"
      PROVE  /\ cycles[s].loop \in BOOLEAN /\ cycles[s].left \in SUBSET (Items \cup Proposals)
             /\ cycles[s].free \in SUBSET JobWorkers
             /\ cycles[s] = [op |-> "cycle", loop |-> cycles[s].loop, step |-> "work",
                             left |-> cycles[s].left, free |-> cycles[s].free]
  <2>1. cycles[s] \in Works
    BY <1>1, <1>3 DEF InProgress, Free, Drains, Loops
  <2> QED
    BY <2>1 DEF Works
<1>4. ASSUME NEW left \in SUBSET (Items \cup Proposals), NEW free \in SUBSET JobWorkers,
             NEW c, c = [cycles[s] EXCEPT !.left = left, !.free = free],
             cycles[s].op = "cycle", cycles[s].step = "work",
             cycles' = [cycles EXCEPT ![s] = c],
             UNCHANGED <<lifeVars, splits, pendingQueue>>
      PROVE  AgentShape' /\ LoopInv' /\ WorkInv'
  <2>1. PICK l \in BOOLEAN : l = cycles[s].loop
    BY <1>3, <1>4
  <2>2. c = [op |-> "cycle", loop |-> l, step |-> "work", left |-> left, free |-> free]
    BY <1>3, <1>4, <2>1
  <2>3. c \in Works /\ c.loop = l
    <3>1. left \in SUBSET (Items \cup Proposals) /\ free \in SUBSET JobWorkers /\ l \in BOOLEAN
      OBVIOUS
    <3> QED
      BY <2>2, <3>1 DEF Works
  <2> QED
    BY <1>4, <2>1, <2>3, InCycleStep
<1>5. ASSUME NEW i, Work(s, i), Worked(s, i)
      PROVE  AgentShape' /\ LoopInv' /\ WorkInv'
  <2>1. /\ cycles[s].op = "cycle" /\ cycles[s].step = "work"
        /\ UNCHANGED <<lifeVars, splits, pendingQueue>>
    BY <1>5 DEF Work
  <2>2. PICK left \in SUBSET (Items \cup Proposals) : left = cycles[s].left \ {i}
    BY <1>3, <2>1
  <2>3. PICK free \in SUBSET JobWorkers : free = cycles[s].free
    BY <1>3, <2>1
  <2>4. PICK c : c = [cycles[s] EXCEPT !.left = left, !.free = free]
    OBVIOUS
  <2>5. c = [cycles[s] EXCEPT !.left = left]
    BY <1>3, <2>1, <2>3, <2>4
  <2>6. cycles' = [cycles EXCEPT ![s] = c]
    BY <1>1, <1>5, <2>2, <2>5 DEF Worked
  <2> QED
    BY <1>4, <2>1, <2>4, <2>6
<1>6. ASSUME NEW i \in Items, MatchJob(s, i) PROVE AgentShape' /\ LoopInv' /\ WorkInv'
  <2>1. CASE Worked(s, i)
    BY <1>5, <1>6, <2>1 DEF MatchJob
  <2>2. CASE ~Worked(s, i)
    <3>1. /\ cycles[s].op = "cycle" /\ cycles[s].step = "work"
          /\ UNCHANGED <<lifeVars, splits, pendingQueue>>
      BY <1>6 DEF MatchJob, Work
    <3>2. PICK w \in cycles[s].free :
            cycles' = [cycles EXCEPT ![s].left = @ \ {i}, ![s].free = @ \ {w}]
      BY <1>6, <2>2 DEF MatchJob
    <3>3. PICK left \in SUBSET (Items \cup Proposals) : left = cycles[s].left \ {i}
      BY <1>3, <3>1
    <3>4. PICK free \in SUBSET JobWorkers : free = cycles[s].free \ {w}
      BY <1>3, <3>1
    <3>5. PICK c : c = [cycles[s] EXCEPT !.left = left, !.free = free]
      OBVIOUS
    <3>6. cycles' = [cycles EXCEPT ![s] = c]
      BY <1>1, <3>2, <3>3, <3>4, <3>5
    <3> QED
      BY <1>4, <3>1, <3>5, <3>6
  <2> QED
    BY <2>1, <2>2
<1>7. ASSUME NEW i \in Items, LogThreat(s, i) PROVE AgentShape' /\ LoopInv' /\ WorkInv'
  BY <1>5, <1>7 DEF LogThreat
<1>8. ASSUME NEW i \in Proposals, EvaluateProposal(s, i) PROVE AgentShape' /\ LoopInv' /\ WorkInv'
  BY <1>5, <1>8 DEF EvaluateProposal
<1> QED
  BY <1>2, <1>6, <1>7, <1>8

-----------------------------------------------------------------------------
(***************************************************************************)
(* Agents: the proposals.                                                  *)
(***************************************************************************)
\* evaluate decides by the end, and executes what has passed, unless a human is asked.
LEMMA EvaluateKeeps ==
  ASSUME NEW p \in Proposal, Decided(p)
  PROVE  Evaluate(p) \in Proposal /\ Decided(Evaluate(p))
<1> DEFINE q == IF p.expired /\ p.status = "active"
                THEN [p EXCEPT !.status = IF Ratio(p) THEN "passed" ELSE "rejected"] ELSE p
<1>1. /\ p.status \in {"active", "passed", "rejected"} /\ p.large \in BOOLEAN /\ p.yes \in Nat
      /\ p.no \in Nat /\ p.expired \in BOOLEAN /\ p.executed \in BOOLEAN
  BY DEF Proposal
<1>2. q \in Proposal /\ Decided(q)
  <2>1. CASE p.expired /\ p.status = "active"
    <3>1. PICK st \in {"passed", "rejected"} : st = IF Ratio(p) THEN "passed" ELSE "rejected"
      OBVIOUS
    <3>2. q = [p EXCEPT !.status = st]
      BY <2>1, <3>1
    <3>3. /\ q \in Proposal /\ q.status = st /\ q.expired = p.expired /\ q.executed = p.executed
      BY <3>2 DEF Proposal
    <3> HIDE DEF q
    <3> QED
      BY <2>1, <3>3 DEF Decided
  <2>2. CASE ~(p.expired /\ p.status = "active")
    BY <2>2
  <2> QED
    BY <2>1, <2>2
<1>3. PICK r : r = q
  OBVIOUS
<1>4. Evaluate(p) = CASE r.status # "passed" -> r
                      [] r.status = "passed" /\ r.large -> r
                      [] OTHER -> [r EXCEPT !.executed = TRUE]
  BY <1>3 DEF Evaluate
<1> HIDE DEF q
<1>5. CASE r.status # "passed" \/ r.large
  <2>1. Evaluate(p) = r
    BY <1>4, <1>5
  <2> QED
    BY <1>2, <1>3, <2>1
<1>6. CASE r.status = "passed" /\ ~r.large
  <2>1. Evaluate(p) = [r EXCEPT !.executed = TRUE]
    BY <1>4, <1>6
  <2>2. /\ Evaluate(p) \in Proposal /\ Evaluate(p).status = r.status /\ Evaluate(p).large = r.large
        /\ Evaluate(p).expired = r.expired /\ Evaluate(p).yes = r.yes /\ Evaluate(p).no = r.no
    BY <1>2, <1>3, <2>1 DEF Proposal
  <2> QED
    BY <1>2, <1>3, <1>6, <2>2 DEF Decided, Total
<1> QED
  BY <1>5, <1>6

\* A vote on an active proposal, which it may pass.
LEMMA VoteKeeps ==
  ASSUME NEW p \in Proposal, Decided(p), p.status = "active", NEW one \in Nat, NEW other \in Nat,
         NEW voted, voted = [p EXCEPT !.yes = @ + one, !.no = @ + other], NEW q,
         q = IF Ratio(voted) /\ Total(voted) >= DaoQuorum
             THEN Evaluate([voted EXCEPT !.status = "passed"]) ELSE voted
  PROVE  q \in Proposal /\ Decided(q)
<1>2. p.yes \in Nat /\ p.no \in Nat
  BY DEF Proposal
<1>3. PICK y \in Nat : y = p.yes + one
  BY <1>2
<1>4. PICK n \in Nat : n = p.no + other
  BY <1>2
<1>5. voted = [p EXCEPT !.yes = y, !.no = n]
  BY <1>3, <1>4
<1>6. voted \in Proposal /\ voted.status = "active" /\ voted.executed = p.executed
  BY <1>5 DEF Proposal
<1>7. ~voted.executed
  BY <1>6 DEF Decided
<1>8. CASE Ratio(voted) /\ Total(voted) >= DaoQuorum
  <2>1. PICK v : v = [voted EXCEPT !.status = "passed"]
    OBVIOUS
  <2>2. /\ v \in Proposal /\ v.status = "passed" /\ v.executed = voted.executed
        /\ v.yes = voted.yes /\ v.no = voted.no
    BY <1>6, <2>1 DEF Proposal
  <2>3. Decided(v)
    BY <1>7, <1>8, <2>2 DEF Decided, Total
  <2>4. q = Evaluate(v)
    BY <1>8, <2>1
  <2> QED
    BY <2>2, <2>3, <2>4, EvaluateKeeps
<1>9. CASE ~(Ratio(voted) /\ Total(voted) >= DaoQuorum)
  BY <1>6, <1>7, <1>9 DEF Decided
<1> QED
  BY <1>8, <1>9

LEMMA PollsStep ==
  ASSUME AgentShape, PollsInv,
         \/ proposals' = proposals
         \/ \E i \in Proposals : ProposalExpires(i) \/ \E yes \in BOOLEAN : ProposalVote(i, yes)
         \/ \E s \in Slots, i \in Proposals : EvaluateProposal(s, i)
  PROVE  proposals' \in [Proposals -> Proposal] /\ PollsInv'
<1>1. proposals \in [Proposals -> Proposal] /\ \A i \in Proposals : Decided(proposals[i])
  BY DEF AgentShape, PollsInv
<1>2. CASE proposals' = proposals
  BY <1>1, <1>2 DEF PollsInv
<1>3. ASSUME NEW i \in Proposals, NEW q \in Proposal, Decided(q),
             proposals' = [proposals EXCEPT ![i] = q]
      PROVE  proposals' \in [Proposals -> Proposal] /\ PollsInv'
  <2>1. /\ proposals' \in [Proposals -> Proposal] /\ proposals'[i] = q
        /\ \A j \in Proposals : j # i => proposals'[j] = proposals[j]
    BY <1>1, <1>3
  <2> QED
    BY <1>1, <1>3, <2>1 DEF PollsInv
<1>4. ASSUME NEW i \in Proposals, ProposalExpires(i)
      PROVE  proposals' \in [Proposals -> Proposal] /\ PollsInv'
  <2>1. PICK p \in Proposal : p = proposals[i] /\ Decided(p)
    BY <1>1
  <2>2. PICK q : q = [p EXCEPT !.expired = TRUE]
    OBVIOUS
  <2>3. /\ q \in Proposal /\ q.expired /\ q.executed = p.executed /\ q.status = p.status
        /\ q.large = p.large
    BY <2>2 DEF Proposal
  <2>4. Decided(q)
    BY <2>1, <2>3 DEF Decided
  <2>5. proposals' = [proposals EXCEPT ![i] = q]
    BY <1>1, <1>4, <2>1, <2>2 DEF ProposalExpires
  <2> QED
    BY <1>3, <2>3, <2>4, <2>5
<1>5. ASSUME NEW i \in Proposals, NEW yes \in BOOLEAN, ProposalVote(i, yes)
      PROVE  proposals' \in [Proposals -> Proposal] /\ PollsInv'
  <2>1. PICK p \in Proposal : p = proposals[i] /\ Decided(p) /\ p.status = "active"
    BY <1>1, <1>5 DEF ProposalVote
  <2>0. PICK one \in Nat : one = Counted(yes)
    BY DEF Counted
  <2>6. PICK other \in Nat : other = Counted(~yes)
    BY DEF Counted
  <2>2. PICK voted : voted = [p EXCEPT !.yes = @ + one, !.no = @ + other]
    OBVIOUS
  <2>3. PICK q : q = IF Ratio(voted) /\ Total(voted) >= DaoQuorum
                     THEN Evaluate([voted EXCEPT !.status = "passed"]) ELSE voted
    OBVIOUS
  <2>4. q \in Proposal /\ Decided(q)
    BY <2>1, <2>2, <2>3, VoteKeeps
  <2>5. proposals' = [proposals EXCEPT ![i] = q]
    BY <1>5, <2>0, <2>1, <2>2, <2>3, <2>6 DEF ProposalVote
  <2> QED
    BY <1>3, <2>4, <2>5
<1>6. ASSUME NEW s \in Slots, NEW i \in Proposals, EvaluateProposal(s, i)
      PROVE  proposals' \in [Proposals -> Proposal] /\ PollsInv'
  <2>0. PICK p \in Proposal : p = proposals[i] /\ Decided(p)
    BY <1>1
  <2>1. PICK q : q = Evaluate(p)
    OBVIOUS
  <2>2. q \in Proposal /\ Decided(q)
    <3>1. Decided(p)
      BY <2>0
    <3>2. Evaluate(p) \in Proposal /\ Decided(Evaluate(p))
      BY <3>1, EvaluateKeeps
    <3> QED
      BY <2>1, <3>2
  <2>3. proposals' = [proposals EXCEPT ![i] = q]
    BY <1>6, <2>0, <2>1 DEF EvaluateProposal
  <2> QED
    BY <1>3, <2>2, <2>3
<1> QED
  BY <1>2, <1>4, <1>5, <1>6

-----------------------------------------------------------------------------
(***************************************************************************)
(* Agents: the splits.                                                     *)
(***************************************************************************)
Statuses == {"none", "pending", "processing", "settled", "failed"}

LEMMA StatusIs ==
  ASSUME NEW ss \in [Items -> SplitRecord], NEW i \in Items, NEW st \in Statuses, NEW r,
         r = [ss EXCEPT ![i].status = st]
  PROVE  /\ r \in [Items -> SplitRecord]
         /\ \A j \in Items : /\ r[j].credited = ss[j].credited
                             /\ r[j].status = IF j = i THEN st ELSE ss[j].status
<1>1. PICK q : q = [ss[i] EXCEPT !.status = st]
  OBVIOUS
<1>2. q \in SplitRecord /\ q.status = st /\ q.credited = ss[i].credited
  <2>1. ss[i] \in SplitRecord
    OBVIOUS
  <2> QED
    BY <1>1, <2>1 DEF SplitRecord, Statuses
<1>3. r = [ss EXCEPT ![i] = q]
  BY <1>1
<1>4. /\ r \in [Items -> SplitRecord] /\ r[i] = q
      /\ \A j \in Items : j # i => r[j] = ss[j]
  BY <1>2, <1>3
<1> QED
  BY <1>2, <1>4

LEMMA ProcessingIs ==
  ASSUME NEW ss \in [Items -> SplitRecord], NEW rest \in Seq(Items)
  PROVE  /\ Processing(ss, rest) \in [Items -> SplitRecord]
         /\ \A j \in Items :
              /\ Processing(ss, rest)[j].credited = ss[j].credited
              /\ Processing(ss, rest)[j].status
                   = IF rest # <<>> /\ j = Head(rest) THEN "processing" ELSE ss[j].status
<1>1. CASE rest = <<>>
  BY <1>1 DEF Processing
<1>2. CASE rest # <<>>
  <2>1. PICK i \in Items : i = Head(rest)
    BY <1>2
  <2>2. Processing(ss, rest) = [ss EXCEPT ![i].status = "processing"]
    BY <1>2, <2>1 DEF Processing
  <2>3. /\ Processing(ss, rest) \in [Items -> SplitRecord]
        /\ \A j \in Items :
             /\ Processing(ss, rest)[j].credited = ss[j].credited
             /\ Processing(ss, rest)[j].status = IF j = i THEN "processing" ELSE ss[j].status
    BY <2>2, StatusIs DEF Statuses
  <2> QED
    BY <1>2, <2>1, <2>3
<1> QED
  BY <1>1, <1>2

LEMMA ProcessIs ==
  ASSUME NEW loop \in BOOLEAN, NEW rest \in Seq(Items)
  PROVE  /\ Process(loop, rest) \in InProgress
         /\ rest = <<>> => Process(loop, rest).op = "none"
         /\ rest # <<>> =>
              /\ Process(loop, rest).op = "drain" /\ Process(loop, rest).loop = loop
              /\ Process(loop, rest).now = Head(rest) /\ Process(loop, rest).rest = Tail(rest)
              /\ Process(loop, rest).step = "persist"
<1>1. CASE rest = <<>>
  BY <1>1 DEF Process, Free, InProgress
<1>2. CASE rest # <<>>
  <2>1. PICK i \in Items : i = Head(rest)
    BY <1>2
  <2>2. PICK tail \in Seq(Items) : tail = Tail(rest)
    BY <1>2, HeadTailProperties
  <2>3. Process(loop, rest)
          = [op |-> "drain", loop |-> loop, now |-> i, rest |-> tail, step |-> "persist"]
    BY <1>2, <2>1, <2>2 DEF Process
  <2>4. Process(loop, rest) \in Drains
    BY <2>3 DEF Drains
  <2> QED
    BY <1>2, <2>1, <2>2, <2>3, <2>4 DEF InProgress
<1> QED
  BY <1>1, <1>2

\* Without the split slot s lets go, in mid, the others are as they should be, and rest, what it
\* goes on to, is pending and held by no other drain.
Ready(s, loop, rest, mid) ==
  /\ \A j \in Items : /\ mid[j].credited <= 1
                      /\ mid[j].status \in {"none", "pending"} => mid[j].credited = 0
  /\ \A t \in Slots : t # s => Settling(mid, cycles[t])
  /\ \A t, u \in Slots : t # s /\ u # s /\ cycles[t].op = "drain" /\ cycles[u].op = "drain"
                         /\ cycles[t].now = cycles[u].now => t = u
  /\ Distinct(rest) /\ \A k \in DOMAIN rest : mid[rest[k]].status = "pending"
  /\ ~loop => Len(rest) <= 1
  /\ \A t \in Slots : t # s /\ cycles[t].op = "drain" /\ rest # <<>> =>
       \A k \in DOMAIN cycles[t].rest : cycles[t].rest[k] # Head(rest)

\* Slot s goes on to the first of the splits in rest, c is what it is at then.
Takes(s, c, rest, mid) ==
  /\ cycles' = [cycles EXCEPT ![s] = c]
  /\ splits' \in [Items -> SplitRecord]
  /\ \A j \in Items : /\ splits'[j].credited = mid[j].credited
                      /\ splits'[j].status = IF rest # <<>> /\ j = Head(rest)
                                             THEN "processing" ELSE mid[j].status

\* A slot goes on to the next split, which is then in no other's hands.
LEMMA NextSplit ==
  ASSUME cycles \in [Slots -> InProgress],
         NEW s \in Slots, NEW loop \in BOOLEAN, NEW rest \in Seq(Items),
         NEW mid \in [Items -> SplitRecord], NEW c, c = Process(loop, rest),
         Takes(s, c, rest, mid), Ready(s, loop, rest, mid)
  PROVE  SplitsOnce'
<1> USE DEF Takes, Ready
<1>1. c = Process(loop, rest)
  OBVIOUS
<1>2. /\ c \in InProgress /\ (rest = <<>> => c.op = "none")
      /\ rest # <<>> => c.op = "drain" /\ c.loop = loop /\ c.now = Head(rest)
                        /\ c.rest = Tail(rest) /\ c.step = "persist"
  BY <1>1, ProcessIs
<1>3. cycles'[s] = c /\ \A t \in Slots : t # s => cycles'[t] = cycles[t]
  BY <1>1
<1>4. ASSUME NEW t \in Slots, t # s, cycles[t].op = "drain"
      PROVE  /\ cycles[t].now \in Items /\ cycles[t].rest \in Seq(Items)
             /\ mid[cycles[t].now].status = "processing"
  <2>1. cycles[t] \in Drains
    BY <1>4 DEF InProgress, Free, Loops, Works
  <2> QED
    BY <1>4, <2>1 DEF Drains, Settling
<1>5. ASSUME rest # <<>>
      PROVE  /\ Head(rest) \in Items /\ mid[Head(rest)].status = "pending"
             /\ mid[Head(rest)].credited = 0
  <2>1. 1 \in DOMAIN rest /\ Head(rest) = rest[1] /\ Head(rest) \in Items
    BY <1>5
  <2> QED
    BY <2>1
<1>6. \A i \in Items : /\ splits'[i].credited <= 1
                       /\ splits'[i].status \in {"none", "pending"} => splits'[i].credited = 0
  BY <1>5
<1>7. ASSUME NEW t \in Slots, t # s PROVE Settling(splits', cycles[t])
  <2> SUFFICES ASSUME cycles[t].op = "drain"
               PROVE  /\ splits'[cycles[t].now].status = "processing"
                      /\ cycles[t].step # "notify" => splits'[cycles[t].now].credited = 0
                      /\ ~cycles[t].loop => cycles[t].rest = <<>>
                      /\ Distinct(cycles[t].rest)
                      /\ \A k \in DOMAIN cycles[t].rest :
                           splits'[cycles[t].rest[k]].status = "pending"
    BY DEF Settling
  <2>1. /\ mid[cycles[t].now].status = "processing"
        /\ cycles[t].step # "notify" => mid[cycles[t].now].credited = 0
        /\ ~cycles[t].loop => cycles[t].rest = <<>>
        /\ Distinct(cycles[t].rest)
        /\ \A k \in DOMAIN cycles[t].rest : mid[cycles[t].rest[k]].status = "pending"
    BY <1>7 DEF Settling
  <2>2. cycles[t].now \in Items /\ cycles[t].rest \in Seq(Items)
    BY <1>4, <1>7
  <2>3. \A k \in DOMAIN cycles[t].rest : splits'[cycles[t].rest[k]].status = "pending"
    <3> SUFFICES ASSUME NEW k \in DOMAIN cycles[t].rest
                 PROVE  splits'[cycles[t].rest[k]].status = "pending"
      OBVIOUS
    <3>1. cycles[t].rest[k] \in Items
      BY <2>2
    <3>2. ~(rest # <<>> /\ cycles[t].rest[k] = Head(rest))
      BY <1>7
    <3> QED
      BY <2>1, <3>1, <3>2
  <2>4. /\ splits'[cycles[t].now].status = "processing"
        /\ splits'[cycles[t].now].credited = mid[cycles[t].now].credited
    BY <2>1, <2>2
  <2> QED
    BY <2>1, <2>3, <2>4
<1>8. Settling(splits', c)
  <2> SUFFICES ASSUME rest # <<>>
               PROVE  Settling(splits', c)
    BY <1>2 DEF Settling
  <2>1. PICK i \in Items : i = Head(rest)
    BY <1>5
  <2>2. PICK tail \in Seq(Items) : tail = Tail(rest) /\ Len(tail) = Len(rest) - 1
    BY HeadTailProperties
  <2>3. splits'[i].status = "processing" /\ splits'[i].credited = 0
    BY <1>5, <2>1
  <2>4. \A k \in DOMAIN tail : k + 1 \in DOMAIN rest /\ tail[k] = rest[k + 1] /\ k \in Nat
                               /\ k # 0 /\ tail[k] \in Items
    BY <2>2
  <2>5. i = rest[1] /\ 1 \in DOMAIN rest
    BY <2>1
  <2>6. \A k \in DOMAIN tail : tail[k] # i
    <3> SUFFICES ASSUME NEW k \in DOMAIN tail, tail[k] = i PROVE FALSE
      OBVIOUS
    <3>1. PICK m : m = k + 1
      OBVIOUS
    <3>2. m \in DOMAIN rest /\ rest[m] = rest[1] /\ m # 1
      BY <2>4, <2>5, <3>1
    <3> QED
      BY <2>5, <3>2 DEF Distinct
  <2>7. \A k \in DOMAIN tail : splits'[tail[k]].status = "pending"
    <3> SUFFICES ASSUME NEW k \in DOMAIN tail PROVE splits'[tail[k]].status = "pending"
      OBVIOUS
    <3>1. mid[tail[k]].status = "pending" /\ tail[k] \in Items
      BY <2>4
    <3> QED
      BY <2>1, <2>6, <3>1
  <2>8. Distinct(tail)
    <3> SUFFICES ASSUME NEW j \in DOMAIN tail, NEW k \in DOMAIN tail, tail[j] = tail[k]
                 PROVE  j = k
      BY DEF Distinct
    <3>1. PICK m : m = j + 1
      OBVIOUS
    <3>2. PICK n : n = k + 1
      OBVIOUS
    <3>3. m \in DOMAIN rest /\ n \in DOMAIN rest /\ rest[m] = rest[n] /\ j \in Nat /\ k \in Nat
      BY <2>4, <3>1, <3>2
    <3>4. m = n
      BY <3>3 DEF Distinct
    <3> QED
      BY <3>1, <3>2, <3>3, <3>4
  <2>9. ~loop => tail = <<>>
    <3> SUFFICES ASSUME ~loop PROVE tail = <<>>
      OBVIOUS
    <3>1. Len(rest) <= 1 /\ Len(rest) \in Nat /\ Len(tail) \in Nat
      OBVIOUS
    <3>2. Len(tail) = 0
      BY <2>2, <3>1
    <3> QED
      BY <3>2
  <2>10. c.op = "drain" /\ c.loop = loop /\ c.now = i /\ c.rest = tail /\ c.step = "persist"
    BY <1>2, <2>1, <2>2
  <2> QED
    BY <2>3, <2>7, <2>8, <2>9, <2>10 DEF Settling
<1>9. \A t \in Slots : Settling(splits, cycles[t])'
  BY <1>3, <1>7, <1>8
<1>10. ASSUME NEW t \in Slots, NEW u \in Slots, cycles'[t].op = "drain", cycles'[u].op = "drain",
              cycles'[t].now = cycles'[u].now
       PROVE  t = u
  <2>1. ASSUME NEW v \in Slots, v # s, c.op = "drain", cycles[v].op = "drain"
        PROVE  cycles[v].now # c.now
    BY <1>2, <1>4, <1>5, <2>1
  <2> QED
    BY <1>3, <1>10, <2>1
<1> QED
  BY <1>6, <1>9, <1>10 DEF SplitsOnce

\* What a slot's drain does to the lifecycle: a failure is an error of the agent.
LEMMA DrainLife ==
  ASSUME AgentShape, LoopInv, NEW s \in Slots, NEW c \in InProgress,
         cycles' = [cycles EXCEPT ![s] = c], c.op # "cycle",
         c.op = "drain" /\ c.loop => s \in Looping,
         agentKind = "treasury", agentKind' = agentKind, beats' = beats, beatHandle' = beatHandle,
         timers' = timers, timerHandle' = timerHandle, crossed' = crossed,
         \/ agentStatus' = agentStatus /\ interrupted' = interrupted
         \/ agentStatus' = "error" /\ interrupted' = TRUE,
         splits' \in [Items -> SplitRecord], pendingQueue' \in Seq(Items), proposals' = proposals
  PROVE  AgentShape' /\ LoopInv'
<1>1. /\ cycles' \in [Slots -> InProgress] /\ cycles'[s] = c
      /\ \A t \in Slots : t # s => cycles'[t] = cycles[t]
      /\ Looping' = IF c.op \in {"cycle", "drain"} /\ c.loop
                    THEN Looping \cup {s} ELSE Looping \ {s}
  BY LoopingAfter DEF AgentShape
<1>2. Looping' \subseteq Looping
  BY <1>1
<1>3. AgentShape'
  BY <1>1 DEF AgentShape
<1>4. LoopInv'
  BY <1>2 DEF LoopInv
<1> QED
  BY <1>3, <1>4

\* What is known of the drain of a slot.
LEMMA DrainIs ==
  ASSUME cycles \in [Slots -> InProgress], NEW s \in Slots, cycles[s].op = "drain"
  PROVE  /\ cycles[s] \in Drains /\ cycles[s].loop \in BOOLEAN /\ cycles[s].now \in Items
         /\ cycles[s].rest \in Seq(Items) /\ cycles[s].step \in {"persist", "credit", "notify"}
<1>1. cycles[s] \in InProgress
  OBVIOUS
<1>2. cycles[s] \in Drains
  BY <1>1 DEF InProgress, Free, Loops, Works
<1> QED
  BY <1>2 DEF Drains

LEMMA StartStep ==
  ASSUME AgentShape, LoopInv, WorkInv, Start
  PROVE  AgentShape' /\ LoopInv' /\ WorkInv' /\ proposals' = proposals
<1>1. /\ agentStatus # "working" /\ agentStatus' = "working" /\ interrupted' = FALSE
      /\ beats' = beats + 1 /\ beatHandle' = TRUE /\ agentKind' = agentKind
      /\ pendingQueue' = pendingQueue /\ proposals' = proposals
      /\ crossed' \in BOOLEAN /\ beats \in Nat /\ beats' \in Nat /\ timers \in Nat
  <2>1. crossed' = (crossed \/ agentStatus \in {"paused", "error"} \/ Looping # {})
    BY DEF Start
  <2>2. crossed' \in BOOLEAN
    BY <2>1
  <2> QED
    BY <2>2 DEF Start, AgentShape
<1>2. ASSUME ~crossed'
      PROVE  /\ ~crossed /\ Looping = {} /\ beats = 0 /\ timers = 0 /\ ~timerHandle
  <2>1. ~crossed /\ agentStatus \notin {"paused", "error"} /\ Looping = {}
    BY <1>2 DEF Start
  <2>2. agentStatus \in {"idle", "stopped"}
    BY <1>1, <2>1 DEF AgentShape
  <2> QED
    BY <2>1, <2>2 DEF LoopInv, Counted
<1>3. CASE agentKind # "treasury"
  <2>1. /\ timers' = timers + 1 /\ timerHandle' = TRUE /\ cycles' = cycles /\ splits' = splits
        /\ Looping' = Looping
    BY <1>3 DEF Start, Looping
  <2>2. timers' \in Nat /\ timers' > 0 /\ beats' > 0
    BY <1>1, <2>1
  <2>3. AgentShape'
    BY <1>1, <1>3, <2>1, <2>2 DEF AgentShape
  <2>4. LoopInv'
    BY <1>1, <1>2, <2>1, <2>2 DEF LoopInv, Counted
  <2>5. QueueInv' /\ CreditsFirst'
    BY <1>1, <2>1 DEF WorkInv, QueueInv, CreditsFirst
  <2>6. ASSUME ~crossed' PROVE SplitsOnce'
    BY <1>2, <2>1, <2>6 DEF WorkInv, SplitsOnce, Settling
  <2> QED
    BY <1>1, <2>3, <2>4, <2>5, <2>6 DEF WorkInv
<1>4. CASE agentKind = "treasury"
  <2>1. PICK rest : rest = DrainQueue
    OBVIOUS
  <2>2. PICK s \in Slots : cycles[s] = Free /\ cycles' = [cycles EXCEPT ![s] = Process(TRUE, rest)]
    BY <1>4, <2>1 DEF Start
  <2>3. /\ splits' = Processing(splits, rest) /\ timers' = timers /\ timerHandle' = timerHandle
    BY <1>4, <2>1 DEF Start
  <2>4. /\ rest \in Seq(Items) /\ Distinct(rest)
        /\ \A k \in DOMAIN rest : splits[rest[k]].status = "pending"
    <3>1. PICK K : K = {i \in Items : splits[i].status = "pending"}
      OBVIOUS
    <3>2. rest = Kept(pendingQueue, K)
      BY <2>1, <3>1 DEF DrainQueue
    <3>3. pendingQueue \in Seq(Items) /\ Distinct(pendingQueue)
      BY DEF AgentShape, WorkInv, QueueInv
    <3>4. /\ Kept(pendingQueue, K) \in Seq(Items)
          /\ \A k \in DOMAIN Kept(pendingQueue, K) : Kept(pendingQueue, K)[k] \in K
      BY <3>3, KeptCounts
    <3>5. Distinct(Kept(pendingQueue, K))
      BY <3>3, KeptFrom
    <3> QED
      BY <3>1, <3>2, <3>4, <3>5
  <2>5. splits \in [Items -> SplitRecord] /\ cycles \in [Slots -> InProgress]
    BY DEF AgentShape
  <2>6. /\ splits' \in [Items -> SplitRecord]
        /\ \A j \in Items : /\ splits'[j].credited = splits[j].credited
                            /\ splits'[j].status = IF rest # <<>> /\ j = Head(rest)
                                                   THEN "processing" ELSE splits[j].status
    BY <2>3, <2>4, <2>5, ProcessingIs
  <2>7. PICK c : c = Process(TRUE, rest)
    OBVIOUS
  <2>8. /\ c \in InProgress /\ (rest = <<>> => c.op = "none")
        /\ rest # <<>> => c.op = "drain" /\ c.loop = TRUE /\ c.now = Head(rest)
                          /\ c.rest = Tail(rest) /\ c.step = "persist"
    BY <2>4, <2>7, ProcessIs
  <2>9. /\ cycles' \in [Slots -> InProgress] /\ cycles'[s] = c
        /\ \A t \in Slots : t # s => cycles'[t] = cycles[t]
        /\ Looping' = IF c.op \in {"cycle", "drain"} /\ c.loop
                      THEN Looping \cup {s} ELSE Looping \ {s}
    BY <2>2, <2>5, <2>7, <2>8, LoopingAfter
  <2>10. AgentShape'
    BY <1>1, <1>4, <2>3, <2>6, <2>9 DEF AgentShape
  <2>11. ASSUME ~crossed'
         PROVE  /\ beats' = Counted(beatHandle') /\ timers' = Counted(timerHandle')
                /\ timers' > 0 => Looping' = {}
                /\ \A t, u \in Looping' : t = u
    <3>1. Looping' \subseteq {s}
      BY <1>2, <2>9, <2>11
    <3>2. timers' = 0 /\ beats' = 1 /\ ~timerHandle'
      BY <1>1, <1>2, <2>3, <2>11
    <3> QED
      BY <1>1, <3>1, <3>2 DEF Counted
  <2>12. LoopInv'
    <3>1. (timerHandle' => timers' > 0) /\ beats' > 0
      BY <1>1, <2>3 DEF LoopInv
    <3> QED
      BY <1>1, <1>4, <2>11, <3>1 DEF LoopInv
  <2>13. QueueInv'
    <3>1. \A k \in DOMAIN pendingQueue : pendingQueue[k] \in Items
                                         /\ splits[pendingQueue[k]].status # "none"
      BY DEF AgentShape, WorkInv, QueueInv
    <3>2. Distinct(pendingQueue')
      BY <1>1 DEF WorkInv, QueueInv
    <3>3. \A k \in DOMAIN pendingQueue : splits'[pendingQueue[k]].status # "none"
      BY <2>6, <3>1
    <3> QED
      BY <1>1, <3>2, <3>3 DEF QueueInv
  <2>14. CreditsFirst'
    <3>1. \A i \in Items : splits[i].status = "settled" => splits[i].credited >= 1
      BY DEF WorkInv, CreditsFirst
    <3>2. \A i \in Items : splits'[i].status = "settled" => splits'[i].credited >= 1
      BY <2>6, <3>1
    <3>3. ASSUME NEW t \in Slots, cycles'[t].op = "drain", cycles'[t].step = "notify"
          PROVE  splits'[cycles'[t].now].credited >= 1
      <4>1. t # s
        BY <2>8, <2>9, <3>3
      <4>2. cycles'[t] = cycles[t] /\ cycles[t].now \in Items
        BY <2>5, <2>9, <3>3, <4>1, DrainIs
      <4>3. splits[cycles[t].now].credited >= 1
        BY <3>3, <4>2 DEF WorkInv, CreditsFirst
      <4> QED
        BY <2>6, <4>2, <4>3
    <3> QED
      BY <3>2, <3>3 DEF CreditsFirst
  <2>15. ASSUME ~crossed' PROVE SplitsOnce'
    <3>1. SplitsOnce /\ Looping = {}
      BY <1>2, <2>15 DEF WorkInv
    <3>2. \A t \in Slots : cycles[t].op = "drain" => cycles[t].rest = <<>>
      BY <3>1 DEF SplitsOnce, Settling, Looping
    <3>3. PICK l \in BOOLEAN : l = TRUE
      OBVIOUS
    <3>4. \A t \in Slots : t # s => Settling(splits, cycles[t])
      BY <3>1 DEF SplitsOnce
    <3>5. \A t, u \in Slots : t # s /\ u # s /\ cycles[t].op = "drain" /\ cycles[u].op = "drain"
                              /\ cycles[t].now = cycles[u].now => t = u
      BY <3>1 DEF SplitsOnce
    <3>6. \A j \in Items : /\ splits[j].credited <= 1
                           /\ splits[j].status \in {"none", "pending"} => splits[j].credited = 0
      BY <3>1 DEF SplitsOnce
    <3>7. \A t \in Slots : t # s /\ cycles[t].op = "drain" /\ rest # <<>> =>
            \A k \in DOMAIN cycles[t].rest : cycles[t].rest[k] # Head(rest)
      BY <3>2
    <3>8. c = Process(l, rest) /\ cycles' = [cycles EXCEPT ![s] = c] /\ (~l => Len(rest) <= 1)
      BY <2>2, <2>7, <3>3
    <3>9. Ready(s, l, rest, splits)
      BY <2>4, <3>4, <3>5, <3>6, <3>7, <3>8 DEF Ready
    <3>10. Takes(s, c, rest, splits)
      BY <2>6, <3>8 DEF Takes
    <3> QED
      BY <2>4, <2>5, <3>8, <3>9, <3>10, NextSplit
  <2> QED
    BY <1>1, <2>10, <2>12, <2>13, <2>14, <2>15 DEF WorkInv
<1> QED
  BY <1>3, <1>4

LEMMA QueueSplitStep ==
  ASSUME AgentShape, LoopInv, WorkInv, NEW s \in Slots, NEW i \in Items, QueueSplit(s, i)
  PROVE  AgentShape' /\ LoopInv' /\ WorkInv' /\ proposals' = proposals
<1>1. /\ agentKind = "treasury" /\ splits[i].status = "none" /\ cycles[s] = Free
      /\ pendingQueue' = Append(pendingQueue, i) /\ proposals' = proposals
      /\ agentKind' = agentKind /\ agentStatus' = agentStatus /\ beats' = beats
      /\ beatHandle' = beatHandle /\ timers' = timers /\ timerHandle' = timerHandle
      /\ crossed' = crossed /\ interrupted' = interrupted
      /\ splits \in [Items -> SplitRecord] /\ cycles \in [Slots -> InProgress]
      /\ pendingQueue \in Seq(Items)
  BY DEF QueueSplit, lifeVars, AgentShape
<1>2. PICK rest \in Seq(Items) : rest = IF agentStatus = "working" THEN <<i>> ELSE <<>>
  <2>1. <<i>> \in Seq(Items) /\ <<>> \in Seq(Items)
    OBVIOUS
  <2> QED
    BY <2>1
<1>3. cycles' = [cycles EXCEPT ![s] = Process(FALSE, rest)]
  BY <1>1, <1>2 DEF QueueSplit, Process
<1>4. PICK mid : mid = [splits EXCEPT ![i].status = "pending"]
  OBVIOUS
<1>5. /\ mid \in [Items -> SplitRecord]
      /\ \A j \in Items : /\ mid[j].credited = splits[j].credited
                          /\ mid[j].status = IF j = i THEN "pending" ELSE splits[j].status
  <2>1. "pending" \in Statuses
    BY DEF Statuses
  <2> QED
    BY <1>1, <1>4, <2>1, StatusIs
<1>6. ASSUME agentStatus = "working"
      PROVE  /\ splits' \in [Items -> SplitRecord]
             /\ \A j \in Items :
                  /\ splits'[j].credited = splits[j].credited
                  /\ splits'[j].status = IF j = i THEN "processing" ELSE splits[j].status
  <2>1. rest # <<>> /\ Head(rest) = i
    BY <1>2, <1>6
  <2>2. splits' = Processing(splits, rest)
    BY <1>6, <2>1 DEF QueueSplit, Processing
  <2> QED
    BY <1>1, <2>1, <2>2, ProcessingIs
<1>7. ASSUME agentStatus # "working" PROVE splits' = mid
  BY <1>4, <1>7 DEF QueueSplit
<1>8. /\ splits' \in [Items -> SplitRecord]
      /\ \A j \in Items : /\ splits'[j].credited = splits[j].credited
                          /\ j # i => splits'[j].status = splits[j].status
                          /\ splits'[i].status \in {"processing", "pending"}
  BY <1>5, <1>6, <1>7
<1>9. PICK c : c = Process(FALSE, rest)
  OBVIOUS
<1>10. /\ c \in InProgress /\ (rest = <<>> => c.op = "none")
       /\ rest # <<>> => c.op = "drain" /\ c.loop = FALSE /\ c.now = Head(rest)
                         /\ c.rest = Tail(rest) /\ c.step = "persist"
  BY <1>9, ProcessIs
<1>11. Append(pendingQueue, i) \in Seq(Items)
  BY <1>1
<1>12. AgentShape' /\ LoopInv'
  <2>1. c.op # "cycle" /\ (c.op = "drain" /\ c.loop => s \in Looping)
    BY <1>10
  <2> QED
    BY <1>1, <1>3, <1>8, <1>9, <1>10, <1>11, <2>1, DrainLife
<1>13. \A k \in DOMAIN pendingQueue : pendingQueue[k] \in Items /\ pendingQueue[k] # i
                                      /\ splits[pendingQueue[k]].status # "none"
  BY <1>1 DEF WorkInv, QueueInv
<1>14. QueueInv'
  <2>1. PICK n \in Nat : n = Len(pendingQueue)
    BY <1>1
  <2>2. PICK q : q = Append(pendingQueue, i)
    OBVIOUS
  <2>3. /\ DOMAIN pendingQueue = 1..n /\ DOMAIN q = 1..(n + 1) /\ q[n + 1] = i
        /\ \A k \in 1..n : q[k] = pendingQueue[k]
    BY <1>1, <2>1, <2>2
  <2>4. \A k \in 1..(n + 1) : k \in 1..n \/ k = n + 1
    OBVIOUS
  <2>5. Distinct(pendingQueue)
    BY DEF WorkInv, QueueInv
  <2>6. Distinct(q)
    BY <1>13, <2>3, <2>4, <2>5 DEF Distinct
  <2>7. \A k \in DOMAIN q : splits'[q[k]].status # "none"
    BY <1>8, <1>13, <2>3, <2>4
  <2> QED
    BY <1>1, <2>2, <2>6, <2>7 DEF QueueInv
<1>15. cycles'[s] = c /\ \A t \in Slots : t # s => cycles'[t] = cycles[t]
  BY <1>1, <1>3, <1>9
<1>16. CreditsFirst'
  <2>1. \A j \in Items : splits[j].status = "settled" => splits[j].credited >= 1
    BY DEF WorkInv, CreditsFirst
  <2>2. \A j \in Items : splits'[j].status = "settled" => splits'[j].credited >= 1
    BY <1>8, <2>1
  <2>3. ASSUME NEW t \in Slots, cycles'[t].op = "drain", cycles'[t].step = "notify"
        PROVE  splits'[cycles'[t].now].credited >= 1
    <3>1. t # s
      BY <1>10, <1>15, <2>3
    <3>2. cycles'[t] = cycles[t] /\ cycles[t].now \in Items
      BY <1>1, <1>15, <2>3, <3>1, DrainIs
    <3>3. splits[cycles[t].now].credited >= 1
      BY <2>3, <3>2 DEF WorkInv, CreditsFirst
    <3> QED
      BY <1>8, <3>2, <3>3
  <2> QED
    BY <2>2, <2>3 DEF CreditsFirst
<1>17. ASSUME ~crossed' PROVE SplitsOnce'
  <2>1. SplitsOnce
    BY <1>1, <1>17 DEF WorkInv
  <2>2. \A j \in Items : /\ mid[j].credited <= 1
                         /\ mid[j].status \in {"none", "pending"} => mid[j].credited = 0
    BY <1>1, <1>5, <2>1 DEF SplitsOnce
  <2>3. ASSUME NEW t \in Slots, cycles[t].op = "drain"
        PROVE  /\ cycles[t].now \in Items /\ cycles[t].now # i
               /\ \A k \in DOMAIN cycles[t].rest : cycles[t].rest[k] \in Items /\ cycles[t].rest[k] # i
    <3>1. /\ splits[cycles[t].now].status = "processing"
          /\ \A k \in DOMAIN cycles[t].rest : splits[cycles[t].rest[k]].status = "pending"
      BY <2>1, <2>3 DEF SplitsOnce, Settling
    <3>2. cycles[t].now \in Items /\ cycles[t].rest \in Seq(Items)
      BY <1>1, <2>3, DrainIs
    <3> QED
      BY <1>1, <3>1, <3>2
  <2>4. ASSUME NEW t \in Slots PROVE Settling(mid, cycles[t])
    <3>1. Settling(splits, cycles[t])
      BY <2>1 DEF SplitsOnce
    <3> QED
      BY <1>5, <2>3, <3>1 DEF Settling
  <2>5. /\ Distinct(rest) /\ Len(rest) <= 1
        /\ \A k \in DOMAIN rest : mid[rest[k]].status = "pending"
        /\ rest # <<>> => Head(rest) = i
    <3>1. CASE agentStatus = "working"
      <4>1. rest = <<i>> /\ DOMAIN rest = {1} /\ Len(rest) = 1 /\ rest[1] = i /\ Head(rest) = i
        BY <1>2, <3>1
      <4> QED
        BY <1>5, <4>1 DEF Distinct
    <3>2. CASE agentStatus # "working"
      BY <1>2, <3>2 DEF Distinct
    <3> QED
      BY <3>1, <3>2
  <2>6. \A j \in Items : /\ splits'[j].credited = mid[j].credited
                         /\ splits'[j].status = IF rest # <<>> /\ j = Head(rest)
                                                THEN "processing" ELSE mid[j].status
    <3>1. CASE agentStatus = "working"
      <4>1. rest # <<>> /\ Head(rest) = i
        BY <1>2, <3>1
      <4> QED
        BY <1>5, <1>6, <3>1, <4>1
    <3>2. CASE agentStatus # "working"
      <4>1. rest = <<>>
        BY <1>2, <3>2
      <4> QED
        BY <1>7, <3>2, <4>1
    <3> QED
      BY <3>1, <3>2
  <2>7. \A t, u \in Slots : t # s /\ u # s /\ cycles[t].op = "drain" /\ cycles[u].op = "drain"
                            /\ cycles[t].now = cycles[u].now => t = u
    BY <2>1 DEF SplitsOnce
  <2>8. \A t \in Slots : t # s /\ cycles[t].op = "drain" /\ rest # <<>> =>
           \A k \in DOMAIN cycles[t].rest : cycles[t].rest[k] # Head(rest)
    BY <2>3, <2>5
  <2> QED
    <3>1. PICK l \in BOOLEAN : l = FALSE
      OBVIOUS
    <3>2. c = Process(l, rest) /\ cycles' = [cycles EXCEPT ![s] = c] /\ (~l => Len(rest) <= 1)
      BY <1>3, <1>9, <2>5, <3>1
    <3>3. Ready(s, l, rest, mid)
      BY <2>2, <2>4, <2>5, <2>7, <2>8, <3>2 DEF Ready
    <3>4. Takes(s, c, rest, mid)
      BY <1>8, <2>6, <3>2 DEF Takes
    <3> QED
      BY <1>1, <1>5, <3>2, <3>3, <3>4, NextSplit
<1> QED
  BY <1>1, <1>12, <1>14, <1>16, <1>17 DEF WorkInv

\* In mid, split i is settled or has failed, and the others are as they were.
Parted(i, mid) ==
  \A j \in Items : /\ mid[j].credited = splits[j].credited
                   /\ j # i => mid[j].status = splits[j].status
                   /\ j = i => mid[j].status \in {"settled", "failed"}

\* What holds of a split whatever happens to the others: the splits of the other slots are not
\* the one this slot lets go.
LEMMA LetGo ==
  ASSUME AgentShape, LoopInv, SplitsOnce, ~crossed, NEW s \in Slots, cycles[s].op = "drain",
         NEW rest \in Seq(Items), rest = cycles[s].rest,
         NEW loop \in BOOLEAN, loop = cycles[s].loop,
         NEW i \in Items, i = cycles[s].now,
         NEW mid \in [Items -> SplitRecord], Parted(i, mid)
  PROVE  Ready(s, loop, rest, mid)
<1> USE DEF Parted
<1>1. /\ cycles \in [Slots -> InProgress] /\ splits \in [Items -> SplitRecord]
  BY DEF AgentShape
<1>6. /\ splits[i].status = "processing" /\ (~loop => rest = <<>>) /\ Distinct(rest)
      /\ \A k \in DOMAIN rest : splits[rest[k]].status = "pending"
  BY DEF SplitsOnce, Settling
<1>7. \A k \in DOMAIN rest : mid[rest[k]].status = "pending"
  <2> SUFFICES ASSUME NEW k \in DOMAIN rest PROVE mid[rest[k]].status = "pending"
    OBVIOUS
  <2>1. rest[k] \in Items
    OBVIOUS
  <2> QED
    BY <1>6, <2>1
<1>8. \A j \in Items : /\ mid[j].credited <= 1
                       /\ mid[j].status \in {"none", "pending"} => mid[j].credited = 0
  BY DEF SplitsOnce
<1>9. ASSUME NEW t \in Slots, t # s, cycles[t].op = "drain"
      PROVE  /\ cycles[t].now \in Items /\ cycles[t].now # i
             /\ \A k \in DOMAIN cycles[t].rest : cycles[t].rest[k] \in Items /\ cycles[t].rest[k] # i
  <2>1. \A k \in DOMAIN cycles[t].rest : splits[cycles[t].rest[k]].status = "pending"
    BY <1>9 DEF SplitsOnce, Settling
  <2>2. cycles[t].now \in Items /\ cycles[t].rest \in Seq(Items)
    BY <1>1, <1>9, DrainIs
  <2>3. cycles[t].now # i
    BY <1>9 DEF SplitsOnce
  <2> QED
    BY <1>6, <2>1, <2>2, <2>3
<1>10. \A t \in Slots : t # s => Settling(mid, cycles[t])
  <2> SUFFICES ASSUME NEW t \in Slots, t # s PROVE Settling(mid, cycles[t])
    OBVIOUS
  <2>1. Settling(splits, cycles[t])
    BY DEF SplitsOnce
  <2> QED
    BY <1>9, <2>1 DEF Settling
<1>11. \A t, u \in Slots : t # s /\ u # s /\ cycles[t].op = "drain" /\ cycles[u].op = "drain"
                           /\ cycles[t].now = cycles[u].now => t = u
  BY DEF SplitsOnce
<1>12. \A t \in Slots : t # s /\ cycles[t].op = "drain" /\ rest # <<>> =>
         \A k \in DOMAIN cycles[t].rest : cycles[t].rest[k] # Head(rest)
  <2> SUFFICES ASSUME NEW t \in Slots, t # s, cycles[t].op = "drain", rest # <<>>
               PROVE  cycles[t].rest = <<>>
    OBVIOUS
  <2>1. s \in Looping
    BY <1>6 DEF Looping
  <2>2. t \notin Looping
    BY <2>1 DEF LoopInv
  <2>3. ~cycles[t].loop
    BY <2>2 DEF Looping
  <2> QED
    BY <2>3 DEF SplitsOnce, Settling
<1>13. ~loop => Len(rest) <= 1
  BY <1>6
<1> QED
  BY <1>6, <1>7, <1>8, <1>10, <1>11, <1>12, <1>13 DEF Ready

\* A slot that lets its split go, and takes up the next, leaves every credit in its place.
LEMMA CreditsKept ==
  ASSUME AgentShape, CreditsFirst, NEW s \in Slots, NEW c \in InProgress,
         cycles' = [cycles EXCEPT ![s] = c], ~(c.op = "drain" /\ c.step = "notify"),
         \A j \in Items : /\ splits'[j].credited = splits[j].credited
                          /\ splits'[j].status = "settled" => splits[j].credited >= 1
  PROVE  CreditsFirst'
<1>1. cycles \in [Slots -> InProgress] /\ cycles'[s] = c
      /\ \A t \in Slots : t # s => cycles'[t] = cycles[t]
  BY DEF AgentShape
<1>2. ASSUME NEW t \in Slots, cycles'[t].op = "drain", cycles'[t].step = "notify"
      PROVE  splits'[cycles'[t].now].credited >= 1
  <2>1. cycles'[t] = cycles[t]
    BY <1>1, <1>2
  <2>2. cycles[t].now \in Items /\ splits[cycles[t].now].credited >= 1
    BY <1>1, <1>2, <2>1, DrainIs DEF CreditsFirst
  <2> QED
    BY <2>1, <2>2
<1> QED
  BY <1>2 DEF CreditsFirst

\* A split that fails.
LEMMA SplitFails ==
  ASSUME AgentShape, LoopInv, WorkInv, NEW s \in Slots,
         NEW step \in {"persist", "credit", "notify"}, SplitStep(s, step, FALSE)
  PROVE  AgentShape' /\ LoopInv' /\ WorkInv' /\ proposals' = proposals
<1>1. /\ cycles[s].op = "drain" /\ cycles[s].step = step
      /\ cycles \in [Slots -> InProgress] /\ splits \in [Items -> SplitRecord]
      /\ pendingQueue \in Seq(Items)
  BY DEF SplitStep, AgentShape
<1>2. PICK rest \in Seq(Items) : rest = cycles[s].rest
  BY <1>1, DrainIs
<1>3. PICK loop \in BOOLEAN : loop = cycles[s].loop
  BY <1>1, DrainIs
<1>4. PICK i \in Items : i = cycles[s].now
  BY <1>1, DrainIs
<1>5. PICK mid : mid = [splits EXCEPT ![i].status = "failed"]
  OBVIOUS
<1>6. /\ agentStatus' = "error" /\ interrupted' = TRUE /\ pendingQueue' = pendingQueue
      /\ splits' = Processing(mid, rest)
      /\ cycles' = [cycles EXCEPT ![s] = Process(loop, rest)]
      /\ agentKind' = agentKind /\ beats' = beats /\ beatHandle' = beatHandle /\ timers' = timers
      /\ timerHandle' = timerHandle /\ crossed' = crossed /\ proposals' = proposals
  <2>1. [splits EXCEPT ![cycles[s].now].status = IF FALSE THEN @ ELSE "failed"] = mid
    BY <1>4, <1>5
  <2>2. /\ agentStatus' = "error" /\ interrupted' = TRUE /\ pendingQueue' = pendingQueue
        /\ splits' = Processing([splits EXCEPT ![cycles[s].now].status =
                                   IF FALSE THEN @ ELSE "failed"], cycles[s].rest)
        /\ cycles' = [cycles EXCEPT ![s] = Process(@.loop, @.rest)]
    BY DEF SplitStep
  <2>3. cycles' = [cycles EXCEPT ![s] = Process(loop, rest)]
    BY <1>1, <1>2, <1>3, <2>2
  <2> QED
    BY <1>2, <2>1, <2>2, <2>3 DEF SplitStep
<1>7. /\ mid \in [Items -> SplitRecord]
      /\ \A j \in Items : /\ mid[j].credited = splits[j].credited
                          /\ mid[j].status = IF j = i THEN "failed" ELSE splits[j].status
  <2>1. "failed" \in Statuses
    BY DEF Statuses
  <2> QED
    BY <1>1, <1>5, <2>1, StatusIs
<1>8. /\ splits' \in [Items -> SplitRecord]
      /\ \A j \in Items : /\ splits'[j].credited = mid[j].credited
                          /\ splits'[j].status = IF rest # <<>> /\ j = Head(rest)
                                                 THEN "processing" ELSE mid[j].status
  BY <1>2, <1>6, <1>7, ProcessingIs
<1>9. PICK c : c = Process(loop, rest)
  OBVIOUS
<1>10. /\ c \in InProgress /\ c.op \in {"none", "drain"}
       /\ c.op = "drain" => c.loop = loop /\ c.step = "persist"
  BY <1>9, ProcessIs
<1>11. AgentShape' /\ LoopInv'
  <2>1. c.op # "cycle" /\ (c.op = "drain" /\ c.loop => s \in Looping)
    BY <1>1, <1>3, <1>10 DEF Looping
  <2>2. agentKind = "treasury"
    BY <1>1 DEF AgentShape
  <2> QED
    BY <1>1, <1>6, <1>8, <1>9, <1>10, <2>1, <2>2, DrainLife
<1>12. QueueInv'
  <2>1. \A k \in DOMAIN pendingQueue : pendingQueue[k] \in Items
                                       /\ splits[pendingQueue[k]].status # "none"
    BY <1>1 DEF WorkInv, QueueInv
  <2>2. \A k \in DOMAIN pendingQueue : splits'[pendingQueue[k]].status # "none"
    BY <1>7, <1>8, <2>1
  <2>3. Distinct(pendingQueue')
    BY <1>6 DEF WorkInv, QueueInv
  <2> QED
    BY <1>6, <2>2, <2>3 DEF QueueInv
<1>13. CreditsFirst'
  <2>1. \A j \in Items : splits[j].status = "settled" => splits[j].credited >= 1
    BY DEF WorkInv, CreditsFirst
  <2>2. \A j \in Items : /\ splits'[j].credited = splits[j].credited
                         /\ splits'[j].status = "settled" => splits[j].credited >= 1
    BY <1>7, <1>8, <2>1
  <2>3. CreditsFirst /\ cycles' = [cycles EXCEPT ![s] = c] /\ ~(c.op = "drain" /\ c.step = "notify")
    BY <1>6, <1>9, <1>10 DEF WorkInv
  <2> QED
    BY <1>10, <2>2, <2>3, CreditsKept
<1>14. ASSUME ~crossed' PROVE SplitsOnce'
  <2>1. ~crossed /\ SplitsOnce
    BY <1>6, <1>14 DEF WorkInv
  <2>2. Parted(i, mid)
    BY <1>7 DEF Parted
  <2>3. Ready(s, loop, rest, mid)
    BY <1>1, <1>2, <1>3, <1>4, <1>7, <2>1, <2>2, LetGo
  <2>4. Takes(s, c, rest, mid)
    BY <1>6, <1>8, <1>9 DEF Takes
  <2> QED
    BY <1>1, <1>7, <1>9, <2>3, <2>4, NextSplit
<1> QED
  BY <1>6, <1>11, <1>12, <1>13, <1>14 DEF WorkInv

\* A split that is persisted, or credited, and goes on to what is next.
LEMMA SplitAdvances ==
  ASSUME AgentShape, LoopInv, WorkInv, NEW s \in Slots,
         NEW step \in {"persist", "credit"}, SplitStep(s, step, TRUE)
  PROVE  AgentShape' /\ LoopInv' /\ WorkInv' /\ proposals' = proposals
<1>1. /\ cycles[s].op = "drain" /\ cycles[s].step = step
      /\ cycles \in [Slots -> InProgress] /\ splits \in [Items -> SplitRecord]
      /\ pendingQueue \in Seq(Items)
  BY DEF SplitStep, AgentShape
<1>2. PICK i \in Items : i = cycles[s].now
  BY <1>1, DrainIs
<1>3. PICK after \in {"credit", "notify"} : after = IF step = "persist" THEN "credit" ELSE "notify"
  OBVIOUS
<1>4. PICK n \in {0, 1} : n = IF step = "persist" THEN 0 ELSE 1
  OBVIOUS
<1>5. PICK c : c = [cycles[s] EXCEPT !.step = after]
  OBVIOUS
<1>6. /\ c \in Drains /\ c.op = "drain" /\ c.loop = cycles[s].loop /\ c.now = i
      /\ c.rest = cycles[s].rest /\ c.step = after
  <2>1. cycles[s] \in Drains
    BY <1>1, DrainIs
  <2> QED
    BY <1>2, <1>5, <2>1 DEF Drains
<1>7. PICK q : q = [splits[i] EXCEPT !.credited = @ + n]
  OBVIOUS
<1>8. /\ q \in SplitRecord /\ q.status = splits[i].status /\ q.credited = splits[i].credited + n
  <2>1. splits[i] \in SplitRecord
    BY <1>1
  <2>2. splits[i].credited + n \in Nat
    BY <2>1 DEF SplitRecord
  <2> QED
    BY <1>7, <2>1, <2>2 DEF SplitRecord
<1>9. /\ agentStatus' = agentStatus /\ interrupted' = interrupted /\ pendingQueue' = pendingQueue
      /\ cycles' = [cycles EXCEPT ![s] = c] /\ splits' = [splits EXCEPT ![i] = q]
      /\ agentKind' = agentKind /\ beats' = beats /\ beatHandle' = beatHandle /\ timers' = timers
      /\ timerHandle' = timerHandle /\ crossed' = crossed /\ proposals' = proposals
  <2>1. /\ agentStatus' = agentStatus /\ interrupted' = interrupted /\ pendingQueue' = pendingQueue
        /\ agentKind' = agentKind /\ beats' = beats /\ beatHandle' = beatHandle
        /\ timers' = timers /\ timerHandle' = timerHandle /\ crossed' = crossed
        /\ proposals' = proposals
    BY DEF SplitStep
  <2>2. cycles' = [cycles EXCEPT ![s] = c]
    <3>1. cycles' = [cycles EXCEPT ![s].step = [persist |-> "credit", credit |-> "notify"][step]]
      BY DEF SplitStep
    <3>2. [persist |-> "credit", credit |-> "notify"][step] = after
      BY <1>3
    <3> QED
      BY <1>5, <3>1, <3>2
  <2>3. splits' = [splits EXCEPT ![i] = q]
    <3>1. CASE step = "persist"
      <4>1. splits' = splits
        BY <3>1 DEF SplitStep
      <4>2. splits[i] \in SplitRecord /\ n = 0
        BY <1>1, <1>4, <3>1
      <4>3. q = splits[i]
        BY <1>7, <4>2 DEF SplitRecord
      <4> QED
        BY <1>1, <4>1, <4>3
    <3>2. CASE step = "credit"
      <4>1. splits' = [splits EXCEPT ![i].credited = @ + 1]
        BY <1>2, <3>2 DEF SplitStep
      <4>2. n = 1
        BY <1>4, <3>2
      <4> QED
        BY <1>1, <1>7, <4>1, <4>2
    <3> QED
      BY <3>1, <3>2
  <2> QED
    BY <2>1, <2>2, <2>3
<1>10. /\ splits' \in [Items -> SplitRecord]
       /\ \A j \in Items : /\ splits'[j].status = splits[j].status
                           /\ j # i => splits'[j] = splits[j]
       /\ splits'[i].credited = splits[i].credited + n
       /\ \A j \in Items : splits[j].credited \in Nat
  <2>1. \A j \in Items : splits[j].credited \in Nat
    BY <1>1 DEF SplitRecord
  <2> QED
    BY <1>1, <1>8, <1>9, <2>1
<1>11. cycles'[s] = c /\ \A t \in Slots : t # s => cycles'[t] = cycles[t]
  BY <1>1, <1>9
<1>12. AgentShape' /\ LoopInv'
  <2>1. c.op # "cycle" /\ (c.op = "drain" /\ c.loop => s \in Looping) /\ c \in InProgress
    BY <1>1, <1>6 DEF Looping, InProgress
  <2>2. agentKind = "treasury"
    BY <1>1 DEF AgentShape
  <2> QED
    BY <1>1, <1>9, <1>10, <2>1, <2>2, DrainLife
<1>13. QueueInv'
  <2>1. \A k \in DOMAIN pendingQueue : pendingQueue[k] \in Items
                                       /\ splits[pendingQueue[k]].status # "none"
    BY <1>1 DEF WorkInv, QueueInv
  <2>2. \A k \in DOMAIN pendingQueue : splits'[pendingQueue[k]].status # "none"
    BY <1>10, <2>1
  <2>3. Distinct(pendingQueue')
    BY <1>9 DEF WorkInv, QueueInv
  <2> QED
    BY <1>9, <2>2, <2>3 DEF QueueInv
<1>14. CreditsFirst'
  <2>1. \A j \in Items : splits'[j].credited \in Nat /\ splits'[j].credited >= splits[j].credited
    BY <1>10
  <2>2. \A j \in Items : splits'[j].status = "settled" => splits'[j].credited >= 1
    <3>1. \A j \in Items : splits[j].status = "settled" => splits[j].credited >= 1
      BY DEF WorkInv, CreditsFirst
    <3> QED
      BY <1>10, <2>1, <3>1
  <2>3. ASSUME NEW t \in Slots, cycles'[t].op = "drain", cycles'[t].step = "notify"
        PROVE  splits'[cycles'[t].now].credited >= 1
    <3>1. CASE t = s
      <4>1. after = "notify"
        BY <1>6, <1>11, <2>3, <3>1
      <4>2. n = 1
        BY <1>3, <1>4, <4>1
      <4> QED
        BY <1>6, <1>10, <1>11, <3>1, <4>2
    <3>2. CASE t # s
      <4>1. cycles'[t] = cycles[t] /\ cycles[t].now \in Items
        BY <1>1, <1>11, <2>3, <3>2, DrainIs
      <4>2. splits[cycles[t].now].credited >= 1
        BY <2>3, <4>1 DEF WorkInv, CreditsFirst
      <4>3. PICK j \in Items : j = cycles[t].now
        BY <4>1
      <4> QED
        BY <1>10, <2>1, <4>1, <4>2, <4>3
    <3> QED
      BY <3>1, <3>2
  <2> QED
    BY <2>2, <2>3 DEF CreditsFirst
<1>15. ASSUME ~crossed' PROVE SplitsOnce'
  <2>1. SplitsOnce
    BY <1>9, <1>15 DEF WorkInv
  <2>2. /\ splits[i].status = "processing" /\ splits[i].credited = 0
        /\ ~c.loop => c.rest = <<>>
        /\ Distinct(c.rest)
        /\ \A k \in DOMAIN c.rest : splits[c.rest[k]].status = "pending" /\ c.rest[k] \in Items
    <3>1. Settling(splits, cycles[s])
      BY <2>1 DEF SplitsOnce
    <3>2. step # "notify" /\ cycles[s].rest \in Seq(Items)
      BY <1>1, DrainIs
    <3> QED
      BY <1>1, <1>2, <1>6, <3>1, <3>2 DEF Settling
  <2>3. \A j \in Items : /\ splits'[j].credited <= 1
                         /\ splits'[j].status \in {"none", "pending"} => splits'[j].credited = 0
    <3> SUFFICES ASSUME NEW j \in Items
                 PROVE  /\ splits'[j].credited <= 1
                        /\ splits'[j].status \in {"none", "pending"} => splits'[j].credited = 0
      OBVIOUS
    <3>1. CASE j = i
      BY <1>10, <2>2, <3>1
    <3>2. CASE j # i
      BY <1>10, <2>1, <3>2 DEF SplitsOnce
    <3> QED
      BY <3>1, <3>2
  <2>4. Settling(splits', c)
    <3>1. after # "notify" => splits'[i].credited = 0
      BY <1>3, <1>4, <1>10, <2>2
    <3> QED
      BY <1>6, <1>10, <2>2, <3>1 DEF Settling
  <2>5. ASSUME NEW t \in Slots, t # s PROVE Settling(splits', cycles[t])
    <3> SUFFICES ASSUME cycles[t].op = "drain"
                 PROVE  /\ splits'[cycles[t].now].status = "processing"
                        /\ cycles[t].step # "notify" => splits'[cycles[t].now].credited = 0
                        /\ ~cycles[t].loop => cycles[t].rest = <<>>
                        /\ Distinct(cycles[t].rest)
                        /\ \A k \in DOMAIN cycles[t].rest :
                             splits'[cycles[t].rest[k]].status = "pending"
      BY DEF Settling
    <3>1. Settling(splits, cycles[t]) /\ cycles[t].now # i
      BY <1>1, <1>2, <2>1, <2>5 DEF SplitsOnce
    <3>2. cycles[t].now \in Items /\ cycles[t].rest \in Seq(Items)
      BY <1>1, DrainIs
    <3>3. splits'[cycles[t].now] = splits[cycles[t].now]
      BY <1>10, <3>1, <3>2
    <3>4. \A k \in DOMAIN cycles[t].rest : splits'[cycles[t].rest[k]].status = "pending"
      BY <1>10, <3>1, <3>2 DEF Settling
    <3> QED
      BY <3>1, <3>3, <3>4 DEF Settling
  <2>6. \A t \in Slots : Settling(splits, cycles[t])'
    BY <1>11, <2>4, <2>5
  <2>7. ASSUME NEW t \in Slots, NEW u \in Slots, cycles'[t].op = "drain", cycles'[u].op = "drain",
              cycles'[t].now = cycles'[u].now
        PROVE  t = u
    <3>1. \A v \in Slots : cycles'[v].op = cycles[v].op
                           /\ (cycles[v].op = "drain" => cycles'[v].now = cycles[v].now)
      BY <1>1, <1>2, <1>6, <1>11
    <3> QED
      BY <2>1, <2>7, <3>1 DEF SplitsOnce
  <2> QED
    BY <2>3, <2>6, <2>7 DEF SplitsOnce
<1> QED
  BY <1>9, <1>12, <1>13, <1>14, <1>15 DEF WorkInv

\* A split that is settled leaves the queue.
LEMMA SplitSettles ==
  ASSUME AgentShape, LoopInv, WorkInv, NEW s \in Slots, SplitStep(s, "notify", TRUE)
  PROVE  AgentShape' /\ LoopInv' /\ WorkInv' /\ proposals' = proposals
<1>1. /\ cycles[s].op = "drain" /\ cycles[s].step = "notify"
      /\ cycles \in [Slots -> InProgress] /\ splits \in [Items -> SplitRecord]
      /\ pendingQueue \in Seq(Items)
  BY DEF SplitStep, AgentShape
<1>2. PICK rest \in Seq(Items) : rest = cycles[s].rest
  BY <1>1, DrainIs
<1>3. PICK loop \in BOOLEAN : loop = cycles[s].loop
  BY <1>1, DrainIs
<1>4. PICK i \in Items : i = cycles[s].now
  BY <1>1, DrainIs
<1>5. PICK on : on = Processing(splits, rest)
  OBVIOUS
<1>6. PICK K : K = Items \ {i}
  OBVIOUS
<1>7. /\ agentStatus' = agentStatus /\ interrupted' = interrupted
      /\ pendingQueue' = Kept(pendingQueue, K)
      /\ splits' = [on EXCEPT ![i].status = "settled"]
      /\ cycles' = [cycles EXCEPT ![s] = Process(loop, rest)]
      /\ agentKind' = agentKind /\ beats' = beats /\ beatHandle' = beatHandle /\ timers' = timers
      /\ timerHandle' = timerHandle /\ crossed' = crossed /\ proposals' = proposals
  <2>1. [splits EXCEPT ![cycles[s].now].status = IF TRUE THEN @ ELSE "failed"] = splits
    <3>1. splits[i] \in SplitRecord
      BY <1>1
    <3>2. [splits[i] EXCEPT !.status = splits[i].status] = splits[i]
      BY <3>1 DEF SplitRecord
    <3> QED
      BY <1>1, <1>4, <3>2
  <2>2. /\ agentStatus' = agentStatus /\ interrupted' = interrupted
        /\ pendingQueue' = Kept(pendingQueue, Items \ {cycles[s].now})
        /\ splits' = [Processing([splits EXCEPT ![cycles[s].now].status =
                                    IF TRUE THEN @ ELSE "failed"], cycles[s].rest)
                        EXCEPT ![cycles[s].now].status = "settled"]
        /\ cycles' = [cycles EXCEPT ![s] = Process(@.loop, @.rest)]
    BY DEF SplitStep
  <2>3. cycles' = [cycles EXCEPT ![s] = Process(loop, rest)]
    BY <1>1, <1>2, <1>3, <2>2
  <2> QED
    BY <1>2, <1>4, <1>5, <1>6, <2>1, <2>2, <2>3 DEF SplitStep
<1>8. /\ on \in [Items -> SplitRecord]
      /\ \A j \in Items : /\ on[j].credited = splits[j].credited
                          /\ on[j].status = IF rest # <<>> /\ j = Head(rest)
                                            THEN "processing" ELSE splits[j].status
  BY <1>1, <1>5, ProcessingIs
<1>9. /\ splits' \in [Items -> SplitRecord]
      /\ \A j \in Items : /\ splits'[j].credited = on[j].credited
                          /\ splits'[j].status = IF j = i THEN "settled" ELSE on[j].status
  <2>1. "settled" \in Statuses
    BY DEF Statuses
  <2>2. PICK r : r = splits'
    OBVIOUS
  <2>3. r = [on EXCEPT ![i].status = "settled"]
    BY <1>7, <2>2
  <2>4. /\ r \in [Items -> SplitRecord]
        /\ \A j \in Items : /\ r[j].credited = on[j].credited
                            /\ r[j].status = IF j = i THEN "settled" ELSE on[j].status
    BY <1>8, <2>1, <2>3, StatusIs
  <2> QED
    BY <2>2, <2>4
<1>10. PICK c : c = Process(loop, rest)
  OBVIOUS
<1>11. /\ c \in InProgress /\ c.op \in {"none", "drain"}
       /\ c.op = "drain" => c.loop = loop /\ c.step = "persist"
  BY <1>10, ProcessIs
<1>12. /\ Kept(pendingQueue, K) \in Seq(Items) /\ Distinct(Kept(pendingQueue, K))
       /\ \A k \in DOMAIN Kept(pendingQueue, K) :
            \E m \in DOMAIN pendingQueue : Kept(pendingQueue, K)[k] = pendingQueue[m]
  <2>1. pendingQueue \in Seq(Items) /\ Distinct(pendingQueue)
    BY <1>1 DEF WorkInv, QueueInv
  <2> QED
    BY <2>1, KeptCounts, KeptFrom
<1>13. AgentShape' /\ LoopInv'
  <2>1. c.op # "cycle" /\ (c.op = "drain" /\ c.loop => s \in Looping)
    BY <1>1, <1>3, <1>11 DEF Looping
  <2>2. agentKind = "treasury"
    BY <1>1 DEF AgentShape
  <2> QED
    BY <1>1, <1>7, <1>9, <1>10, <1>11, <1>12, <2>1, <2>2, DrainLife
<1>14. QueueInv'
  <2>1. \A k \in DOMAIN pendingQueue : pendingQueue[k] \in Items
                                       /\ splits[pendingQueue[k]].status # "none"
    BY <1>1 DEF WorkInv, QueueInv
  <2>2. \A k \in DOMAIN pendingQueue : splits'[pendingQueue[k]].status # "none"
    BY <1>8, <1>9, <2>1
  <2>3. \A k \in DOMAIN Kept(pendingQueue, K) : splits'[Kept(pendingQueue, K)[k]].status # "none"
    BY <1>12, <2>2
  <2> QED
    BY <1>7, <1>12, <2>3 DEF QueueInv
<1>15. CreditsFirst'
  <2>1. /\ \A j \in Items : splits[j].status = "settled" => splits[j].credited >= 1
        /\ splits[i].credited >= 1
    BY <1>1, <1>4 DEF WorkInv, CreditsFirst
  <2>2. \A j \in Items : /\ splits'[j].credited = splits[j].credited
                         /\ splits'[j].status = "settled" => splits[j].credited >= 1
    BY <1>8, <1>9, <2>1
  <2>3. CreditsFirst /\ cycles' = [cycles EXCEPT ![s] = c] /\ ~(c.op = "drain" /\ c.step = "notify")
    BY <1>7, <1>10, <1>11 DEF WorkInv
  <2> QED
    BY <1>11, <2>2, <2>3, CreditsKept
<1>16. ASSUME ~crossed' PROVE SplitsOnce'
  <2>1. ~crossed /\ SplitsOnce
    BY <1>7, <1>16 DEF WorkInv
  <2>2. PICK mid : mid = [splits EXCEPT ![i].status = "settled"]
    OBVIOUS
  <2>3. /\ mid \in [Items -> SplitRecord]
        /\ \A j \in Items : /\ mid[j].credited = splits[j].credited
                            /\ mid[j].status = IF j = i THEN "settled" ELSE splits[j].status
    <3>1. "settled" \in Statuses
      BY DEF Statuses
    <3> QED
      BY <1>1, <2>2, <3>1, StatusIs
  <2>4. Parted(i, mid)
    BY <2>3 DEF Parted
  <2>5. Ready(s, loop, rest, mid)
    BY <1>1, <1>2, <1>3, <1>4, <2>1, <2>3, <2>4, LetGo
  <2>6. rest # <<>> => Head(rest) # i
    <3> SUFFICES ASSUME rest # <<>> PROVE Head(rest) # i
      OBVIOUS
    <3>1. 1 \in DOMAIN rest /\ rest[1] = Head(rest)
      OBVIOUS
    <3>2. mid[rest[1]].status = "pending"
      BY <2>5, <3>1 DEF Ready
    <3> QED
      BY <2>3, <3>1, <3>2
  <2>7. Takes(s, c, rest, mid)
    <3>1. cycles' = [cycles EXCEPT ![s] = c]
      BY <1>7, <1>10
    <3> QED
      BY <1>8, <1>9, <2>3, <2>6, <3>1 DEF Takes
  <2> QED
    BY <1>1, <1>10, <2>3, <2>5, <2>7, NextSplit
<1> QED
  BY <1>7, <1>13, <1>14, <1>15, <1>16 DEF WorkInv

LEMMA AgentStepInv == AgentInv /\ [AgentNext]_agentVars => AgentInv'
<1> SUFFICES ASSUME AgentInv, [AgentNext]_agentVars PROVE AgentInv'
  OBVIOUS
<1>1. AgentShape /\ LoopInv /\ WorkInv /\ PollsInv
  BY DEF AgentInv
<1>2. proposals \in [Proposals -> Proposal]
  BY <1>1 DEF AgentShape
\* It is enough that a step keeps the loop and the splits, and the polls alone or by PollsStep.
<1>3. ASSUME AgentShape', LoopInv', WorkInv', proposals' = proposals PROVE AgentInv'
  BY <1>1, <1>3, PollsStep DEF AgentInv
<1>4. ASSUME UNCHANGED <<lifeVars, cycles, splits, pendingQueue>>, proposals' = proposals
      PROVE  AgentInv'
  <2>1. AgentShape' /\ LoopInv' /\ WorkInv'
    BY <1>1, <1>2, <1>4, AsideStep
  <2> QED
    BY <1>3, <1>4, <2>1
<1>5. CASE UNCHANGED agentVars
  BY <1>4, <1>5 DEF agentVars, dataVars
<1>6. CASE Start
  BY <1>1, <1>3, <1>6, StartStep
<1>7. CASE Stop \/ Pause \/ Resume
  BY <1>1, <1>3, <1>7, LifecycleStep
<1>8. ASSUME NEW i \in Items, ResolveThreat(i) PROVE AgentInv'
  BY <1>4, <1>8 DEF ResolveThreat
<1>9. ASSUME NEW i \in Items, NEW w \in JobWorkers, RouteManually(i, w) PROVE AgentInv'
  BY <1>4, <1>9 DEF RouteManually
<1>10. ASSUME NEW i \in Proposals,
              ProposalExpires(i) \/ \E yes \in BOOLEAN : ProposalVote(i, yes)
       PROVE  AgentInv'
  <2>1. proposals' \in [Proposals -> Proposal] /\ PollsInv'
    BY <1>1, <1>10, PollsStep
  <2>2. UNCHANGED <<lifeVars, cycles, splits, pendingQueue>>
    BY <1>10 DEF ProposalExpires, ProposalVote
  <2>3. AgentShape' /\ LoopInv' /\ WorkInv'
    BY <1>1, <2>1, <2>2, AsideStep
  <2> QED
    BY <2>1, <2>3 DEF AgentInv
<1>11. ASSUME NEW s \in Slots, TimerFires(s) \/ CalledDirectly(s) PROVE AgentInv'
  BY <1>1, <1>3, <1>11, TimerStep
<1>12. ASSUME NEW s \in Slots, CycleFails(s) \/ CycleEnds(s) PROVE AgentInv'
  BY <1>1, <1>3, <1>12, CycleOverStep
<1>13. ASSUME NEW s \in Slots,
              \E items \in SUBSET (Items \cup Proposals), hands \in SUBSET JobWorkers :
                Fetched(s, items, hands)
       PROVE  AgentInv'
  <2>1. proposals' = proposals
    BY <1>13 DEF Fetched, dataVars
  <2>2. AgentShape' /\ LoopInv' /\ WorkInv'
    BY <1>1, <1>2, <1>13, <2>1, CycleWorkStep
  <2> QED
    BY <1>3, <2>1, <2>2
<1>14. ASSUME NEW s \in Slots, NEW i \in Items, LogThreat(s, i) \/ MatchJob(s, i)
       PROVE  AgentInv'
  <2>1. proposals' = proposals
    BY <1>14 DEF LogThreat, MatchJob
  <2>2. AgentShape' /\ LoopInv' /\ WorkInv'
    BY <1>1, <1>2, <1>14, <2>1, CycleWorkStep
  <2> QED
    BY <1>3, <2>1, <2>2
<1>15. ASSUME NEW s \in Slots, NEW i \in Proposals, EvaluateProposal(s, i) PROVE AgentInv'
  <2>1. proposals' \in [Proposals -> Proposal] /\ PollsInv'
    BY <1>1, <1>15, PollsStep
  <2>2. AgentShape' /\ LoopInv' /\ WorkInv'
    BY <1>1, <1>15, <2>1, CycleWorkStep
  <2> QED
    BY <2>1, <2>2 DEF AgentInv
<1>16. ASSUME NEW s \in Slots, NEW i \in Items, QueueSplit(s, i) PROVE AgentInv'
  BY <1>1, <1>3, <1>16, QueueSplitStep
<1>17. ASSUME NEW s \in Slots, NEW step \in {"persist", "credit", "notify"}, NEW ok \in BOOLEAN,
              SplitStep(s, step, ok)
       PROVE  AgentInv'
  <2>1. CASE ok = FALSE
    <3>1. SplitStep(s, step, FALSE)
      BY <1>17, <2>1
    <3> QED
      BY <1>1, <1>3, <3>1, SplitFails
  <2>2. CASE ok = TRUE /\ step \in {"persist", "credit"}
    <3>1. SplitStep(s, step, TRUE)
      BY <1>17, <2>2
    <3> QED
      BY <1>1, <1>3, <2>2, <3>1, SplitAdvances
  <2>3. CASE ok = TRUE /\ step = "notify"
    <3>1. SplitStep(s, "notify", TRUE)
      BY <1>17, <2>3
    <3> QED
      BY <1>1, <1>3, <3>1, SplitSettles
  <2> QED
    BY <2>1, <2>2, <2>3
\* What is fetched is some of the items, or of the proposals, with some of the workers.
<1>18. ASSUME NEW s \in Slots,
              \E items \in SUBSET IF agentKind = "dao" THEN Proposals ELSE Items,
                 hands \in IF agentKind = "routing" THEN SUBSET JobWorkers ELSE {{}} :
                Fetched(s, items, hands)
       PROVE  \E items \in SUBSET (Items \cup Proposals), hands \in SUBSET JobWorkers :
                Fetched(s, items, hands)
  <2>1. (IF agentKind = "dao" THEN Proposals ELSE Items) \subseteq Items \cup Proposals
    OBVIOUS
  <2>2. (IF agentKind = "routing" THEN SUBSET JobWorkers ELSE {{}}) \subseteq SUBSET JobWorkers
    OBVIOUS
  <2> QED
    BY <1>18, <2>1, <2>2
<1> QED
  BY <1>5, <1>6, <1>7, <1>8, <1>9, <1>10, <1>11, <1>12, <1>13, <1>14, <1>15, <1>16, <1>17, <1>18
     DEF AgentNext

\* Unless it was started across a run of before, an agent has one heartbeat and one loop and
\* credits a split once (agents/base.ts and the agents); a proposal is executed below its quorum
\* after its end only, and a large payment never (agents/dao-agent.ts).
THEOREM DoneOnceAlways == AgentSpec => []DoneOnce
BY AgentInitInv, AgentStepInv, AgentInvDone, PTL DEF AgentSpec

\* What AgentInv leaves open: the bounds of the intervals and the timers, and who was matched.
AgentBounded ==
  /\ beats <= MaxBeats /\ timers <= MaxTimers
  /\ matched \subseteq Items \X JobWorkers

LEMMA MatchedStep ==
  ASSUME AgentShape, AgentBounded, NEW s \in Slots, NEW j \in Items, MatchJob(s, j)
  PROVE  matched' \subseteq Items \X JobWorkers
<1>1. cycles[s] \in InProgress /\ cycles[s].op = "cycle" /\ cycles[s].step = "work"
  BY DEF MatchJob, Work, AgentShape
<1>2. cycles[s].free \subseteq JobWorkers
  BY <1>1 DEF InProgress, Free, Loops, Works, Drains
<1>3. \/ matched' = matched
      \/ \E w \in cycles[s].free : matched' = matched \cup {<<j, w>>}
  BY DEF MatchJob
<1> QED
  BY <1>2, <1>3 DEF AgentBounded

LEMMA AgentBoundedStep == AgentInv /\ AgentBounded /\ [AgentNext]_agentVars => AgentBounded'
<1> SUFFICES ASSUME AgentInv, AgentBounded, [AgentNext]_agentVars PROVE AgentBounded'
  OBVIOUS
<1>1. /\ AgentShape /\ beats \in Nat /\ timers \in Nat /\ MaxBeats \in Nat /\ MaxTimers \in Nat
      /\ Counted(beatHandle) \in {0, 1} /\ Counted(timerHandle) \in {0, 1}
  BY AgentAssumption DEF AgentInv, AgentShape, Counted
<1>2. ASSUME UNCHANGED <<beats, timers, matched>> PROVE AgentBounded'
  BY <1>2 DEF AgentBounded
<1>3. CASE Start
  <2>1. beats' = beats + 1 /\ beats < MaxBeats /\ matched' = matched
    BY <1>3 DEF Start
  <2>2. timers' = timers \/ (timers' = timers + 1 /\ timers < MaxTimers)
    BY <1>3 DEF Start
  <2> QED
    BY <1>1, <2>1, <2>2 DEF AgentBounded
<1>4. CASE Stop
  <2>1. /\ beats' = beats - Counted(beatHandle) /\ timers' = timers - Counted(timerHandle)
        /\ matched' = matched
    BY <1>4 DEF Stop, dataVars
  <2> QED
    BY <1>1, <2>1 DEF AgentBounded
<1>5. CASE Pause \/ Resume
  BY <1>2, <1>5 DEF Pause, Resume, dataVars
<1>6. ASSUME NEW i \in Items, ResolveThreat(i) PROVE AgentBounded'
  BY <1>2, <1>6 DEF ResolveThreat, lifeVars
<1>7. ASSUME NEW i \in Items, NEW w \in JobWorkers, RouteManually(i, w) PROVE AgentBounded'
  BY <1>7 DEF RouteManually, lifeVars, AgentBounded
<1>8. ASSUME NEW i \in Proposals, ProposalExpires(i) \/ \E yes \in BOOLEAN : ProposalVote(i, yes)
      PROVE  AgentBounded'
  BY <1>2, <1>8 DEF ProposalExpires, ProposalVote, lifeVars
<1>9. ASSUME NEW s \in Slots, TimerFires(s) PROVE AgentBounded'
  <2>1. beats' = beats /\ timers' = timers - 1 /\ matched' = matched
    BY <1>9 DEF TimerFires, dataVars
  <2> QED
    BY <1>1, <2>1 DEF AgentBounded
<1>10. ASSUME NEW s \in Slots, CalledDirectly(s) \/ CycleFails(s) PROVE AgentBounded'
  BY <1>2, <1>10 DEF CalledDirectly, CycleFails, lifeVars, dataVars
<1>11. ASSUME NEW s \in Slots, CycleEnds(s) PROVE AgentBounded'
  <2> DEFINE again == cycles[s].loop /\ agentStatus = "working"
  <2>1. /\ again => timers < MaxTimers
        /\ timers' = timers + Counted(again) /\ beats' = beats /\ matched' = matched
    BY <1>11 DEF CycleEnds, dataVars
  <2>2. Counted(again) = IF again THEN 1 ELSE 0
    BY DEF Counted
  <2> HIDE DEF again
  <2> QED
    BY <1>1, <2>1, <2>2 DEF AgentBounded
<1>12. ASSUME NEW s \in Slots, NEW items, NEW hands, Fetched(s, items, hands) PROVE AgentBounded'
  BY <1>2, <1>12 DEF Fetched, lifeVars, dataVars
<1>13. ASSUME NEW s \in Slots, NEW i \in Items, MatchJob(s, i) PROVE AgentBounded'
  <2>1. beats' = beats /\ timers' = timers
    BY <1>13 DEF MatchJob, Work, lifeVars
  <2> QED
    BY <1>1, <1>13, <2>1, MatchedStep DEF AgentBounded
<1>14. ASSUME NEW s \in Slots, NEW i \in Items, LogThreat(s, i) \/ QueueSplit(s, i) PROVE AgentBounded'
  BY <1>2, <1>14 DEF LogThreat, Work, QueueSplit, lifeVars
<1>15. ASSUME NEW s \in Slots, NEW i \in Proposals, EvaluateProposal(s, i) PROVE AgentBounded'
  BY <1>2, <1>15 DEF EvaluateProposal, Work, lifeVars
<1>16. ASSUME NEW s \in Slots, NEW step, NEW ok, SplitStep(s, step, ok) PROVE AgentBounded'
  BY <1>2, <1>16 DEF SplitStep
<1>17. CASE UNCHANGED agentVars
  BY <1>2, <1>17 DEF agentVars, lifeVars, dataVars
<1> QED
  BY <1>3, <1>4, <1>5, <1>6, <1>7, <1>8, <1>9, <1>10, <1>11, <1>12, <1>13, <1>14, <1>15, <1>16, <1>17
     DEF AgentNext

LEMMA AgentTypes == AgentInv /\ AgentBounded => AgentTypeOK
<1> SUFFICES ASSUME AgentInv, AgentBounded PROVE AgentTypeOK
  OBVIOUS
<1>1. AgentShape /\ LoopInv /\ MaxBeats \in Nat /\ MaxTimers \in Nat
  BY AgentAssumption DEF AgentInv
<1>2. beats \in 0 .. MaxBeats /\ timers \in 0 .. MaxTimers
  BY <1>1 DEF AgentShape, AgentBounded
<1>3. \A i \in Items : splits[i].status \in {"none", "pending", "processing", "settled", "failed"}
  BY <1>1 DEF AgentShape, SplitRecord
<1>4. agentStatus \in {"idle", "working", "paused", "error", "stopped"}
  BY <1>1 DEF AgentShape
<1>5. (beatHandle => beats > 0) /\ (timerHandle => timers > 0)
  BY <1>1 DEF LoopInv
<1> QED
  BY <1>2, <1>3, <1>4, <1>5 DEF AgentTypeOK, AgentBounded

\* The agents keep their shape (agents/base.ts): a handle that is kept has a timer that runs, and no
\* more timers run than MaxTimers.
THEOREM AgentTypeCorrect == AgentSpec => []AgentTypeOK
<1>1. AgentInit => AgentBounded
  BY AgentAssumption DEF AgentInit, AgentBounded
<1> QED
  BY <1>1, AgentInitInv, AgentStepInv, AgentBoundedStep, AgentTypes, PTL DEF AgentSpec

-----------------------------------------------------------------------------
(***************************************************************************)
(* VoteAudit, the colluding voters.  A group is what findClique adds to a  *)
(* pair: it holds every set of voters who pairwise vote together and have  *)
(* the pair among them, and two members of it that were never compared     *)
(* vote together in the proposals each shares with one voter of the pair,  *)
(* less all the others (SumOverlap).                                       *)
(***************************************************************************)
Together(v, w) == {s \in VoteSets : {v, w} \subseteq s}

PatternsKept ==
  /\ patterns \in [VoteSets -> Nat] /\ TotalVotes(patterns) <= MaxProposals
  /\ groups = CollusionGroups(patterns)

LeadersListed == leaderHistory \in Seq(Participants) /\ Len(leaderHistory) <= LeadersKept

THEOREM SumFunctionIs ==
  ASSUME NEW p, NEW S
  PROVE  SumFunctionOnSet(p, S) = SumOver(p, S)
BY DEF SumFunctionOnSet, FoldFunctionOnSet, MapThenFoldSet, SumOver, AddsUp, Picked

LEMMA VotersFinite == IsFiniteSet(1..CoVoters)
<1>1. 1 \in Int /\ CoVoters \in Int
  BY AuditAssumption
<1> QED
  BY <1>1, FS_Interval

LEMMA VoteSetsFinite == IsFiniteSet(VoteSets)
<1>1. IsFiniteSet(SUBSET (1..CoVoters))
  BY VotersFinite, FS_SUBSET
<1>2. VoteSets \in SUBSET SUBSET (1..CoVoters)
  BY DEF VoteSets
<1> QED
  BY <1>1, <1>2, FS_Subset

\* The counts are numbers, and a shared proposal is one of the proposals.
LEMMA VotesCounted ==
  ASSUME NEW p \in [VoteSets -> Nat], NEW v, NEW w
  PROVE  /\ TotalVotes(p) \in Nat /\ CoVotes(p, v, w) \in Nat
         /\ CoVotes(p, v, w) <= TotalVotes(p) /\ CoVotes(p, w, v) = CoVotes(p, v, w)
<1>1. TotalVotes(p) = SumOver(p, VoteSets) /\ CoVotes(p, v, w) = SumOver(p, Together(v, w))
  BY SumFunctionIs DEF TotalVotes, CoVotes, Together
<1>2. Together(v, w) \in SUBSET VoteSets /\ \A s \in VoteSets : p[s] \in Nat
  BY DEF Together
<1>3. {s \in VoteSets : {w, v} \subseteq s} = {s \in VoteSets : {v, w} \subseteq s}
  OBVIOUS
<1>4. CoVotes(p, w, v) = CoVotes(p, v, w)
  BY <1>3 DEF CoVotes
<1> QED
  BY <1>1, <1>2, <1>4, VoteSetsFinite, SumPart

\* Two voters who each share proposals with a third share what these two parts overlap in.
LEMMA SharedByBoth ==
  ASSUME NEW p \in [VoteSets -> Nat], NEW u, NEW v, NEW w
  PROVE  CoVotes(p, u, v) + CoVotes(p, u, w) <= TotalVotes(p) + CoVotes(p, v, w)
<1>1. /\ TotalVotes(p) = SumOver(p, VoteSets) /\ CoVotes(p, v, w) = SumOver(p, Together(v, w))
      /\ CoVotes(p, u, v) = SumOver(p, Together(u, v))
      /\ CoVotes(p, u, w) = SumOver(p, Together(u, w))
  BY SumFunctionIs DEF TotalVotes, CoVotes, Together
<1>2. /\ Together(u, v) \in SUBSET VoteSets /\ Together(u, w) \in SUBSET VoteSets
      /\ Together(v, w) \in SUBSET VoteSets /\ \A s \in VoteSets : p[s] \in Nat
      /\ Together(u, v) \cap Together(u, w) \subseteq Together(v, w)
  BY DEF Together
<1> HIDE DEF Together
<1> QED
  BY <1>1, <1>2, VoteSetsFinite, SumOverlap

LEMMA NoCollusionYet == CollusionGroups(NoPatterns) = {}
<1>1. NoPatterns \in [VoteSets -> Nat] /\ \A s \in VoteSets : NoPatterns[s] = 0
  BY DEF NoPatterns
<1>2. TotalVotes(NoPatterns) = 0
  BY <1>1, SumFunctionIs, SumZero, VoteSetsFinite DEF TotalVotes
<1>3. ASSUME NEW v, NEW w PROVE ~Correlated(NoPatterns, v, w)
  <2>1. CoVotes(NoPatterns, v, w) \in Nat /\ CoVotes(NoPatterns, v, w) <= 0
    BY <1>1, <1>2, VotesCounted
  <2>2. CoVotes(NoPatterns, v, w) = 0
    BY <2>1
  <2> QED
    BY <1>2, <2>2 DEF Correlated
<1>4. {q \in (1..CoVoters) \X (1..CoVoters) : q[1] < q[2] /\ Correlated(NoPatterns, q[1], q[2])} = {}
  BY <1>3
<1> QED
  BY <1>4 DEF CollusionGroups

LEMMA CollusionInit == AuditInit => PatternsKept /\ LeadersListed
<1> SUFFICES ASSUME AuditInit PROVE PatternsKept /\ LeadersListed
  OBVIOUS
<1>1. patterns = NoPatterns /\ groups = {} /\ leaderHistory = <<>>
  BY DEF AuditInit
<1>2. NoPatterns \in [VoteSets -> Nat] /\ \A s \in VoteSets : NoPatterns[s] = 0
  BY DEF NoPatterns
<1>3. TotalVotes(NoPatterns) = 0
  BY <1>2, SumFunctionIs, SumZero, VoteSetsFinite DEF TotalVotes
<1>4. <<>> \in Seq(Participants) /\ Len(<<>>) = 0 /\ 0 <= LeadersKept /\ 0 <= MaxProposals
  BY AuditAssumption
<1> QED
  BY <1>1, <1>2, <1>3, <1>4, NoCollusionYet DEF PatternsKept, LeadersListed

LEMMA LeadersStep ==
  ASSUME LeadersListed, NEW n \in Participants, SelectLeaderVRF(n)
  PROVE  LeadersListed'
<1>1. CASE Len(leaderHistory) = LeadersKept
  <2>1. leaderHistory # <<>>
    BY <1>1, AuditAssumption
  <2>2. PICK t \in Seq(Participants) : t = Tail(leaderHistory) /\ Len(t) = Len(leaderHistory) - 1
    BY <2>1, HeadTailProperties DEF LeadersListed
  <2>3. leaderHistory' = Append(t, n)
    BY <1>1, <2>2 DEF SelectLeaderVRF
  <2>4. Append(t, n) \in Seq(Participants) /\ Len(Append(t, n)) = Len(t) + 1
    BY AppendProperties
  <2>5. Len(leaderHistory) \in Nat /\ Len(t) \in Nat
    BY LenProperties DEF LeadersListed
  <2> QED
    BY <1>1, <2>2, <2>3, <2>4, <2>5 DEF LeadersListed
<1>2. CASE Len(leaderHistory) # LeadersKept
  <2>1. leaderHistory' = Append(leaderHistory, n)
    BY <1>2 DEF SelectLeaderVRF
  <2>2. leaderHistory' \in Seq(Participants) /\ Len(leaderHistory') = Len(leaderHistory) + 1
    BY <2>1, AppendProperties DEF LeadersListed
  <2>3. Len(leaderHistory) \in Nat
    BY LenProperties DEF LeadersListed
  <2> QED
    BY <1>2, <2>2, <2>3, AuditAssumption DEF LeadersListed
<1> QED
  BY <1>1, <1>2

LEMMA CollusionStep ==
  ASSUME PatternsKept, NEW s \in VoteSets, DetectQuorumCollusion(s)
  PROVE  PatternsKept'
<1> DEFINE p == [patterns EXCEPT ![s] = @ + 1]
<1>1. patterns \in [VoteSets -> Nat] /\ TotalVotes(patterns) < MaxProposals
  BY DEF PatternsKept, DetectQuorumCollusion
<1>2. patterns' = p /\ groups' = CollusionGroups(p)
  BY DEF DetectQuorumCollusion
<1>3. p \in [VoteSets -> Nat] /\ p[s] = patterns[s] + 1 /\ \A t \in VoteSets \ {s} : p[t] = patterns[t]
  BY <1>1
<1>4. TotalVotes(p) = TotalVotes(patterns) + 1
  <2> HIDE DEF p
  <2>1. /\ SumOver(patterns, VoteSets) = patterns[s] + SumOver(patterns, VoteSets \ {s})
        /\ SumOver(p, VoteSets) = p[s] + SumOver(p, VoteSets \ {s})
    BY <1>1, <1>3, VoteSetsFinite, SumRemove
  <2>2. IsFiniteSet(VoteSets \ {s})
    BY VoteSetsFinite, FS_Subset
  <2>3. SumOver(p, VoteSets \ {s}) = SumOver(patterns, VoteSets \ {s})
    BY <1>3, <2>2, SumSame
  <2>4. SumOver(patterns, VoteSets \ {s}) \in Nat
    BY <1>1, <2>2, SumType
  <2>5. patterns[s] \in Nat
    BY <1>1
  <2>6. SumOver(p, VoteSets) = SumOver(patterns, VoteSets) + 1
    BY <1>3, <2>1, <2>3, <2>4, <2>5
  <2> QED
    BY <2>6, SumFunctionIs DEF TotalVotes
<1>5. TotalVotes(p) <= MaxProposals
  <2>1. TotalVotes(patterns) \in Nat
    BY <1>1, VotesCounted
  <2> QED
    BY <1>1, <1>4, <2>1, AuditAssumption
<1> HIDE DEF p
<1> QED
  BY <1>2, <1>3, <1>5 DEF PatternsKept

LEMMA CollusionStepInv ==
  PatternsKept /\ LeadersListed /\ [AuditNext]_auditVars => (PatternsKept /\ LeadersListed)'
<1> SUFFICES ASSUME PatternsKept, LeadersListed, [AuditNext]_auditVars
             PROVE  PatternsKept' /\ LeadersListed'
  OBVIOUS
<1>1. CASE UNCHANGED auditVars
  BY <1>1 DEF PatternsKept, LeadersListed, auditVars
<1>2. ASSUME NEW b \in Batches, DetectDoubleVote(b) PROVE PatternsKept' /\ LeadersListed'
  <2>1. UNCHANGED <<leaderHistory, patterns, groups>>
    BY <1>2 DEF DetectDoubleVote
  <2> QED
    BY <2>1 DEF PatternsKept, LeadersListed
<1>3. ASSUME NEW n \in Participants, SelectLeaderVRF(n) PROVE PatternsKept' /\ LeadersListed'
  <2>1. UNCHANGED <<patterns, groups>>
    BY <1>3 DEF SelectLeaderVRF
  <2> QED
    BY <1>3, <2>1, LeadersStep DEF PatternsKept
<1>4. ASSUME NEW s \in VoteSets, DetectQuorumCollusion(s) PROVE PatternsKept' /\ LeadersListed'
  <2>1. UNCHANGED leaderHistory
    BY <1>4 DEF DetectQuorumCollusion
  <2> QED
    BY <1>4, <2>1, CollusionStep DEF LeadersListed
<1> QED
  BY <1>1, <1>2, <1>3, <1>4 DEF AuditNext

\* Voters who pairwise vote together are all in the group found from any two of them.
LEMMA CliqueFound ==
  ASSUME PatternsKept, NEW s \in SUBSET (1..CoVoters), Cardinality(s) >= 3,
         \A v, w \in s : v # w => Correlated(patterns, v, w)
  PROVE  \E g \in groups : s \subseteq g
<1>1. IsFiniteSet(1..CoVoters) /\ IsFiniteSet(s)
  BY VotersFinite, FS_Subset
<1>2. PICK v \in s, w \in s : v < w
  <2>1. s # {}
    BY FS_EmptySet
  <2>2. PICK v \in s : TRUE
    BY <2>1
  <2>3. s # {v}
    <3>1. Cardinality({v}) = 1
      BY FS_Singleton
    <3> QED
      BY <3>1
  <2>4. PICK w \in s : w # v
    BY <2>2, <2>3
  <2>5. v \in Int /\ w \in Int
    OBVIOUS
  <2> QED
    BY <2>2, <2>4, <2>5
<1> DEFINE q == <<v, w>>
           g == FindClique(patterns, v, w)
           pairs == {r \in (1..CoVoters) \X (1..CoVoters) :
                       r[1] < r[2] /\ Correlated(patterns, r[1], r[2])}
<1>3. v # w /\ v \in 1..CoVoters /\ w \in 1..CoVoters
  BY <1>2
<1>4. q \in pairs /\ q[1] = v /\ q[2] = w
  BY <1>2, <1>3
<1>5. s \subseteq g
  BY <1>3 DEF FindClique
<1>6. g \subseteq 1..CoVoters
  BY <1>3 DEF FindClique
<1>7. Cardinality(g) >= 3
  <2> HIDE DEF g
  <2>1. IsFiniteSet(g) /\ Cardinality(s) <= Cardinality(g)
    BY <1>1, <1>5, <1>6, FS_Subset
  <2>2. Cardinality(g) \in Nat /\ Cardinality(s) \in Nat
    BY <1>1, <2>1, FS_CardinalityType
  <2> QED
    BY <2>1, <2>2
<1>8. g \in {FindClique(patterns, r[1], r[2]) : r \in pairs}
  BY <1>4
<1>9. g \in CollusionGroups(patterns)
  BY <1>7, <1>8 DEF CollusionGroups
<1> QED
  BY <1>5, <1>9 DEF PatternsKept

\* Any two members of a group vote together in more than 60 % of the proposals.
LEMMA GroupsHold ==
  ASSUME PatternsKept, NEW g \in groups
  PROVE  /\ g \subseteq 1..CoVoters /\ Cardinality(g) >= 3
         /\ \A v, w \in g : v # w => 10 * CoVotes(patterns, v, w) > 6 * TotalVotes(patterns)
<1>1. g \in CollusionGroups(patterns) /\ patterns \in [VoteSets -> Nat]
  BY DEF PatternsKept
<1>2. PICK q \in (1..CoVoters) \X (1..CoVoters) :
        /\ q[1] < q[2] /\ Correlated(patterns, q[1], q[2])
        /\ g = FindClique(patterns, q[1], q[2]) /\ Cardinality(g) >= 3
  BY <1>1 DEF CollusionGroups
<1> DEFINE Co(v, w) == CoVotes(patterns, v, w)
<1>3. PICK all \in Nat : all = TotalVotes(patterns)
  BY <1>1, VotesCounted
<1>4. ASSUME NEW v, NEW w
      PROVE  /\ Co(v, w) \in Nat /\ Co(v, w) <= all /\ Co(w, v) = Co(v, w)
             /\ Correlated(patterns, v, w) <=> 10 * Co(v, w) > 8 * all
  BY <1>1, <1>3, VotesCounted DEF Correlated
<1>5. ASSUME NEW u, NEW v, NEW w PROVE Co(u, v) + Co(u, w) <= all + Co(v, w)
  BY <1>1, <1>3, SharedByBoth
<1>6. PICK a \in 1..CoVoters, b \in 1..CoVoters : a = q[1] /\ b = q[2]
  OBVIOUS
<1>7. /\ 10 * Co(a, b) > 8 * all
      /\ \A c \in g : c \in {a, b} \/ (10 * Co(a, c) > 8 * all /\ 10 * Co(b, c) > 8 * all)
  BY <1>2, <1>4, <1>6 DEF FindClique
<1>8. g \subseteq 1..CoVoters
  BY <1>2, <1>6 DEF FindClique
<1> HIDE DEF Co
<1>9. ASSUME NEW v \in g, NEW w \in g, v # w PROVE 10 * Co(v, w) > 6 * all
  <2>1. Co(v, w) \in Nat /\ Co(a, v) \in Nat /\ Co(a, w) \in Nat /\ Co(w, v) = Co(v, w)
    BY <1>4
  <2>2. CASE v \notin {a, b} /\ w \notin {a, b}
    <3>1. 10 * Co(a, v) > 8 * all /\ 10 * Co(a, w) > 8 * all
      BY <1>7, <2>2
    <3>2. Co(a, v) + Co(a, w) <= all + Co(v, w)
      BY <1>5
    <3> QED
      BY <2>1, <3>1, <3>2
  <2>3. CASE v \in {a, b} \/ w \in {a, b}
    <3>1. 10 * Co(v, w) > 8 * all \/ 10 * Co(w, v) > 8 * all
      BY <1>7, <1>9, <2>3, <1>4
    <3> QED
      BY <2>1, <3>1
  <2> QED
    BY <2>2, <2>3
<1> QED
  BY <1>2, <1>3, <1>8, <1>9 DEF Co

LEMMA KeptReported == PatternsKept => CollusionReported
BY CliqueFound, GroupsHold DEF CollusionReported

\* Voters who pairwise vote together in more than 80 % of the proposals are in one reported group,
\* and any two of a group vote together in more than 60 % (detectQuorumCollusion, findClique).
THEOREM CollusionReportedAlways == AuditSpec => []CollusionReported
BY CollusionInit, CollusionStepInv, KeptReported, PTL DEF AuditSpec

LEMMA AuditTyped == AuditInv /\ PatternsKept /\ LeadersListed => AuditTypeOK
<1> SUFFICES ASSUME AuditInv, PatternsKept, LeadersListed PROVE AuditTypeOK
  OBVIOUS
<1>1. /\ voteHistory \in [AuditedRounds -> Ballots \cup {NoBallot}]
      /\ presented \subseteq AuditVote /\ reported \in BOOLEAN
  BY DEF AuditInv, AuditRecord, AuditState
<1>2. DOMAIN patterns = VoteSets /\ TotalVotes(patterns) <= MaxProposals
  BY DEF PatternsKept
<1>3. \A g \in groups : g \subseteq 1..CoVoters /\ Cardinality(g) >= 3
  BY GroupsHold
<1> QED
  BY <1>1, <1>2, <1>3 DEF AuditTypeOK, LeadersListed

\* The state of the consensus hardening is well-typed.
THEOREM AuditTypeCorrect == AuditSpec => []AuditTypeOK
BY AuditInitInv, AuditStepInv, CollusionInit, CollusionStepInv, AuditTyped, PTL DEF AuditSpec

-----------------------------------------------------------------------------
(***************************************************************************)
(* PeerDiversity.  Pruning is a fold over the peers: after the first k of  *)
(* them it has kept each subnet as often as it came, up to the cap, and    *)
(* all k if no subnet passes the cap in the whole list.  A quorum that     *)
(* passes has fibres of at most three tenths, by region and by ASN, and so *)
(* more than three values (FibresBound).                                   *)
(***************************************************************************)
DiversityInv ==
  /\ bucket \in Seq(Subnets) /\ sanitized = MaintainDiverse(bucket)
  /\ listed \in Seq([subnet16 : Subnets, capHash : Capabilities])
  /\ clusters = DetectSybilCluster(listed)
  /\ quorum \in Seq([region : Regions, asn : Asns])
  /\ quorumValid = EnforceGeoDiversity(quorum)

Pruned(kept, p, cap) == IF CountOf(kept, p) < cap THEN Append(kept, p) ELSE kept

PruneFolds(h, s) ==
  h = [t \in SUBSET DOMAIN s |->
         IF t = {} THEN <<>>
         ELSE IF CountOf(h[t \ {Largest(t)}], s[Largest(t)]) < Cap(Len(s))
              THEN Append(h[t \ {Largest(t)}], s[Largest(t)]) ELSE h[t \ {Largest(t)}]]

LEMMA PruningUnfolds ==
  ASSUME NEW T, NEW s \in Seq(T)
  PROVE  \E h : /\ MaintainDiverse(s) = h[1..Len(s)]
                /\ h[1..0] = <<>>
                /\ \A k \in 1..Len(s) : h[1..k] = Pruned(h[1..(k - 1)], s[k], Cap(Len(s)))
<1> DEFINE n == Len(s)
           op == [p \in Seq(T) \X (1..n) |-> Pruned(p[1], s[p[2]], Cap(n))]
<1>1. n \in Nat /\ DOMAIN s = 1..n /\ \A i \in 1..n : s[i] \in T
  OBVIOUS
<1> HIDE DEF n
<1>2. op \in [Seq(T) \X (1..n) -> Seq(T)]
  <2>1. ASSUME NEW q \in Seq(T), NEW i \in 1..n PROVE Pruned(q, s[i], Cap(n)) \in Seq(T)
    BY <1>1 DEF Pruned
  <2> QED
    BY <2>1
<1>3. \E h : PruneFolds(h, s)
  <2>1. <<>> \in Seq(T)
    OBVIOUS
  <2>2. PICK h \in [SUBSET (1..n) -> Seq(T)] : LeftFold(h, op, <<>>, n)
    <3> HIDE DEF op
    <3> QED
      BY <1>1, <1>2, <2>1, LeftFoldExists
  <2>3. ASSUME NEW t \in SUBSET (1..n), t # {}
        PROVE  op[<<h[t \ {Largest(t)}], Largest(t)>>]
                 = Pruned(h[t \ {Largest(t)}], s[Largest(t)], Cap(n))
    <3>1. Largest(t) \in 1..n
      BY <1>1, <2>3, HasLargest
    <3>2. h[t \ {Largest(t)}] \in Seq(T)
      OBVIOUS
    <3> QED
      BY <3>1, <3>2
  <2>4. h = [t \in SUBSET (1..n) |->
               IF t = {} THEN <<>> ELSE Pruned(h[t \ {Largest(t)}], s[Largest(t)], Cap(n))]
    <3> HIDE DEF op
    <3> QED
      BY <2>2, <2>3 DEF LeftFold
  <2> QED
    BY <1>1, <2>4 DEF PruneFolds, Pruned, n
<1>4. PICK h : h = (CHOOSE g : PruneFolds(g, s))
  OBVIOUS
<1>5. MaintainDiverse(s) = h[1..n]
  BY <1>1, <1>4 DEF MaintainDiverse, FoldLeft, MapThenFoldSet, PruneFolds, Largest, Max
<1>6. \A t \in SUBSET (1..n) :
        h[t] = IF t = {} THEN <<>> ELSE Pruned(h[t \ {Largest(t)}], s[Largest(t)], Cap(n))
  <2>1. PruneFolds(h, s)
    BY <1>3, <1>4
  <2> QED
    BY <1>1, <2>1 DEF PruneFolds, Pruned, n
<1>7. h[1..0] = <<>>
  <2>1. 1..0 = {} /\ 1..0 \in SUBSET (1..n)
    OBVIOUS
  <2> QED
    BY <1>6, <2>1
<1>8. ASSUME NEW k \in 1..n PROVE h[1..k] = Pruned(h[1..(k - 1)], s[k], Cap(n))
  <2>1. 1..k \in SUBSET (1..n) /\ k \in Nat \ {0}
    BY <1>1
  <2> QED
    BY <1>6, <2>1, Prefix
<1> QED
  BY <1>5, <1>7, <1>8 DEF n

LEMMA CountIs ==
  ASSUME NEW s, NEW x
  PROVE  CountOf(s, x) = Count(s, {x})
<1>1. {i \in DOMAIN s : s[i] = x} = Places(s, {x})
  BY DEF Places
<1> QED
  BY <1>1 DEF CountOf, Count

\* What pruning keeps: every subnet as often as it came, up to the cap, and the whole list if no
\* subnet comes more often.
LEMMA PrunedTo ==
  ASSUME NEW T, NEW s \in Seq(T)
  PROVE  /\ MaintainDiverse(s) \in Seq(T)
         /\ \A x \in T : Count(MaintainDiverse(s), {x})
                           = IF Count(s, {x}) < Cap(Len(s)) THEN Count(s, {x}) ELSE Cap(Len(s))
         /\ NoSubnetDominates(s) => MaintainDiverse(s) = s
<1>1. PICK h : /\ MaintainDiverse(s) = h[1..Len(s)]
               /\ h[1..0] = <<>>
               /\ \A k \in 1..Len(s) : h[1..k] = Pruned(h[1..(k - 1)], s[k], Cap(Len(s)))
  BY PruningUnfolds
<1> DEFINE n == Len(s)
<1>2. n \in Nat /\ DOMAIN s = 1..n /\ \A i \in 1..n : s[i] \in T
  OBVIOUS
<1>3. PICK cap \in Nat : cap = Cap(n)
  BY <1>2 DEF Cap
<1> HIDE DEF n
<1>4. \A k \in 1..n : h[1..k] = Pruned(h[1..(k - 1)], s[k], cap)
  BY <1>1, <1>3 DEF n
<1> DEFINE So(k, x) == {i \in 1..k : s[i] = x}
           Upto(a) == IF a < cap THEN a ELSE cap
           P == {k \in 0..n : /\ h[1..k] \in Seq(T)
                              /\ \A x \in T : /\ IsFiniteSet(So(k, x))
                                              /\ Count(h[1..k], {x}) = Upto(Cardinality(So(k, x)))
                              /\ NoSubnetDominates(s) =>
                                   Len(h[1..k]) = k /\ \A i \in 1..k : h[1..k][i] = s[i]}
<1>5. 0 \in P
  <2>1. \A x : So(0, x) = {}
    OBVIOUS
  <2>2. \A x : IsFiniteSet(So(0, x)) /\ Cardinality(So(0, x)) = 0
    <3> HIDE DEF So
    <3> QED
      BY <2>1, FS_EmptySet
  <2>3. \A x : Count(h[1..0], {x}) = 0
    BY <1>1, CountEmpty
  <2>4. h[1..0] \in Seq(T) /\ Len(h[1..0]) = 0
    BY <1>1
  <2>5. Upto(0) = 0
    BY <1>3
  <2> HIDE DEF So, Upto
  <2>6. \A x \in T : Count(h[1..0], {x}) = Upto(Cardinality(So(0, x)))
    BY <2>2, <2>3, <2>5
  <2> QED
    BY <1>2, <2>2, <2>4, <2>6
<1>6. ASSUME NEW k \in 0..n, k # n, k \in P PROVE k + 1 \in P
  <2>1. PICK m \in 1..n : m = k + 1
    <3>1. k + 1 \in 1..n
      BY <1>2, <1>6
    <3> QED
      BY <3>1
  <2>2. m - 1 = k /\ m \in 0..n /\ s[m] \in T
    BY <1>2, <2>1
  <2>3. PICK q \in Seq(T) : q = h[1..k]
    BY <1>6
  <2>4. \A x \in T : IsFiniteSet(So(k, x)) /\ Count(q, {x}) = Upto(Cardinality(So(k, x)))
    BY <1>6, <2>3
  <2>5. NoSubnetDominates(s) => Len(q) = k /\ \A i \in 1..k : q[i] = s[i]
    BY <1>6, <2>3
  <2>6. h[1..m] = IF Count(q, {s[m]}) < cap THEN Append(q, s[m]) ELSE q
    BY <1>4, <2>2, <2>3, CountIs DEF Pruned
  <2>7. ASSUME NEW x \in T
        PROVE  /\ So(m, x) = (IF s[m] = x THEN So(k, x) \cup {m} ELSE So(k, x)) /\ m \notin So(k, x)
               /\ So(m, x) \subseteq Places(s, {x})
    BY <1>2, <2>1 DEF Places
  <2> HIDE DEF So
  <2>8. ASSUME NEW x \in T
        PROVE  /\ IsFiniteSet(So(m, x)) /\ Cardinality(So(k, x)) \in Nat
               /\ Cardinality(So(m, x)) = Cardinality(So(k, x)) + IF s[m] = x THEN 1 ELSE 0
    <3>1. IsFiniteSet(So(k, x)) /\ Cardinality(So(k, x)) \in Nat
      BY <2>4, FS_CardinalityType
    <3>2. CASE s[m] = x
      <4>0. So(m, x) = So(k, x) \cup {m} /\ m \notin So(k, x)
        BY <2>7, <3>2
      <4>1. /\ IsFiniteSet(So(k, x) \cup {m})
            /\ Cardinality(So(k, x) \cup {m}) = Cardinality(So(k, x)) + 1
        BY <3>1, <4>0, FS_AddElement
      <4> QED
        BY <3>1, <3>2, <4>0, <4>1
    <3>3. CASE s[m] # x
      <4>1. So(m, x) = So(k, x)
        BY <2>7, <3>3
      <4> QED
        BY <3>1, <3>3, <4>1
    <3> QED
      BY <3>2, <3>3
  <2>9. Append(q, s[m]) \in Seq(T) /\ h[1..m] \in Seq(T)
    BY <2>2, <2>6
  <2>10. ASSUME NEW x \in T PROVE Count(h[1..m], {x}) = Upto(Cardinality(So(m, x)))
    <3>1. Count(Append(q, s[m]), {x}) = IF s[m] \in {x} THEN Count(q, {x}) + 1 ELSE Count(q, {x})
      BY <2>2, CountAppend
    <3>2. PICK c \in Nat : c = Cardinality(So(k, x))
      BY <2>8
    <3>3. Count(q, {x}) = Upto(c)
      BY <2>4, <3>2
    <3>4. CASE s[m] # x
      <4>1. Count(h[1..m], {x}) = Count(q, {x})
        BY <2>6, <3>1, <3>4
      <4>2. Cardinality(So(m, x)) = c
        BY <2>8, <3>2, <3>4
      <4> QED
        BY <3>3, <4>1, <4>2
    <3>5. CASE s[m] = x
      <4>1. Cardinality(So(m, x)) = c + 1
        BY <2>8, <3>2, <3>5
      <4>2. Count(h[1..m], {x}) = IF Upto(c) < cap THEN Upto(c) + 1 ELSE Upto(c)
        BY <2>6, <3>1, <3>3, <3>5
      <4>3. (IF Upto(c) < cap THEN Upto(c) + 1 ELSE Upto(c)) = Upto(c + 1)
        BY <1>3
      <4> QED
        BY <4>1, <4>2, <4>3
    <3> QED
      BY <3>4, <3>5
  <2>11. ASSUME NoSubnetDominates(s)
         PROVE  Len(h[1..m]) = m /\ \A i \in 1..m : h[1..m][i] = s[i]
    <3> DEFINE x == s[m]
    <3>1. x \in T /\ Count(s, {x}) <= cap
      BY <1>2, <1>3, <2>2, <2>11, CountIs DEF NoSubnetDominates, n
    <3>2. /\ Cardinality(So(m, x)) <= Count(s, {x}) /\ Count(s, {x}) \in Nat
      <4>1. So(m, x) \in SUBSET Places(s, {x})
        BY <2>2, <2>7
      <4>2. IsFiniteSet(Places(s, {x})) /\ Count(s, {x}) \in Nat
        BY CountType
      <4> QED
        BY <4>1, <4>2, FS_Subset DEF Count
    <3>3. Cardinality(So(m, x)) = Cardinality(So(k, x)) + 1 /\ Cardinality(So(k, x)) \in Nat
      BY <2>2, <2>8
    <3>4. Cardinality(So(k, x)) < cap
      BY <1>3, <3>1, <3>2, <3>3
    <3>5. Count(q, {x}) < cap
      BY <2>2, <2>4, <3>3, <3>4
    <3>6. h[1..m] = Append(q, x)
      BY <2>6, <3>5
    <3>7. Len(q) = k /\ \A i \in 1..k : q[i] = s[i]
      BY <2>5, <2>11
    <3>8. /\ Len(Append(q, x)) = k + 1 /\ Append(q, x)[k + 1] = x
          /\ \A i \in 1..k : Append(q, x)[i] = q[i]
      BY <3>1, <3>7
    <3>9. \A i \in 1..m : i \in 1..k \/ i = m
      BY <2>1
    <3> QED
      BY <2>1, <3>6, <3>7, <3>8, <3>9
  <2> HIDE DEF Upto
  <2>12. m \in P
    BY <2>2, <2>8, <2>9, <2>10, <2>11
  <2> HIDE DEF P
  <2> QED
    BY <2>1, <2>12
<1>7. n \in P
  <2> HIDE DEF P
  <2> QED
    BY <1>2, <1>5, <1>6, UpTo
<1>8. h[1..n] \in Seq(T)
  BY <1>7
<1>9. ASSUME NEW x \in T PROVE Count(h[1..n], {x}) = Upto(Count(s, {x}))
  <2>1. So(n, x) = Places(s, {x})
    BY <1>2 DEF Places
  <2> HIDE DEF So, Upto
  <2> QED
    BY <1>7, <2>1 DEF Count
<1>10. ASSUME NoSubnetDominates(s) PROVE h[1..n] = s
  <2>1. Len(h[1..n]) = n /\ \A i \in 1..n : h[1..n][i] = s[i]
    BY <1>7, <1>10
  <2>2. PICK q \in Seq(T) : q = h[1..n]
    BY <1>8
  <2>3. q = [i \in 1..n |-> q[i]] /\ s = [i \in 1..n |-> s[i]]
    BY <1>2, <2>1, <2>2 DEF n
  <2> QED
    BY <2>1, <2>2, <2>3
<1> HIDE DEF So, P
<1> QED
  BY <1>1, <1>3, <1>8, <1>9, <1>10 DEF n

\* The cap of a list that is not empty lets one peer pass.
LEMMA CapPositive == \A n \in Nat : Cap(n) \in Nat /\ (n # 0 => Cap(n) >= 1)
  BY DEF Cap

\* A value is in a sequence when it is counted in it.
LEMMA InWhenCounted ==
  ASSUME NEW T, NEW s \in Seq(T)
  PROVE  ToSet(s) = {x \in T : Count(s, {x}) # 0}
<1>1. DOMAIN s = 1..Len(s) /\ \A i \in DOMAIN s : s[i] \in T
  OBVIOUS
<1>2. ASSUME NEW x \in T PROVE Count(s, {x}) # 0 <=> \E i \in DOMAIN s : s[i] = x
  <2>1. IsFiniteSet(Places(s, {x}))
    BY CountType
  <2>2. Count(s, {x}) = 0 <=> Places(s, {x}) = {}
    BY <2>1, FS_EmptySet DEF Count
  <2> QED
    BY <2>2 DEF Places
<1> QED
  BY <1>1, <1>2 DEF ToSet

LEMMA PruningSound ==
  ASSUME DiversityInv
  PROVE  PruningAgrees
<1>1. bucket \in Seq(Subnets) /\ sanitized = MaintainDiverse(bucket)
  BY DEF DiversityInv
<1>2. PICK cap \in Nat : cap = Cap(Len(bucket)) /\ (Len(bucket) # 0 => cap >= 1)
  BY <1>1, CapPositive
<1>3. /\ sanitized \in Seq(Subnets) /\ (NoSubnetDominates(bucket) => sanitized = bucket)
      /\ \A x \in Subnets : Count(sanitized, {x})
                              = IF Count(bucket, {x}) < cap THEN Count(bucket, {x}) ELSE cap
  BY <1>1, <1>2, PrunedTo
<1>4. ASSUME NEW x \in Subnets
      PROVE  Count(bucket, {x}) \in Nat /\ (Count(bucket, {x}) # 0 => cap >= 1)
  <2>1. Count(bucket, {x}) \in Nat /\ Count(bucket, {x}) <= Len(bucket)
    BY <1>1, CountType, CountAll
  <2>2. Len(bucket) \in Nat
    BY <1>1
  <2> QED
    BY <1>2, <2>1, <2>2
<1>5. ASSUME sanitized = bucket PROVE NoSubnetDominates(bucket)
  <2>1. ASSUME NEW i \in DOMAIN bucket PROVE CountOf(bucket, bucket[i]) <= Cap(Len(bucket))
    <3>1. bucket[i] \in Subnets
      BY <1>1
    <3>2. Count(bucket, {bucket[i]}) <= cap
      BY <1>2, <1>3, <1>4, <1>5, <3>1
    <3> QED
      BY <1>2, <3>2, CountIs
  <2> QED
    BY <2>1 DEF NoSubnetDominates
<1>6. ASSUME NEW x \in Subnets PROVE Count(sanitized, {x}) # 0 <=> Count(bucket, {x}) # 0
  BY <1>2, <1>3, <1>4
<1>7. ToSet(sanitized) = ToSet(bucket)
  <2>1. ToSet(sanitized) = {x \in Subnets : Count(sanitized, {x}) # 0}
    BY <1>3, InWhenCounted
  <2>2. ToSet(bucket) = {x \in Subnets : Count(bucket, {x}) # 0}
    BY <1>1, InWhenCounted
  <2> QED
    BY <1>6, <2>1, <2>2
<1>8. EnforcePeerDiversity(bucket) => EnforcePeerDiversity(sanitized)
  BY <1>3 DEF EnforcePeerDiversity
<1> QED
  BY <1>3, <1>5, <1>7, <1>8 DEF PruningAgrees

LEMMA QuorumsSound ==
  ASSUME DiversityInv
  PROVE  QuorumsSpread
<1> SUFFICES ASSUME quorumValid, quorum # <<>>, NEW f \in {"region", "asn"}
             PROVE  Cardinality({quorum[i][f] : i \in DOMAIN quorum}) >= 4
  BY DEF QuorumsSpread
<1> DEFINE S == DOMAIN quorum
           g == [i \in S |-> quorum[i][f]]
           V == {quorum[i][f] : i \in S}
<1>1. quorum \in Seq([region : Regions, asn : Asns]) /\ EnforceGeoDiversity(quorum)
  BY DEF DiversityInv
<1>2. PICK n \in Nat \ {0} : n = Len(quorum) /\ S = 1..n
  BY <1>1
<1>3. IsFiniteSet(S) /\ Cardinality(S) = n
  <2>1. 1 \in Int /\ n \in Int
    BY <1>2
  <2>2. IsFiniteSet(1..n) /\ Cardinality(1..n) = IF 1 > n THEN 0 ELSE n - 1 + 1
    BY <2>1, FS_Interval
  <2> QED
    BY <1>2, <2>2
<1>4. PICK m \in Nat : m = (3 * n) \div 10
  OBVIOUS
<1>5. ASSUME NEW x \in S PROVE Cardinality(Fibre(g, S, g[x])) <= m
  <2>1. Fibre(g, S, g[x]) = {j \in S : quorum[j][f] = quorum[x][f]}
    BY DEF Fibre
  <2>2. 10 * Cardinality({j \in S : quorum[j][f] = quorum[x][f]}) <= 3 * n
    BY <1>1, <1>2 DEF EnforceGeoDiversity
  <2>3. PICK c \in Nat : c = Cardinality({j \in S : quorum[j][f] = quorum[x][f]})
    <3>1. {j \in S : quorum[j][f] = quorum[x][f]} \in SUBSET S
      OBVIOUS
    <3> HIDE DEF S
    <3> QED
      BY <1>3, <3>1, FS_Subset, FS_CardinalityType
  <2>4. c <= m
    BY <1>4, <2>2, <2>3
  <2> QED
    BY <2>1, <2>3, <2>4
<1>6. Values(g, S) = V
  BY DEF Values
<1> HIDE DEF S, g
<1>7. Cardinality(Values(g, S)) \in Nat /\ n <= m * Cardinality(Values(g, S))
  BY <1>3, <1>5, FibresBound
<1>8. PICK d \in Nat : d = Cardinality(V) /\ n <= m * d
  BY <1>6, <1>7
<1>9. d >= 4
  <2> SUFFICES ASSUME d <= 3 PROVE FALSE
    OBVIOUS
  <2>1. m * d <= 3 * m
    <3>1. CASE d = 0
      BY <3>1
    <3>2. CASE d = 1
      BY <3>2
    <3>3. CASE d = 2
      BY <3>3
    <3>4. CASE d = 3
      BY <3>4
    <3> QED
      BY <3>1, <3>2, <3>3, <3>4
  <2>2. 10 * m <= 3 * n
    BY <1>4
  <2>3. m * d \in Nat
    OBVIOUS
  <2> QED
    BY <1>8, <2>1, <2>2, <2>3
<1> QED
  BY <1>8, <1>9 DEF S

LEMMA DiversityInitInv == DiversityInit => DiversityInv
<1> SUFFICES ASSUME DiversityInit PROVE DiversityInv
  OBVIOUS
<1>1. /\ bucket = <<>> /\ sanitized = <<>> /\ listed = <<>> /\ clusters = {}
      /\ quorum = <<>> /\ quorumValid = TRUE
  BY DEF DiversityInit
<1>2. MaintainDiverse(<<>>) = <<>>
  <2>1. <<>> \in Seq(Subnets) /\ Len(<<>>) = 0
    OBVIOUS
  <2> QED
    BY <2>1, PruningUnfolds
<1>3. DetectSybilCluster(<<>>) = {}
  BY DEF DetectSybilCluster
<1>4. EnforceGeoDiversity(<<>>) = TRUE
  BY DEF EnforceGeoDiversity
<1>5. \A T : <<>> \in Seq(T)
  OBVIOUS
<1> QED
  BY <1>1, <1>2, <1>3, <1>4, <1>5 DEF DiversityInv

LEMMA DiversityStepInv == DiversityInv /\ [DiversityNext]_diversityVars => DiversityInv'
<1> SUFFICES ASSUME DiversityInv, [DiversityNext]_diversityVars PROVE DiversityInv'
  OBVIOUS
<1>1. CASE UNCHANGED diversityVars
  BY <1>1 DEF DiversityInv, diversityVars
<1>2. ASSUME NEW s \in Subnets, CheckBucket(s) PROVE DiversityInv'
  <2>1. /\ bucket' = Append(bucket, s) /\ sanitized' = MaintainDiverse(bucket')
        /\ UNCHANGED <<listed, clusters, quorum, quorumValid>>
    BY <1>2 DEF CheckBucket
  <2>2. bucket' \in Seq(Subnets)
    BY <2>1 DEF DiversityInv
  <2> QED
    BY <2>1, <2>2 DEF DiversityInv
<1>3. ASSUME NEW s \in Subnets, NEW c \in Capabilities, CheckNodes(s, c) PROVE DiversityInv'
  <2>1. /\ listed' = Append(listed, [subnet16 |-> s, capHash |-> c])
        /\ clusters' = DetectSybilCluster(listed')
        /\ UNCHANGED <<bucket, sanitized, quorum, quorumValid>>
    BY <1>3 DEF CheckNodes
  <2>2. [subnet16 |-> s, capHash |-> c] \in [subnet16 : Subnets, capHash : Capabilities]
    OBVIOUS
  <2>3. listed' \in Seq([subnet16 : Subnets, capHash : Capabilities])
    BY <2>1, <2>2, AppendProperties DEF DiversityInv
  <2> QED
    BY <2>1, <2>3 DEF DiversityInv
<1>4. ASSUME NEW r \in Regions, NEW a \in Asns, CheckQuorum(r, a) PROVE DiversityInv'
  <2>1. /\ quorum' = Append(quorum, [region |-> r, asn |-> a])
        /\ quorumValid' = EnforceGeoDiversity(quorum')
        /\ UNCHANGED <<bucket, sanitized, listed, clusters>>
    BY <1>4 DEF CheckQuorum
  <2>2. [region |-> r, asn |-> a] \in [region : Regions, asn : Asns]
    OBVIOUS
  <2>3. quorum' \in Seq([region : Regions, asn : Asns])
    BY <2>1, <2>2, AppendProperties DEF DiversityInv
  <2> QED
    BY <2>1, <2>3 DEF DiversityInv
<1> QED
  BY <1>1, <1>2, <1>3, <1>4 DEF DiversityNext

\* Pruning a bucket agrees with the check of its peers (maintainDiverseBuckets,
\* enforcePeerDiversity), and a quorum that passes has voters of four regions and of four ASNs
\* (enforceGeoDiversity), however long the lists are.
THEOREM SpreadCheckedAlways == DiversitySpec => []SpreadChecked
<1>1. DiversityInv => SpreadChecked
  BY PruningSound, QuorumsSound DEF SpreadChecked
<1> QED
  BY <1>1, DiversityInitInv, DiversityStepInv, PTL DEF DiversitySpec

LEMMA DiversityTyped == DiversityInv => DiversityTypeOK
<1> SUFFICES ASSUME DiversityInv PROVE DiversityTypeOK
  OBVIOUS
<1>1. sanitized \in Seq(Subnets)
  BY PrunedTo DEF DiversityInv
<1>2. \A c \in clusters : c \subseteq DOMAIN listed
  BY DEF DiversityInv, DetectSybilCluster
<1>3. quorumValid \in BOOLEAN
  BY DEF DiversityInv, EnforceGeoDiversity
<1> QED
  BY <1>1, <1>2, <1>3 DEF DiversityInv, DiversityTypeOK

\* The lists of the diversity checks and their answers are well-typed.
THEOREM DiversityTypeCorrect == DiversitySpec => []DiversityTypeOK
BY DiversityInitInv, DiversityStepInv, DiversityTyped, PTL DEF DiversitySpec

-----------------------------------------------------------------------------
(***************************************************************************)
(* SafetyChecks.  A check keeps no state: its invariant says what was      *)
(* called, on what, and what was answered (Asked), and each part of the    *)
(* word is a fact about the operator that answered: the middle of three    *)
(* fees, the first part of a version that differs, how far a value lies    *)
(* from a mean (FromMean), and that of amounts with few values one comes   *)
(* four times (FibresBound).                                               *)
(***************************************************************************)
LEMMA PairCounts ==
  ASSUME NEW p, NEW q, p # q
  PROVE  IsFiniteSet({p, q}) /\ Cardinality({p, q}) = 2
<1>1. IsFiniteSet({p}) /\ Cardinality({p}) = 1 /\ q \notin {p}
  BY FS_Singleton
<1>2. IsFiniteSet({p} \cup {q}) /\ Cardinality({p} \cup {q}) = 2
  BY <1>1, FS_AddElement
<1>3. {p} \cup {q} = {p, q}
  OBVIOUS
<1> QED
  BY <1>2, <1>3

\* A finite set of two elements or more has two that differ.
LEMMA TwoOf ==
  ASSUME NEW S, IsFiniteSet(S)
  PROVE  Cardinality(S) \in Nat /\ (Cardinality(S) >= 2 <=> \E p, q \in S : p # q)
<1>1. Cardinality(S) \in Nat
  BY FS_CardinalityType
<1>2. ASSUME Cardinality(S) >= 2 PROVE \E p, q \in S : p # q
  <2>1. S # {} /\ \A p : S # {p}
    <3>1. Cardinality({}) = 0 /\ \A p : Cardinality({p}) = 1
      BY FS_EmptySet, FS_Singleton
    <3> QED
      BY <1>2, <3>1
  <2> QED
    BY <2>1
<1>3. ASSUME NEW p \in S, NEW q \in S, p # q PROVE Cardinality(S) >= 2
  <2>1. Cardinality({p, q}) = 2 /\ {p, q} \in SUBSET S
    BY <1>3, PairCounts
  <2>2. Cardinality({p, q}) <= Cardinality(S)
    BY <2>1, FS_Subset
  <2> QED
    BY <1>1, <2>1, <2>2
<1> QED
  BY <1>1, <1>2, <1>3

LEMMA ThreeAnswers == IsFiniteSet(1..3) /\ Cardinality(1..3) = 3
<1>1. IsFiniteSet(1..3) /\ Cardinality(1..3) = IF 1 > 3 THEN 0 ELSE 3 - 1 + 1
  <2>1. 1 \in Int /\ 3 \in Int
    OBVIOUS
  <2> QED
    BY <2>1, FS_Interval
<1> QED
  BY <1>1

\* There is a middle of three answers: two are no more than it and two no less.
LEMMA MiddleIs ==
  ASSUME NEW fees \in [1..3 -> Nat]
  PROVE  /\ Middle(fees) \in Nat
         /\ \E p, q \in 1..3 : p # q /\ fees[p] <= Middle(fees) /\ fees[q] <= Middle(fees)
         /\ \E p, q \in 1..3 : p # q /\ fees[p] >= Middle(fees) /\ fees[q] >= Middle(fees)
<1> DEFINE Below(f) == {o \in DOMAIN fees : fees[o] <= f}
           Above(f) == {o \in DOMAIN fees : fees[o] >= f}
           Good(f) == (\E p, q \in Below(f) : p # q) /\ (\E p, q \in Above(f) : p # q)
<1>1. ASSUME NEW f PROVE IsFiniteSet(Below(f)) /\ IsFiniteSet(Above(f))
  <2>1. Below(f) \in SUBSET (1..3) /\ Above(f) \in SUBSET (1..3)
    OBVIOUS
  <2> QED
    BY <2>1, ThreeAnswers, FS_Subset
<1>2. ASSUME NEW f
      PROVE  Cardinality(Below(f)) >= 2 /\ Cardinality(Above(f)) >= 2 <=> Good(f)
  <2> HIDE DEF Below, Above
  <2> QED
    BY <1>1, TwoOf
<1>3. DOMAIN fees = 1..3 /\ 1 \in 1..3 /\ 2 \in 1..3 /\ 3 \in 1..3
  OBVIOUS
<1>4. PICK a \in Nat, b \in Nat, c \in Nat : a = fees[1] /\ b = fees[2] /\ c = fees[3]
  OBVIOUS
<1>5. \A i \in Range(fees) : i \in Nat
  BY DEF Range
<1>6. Range(fees) = {a, b, c}
  <2>1. ASSUME NEW i \in 1..3 PROVE i = 1 \/ i = 2 \/ i = 3
    OBVIOUS
  <2> QED
    BY <1>3, <1>4, <2>1 DEF Range
<1>7. \E f \in Range(fees) : Good(f)
  <2>1. CASE (b <= a /\ a <= c) \/ (c <= a /\ a <= b)
    BY <1>3, <1>4, <1>6, <2>1
  <2>2. CASE (a <= b /\ b <= c) \/ (c <= b /\ b <= a)
    BY <1>3, <1>4, <1>6, <2>2
  <2>3. CASE (a <= c /\ c <= b) \/ (b <= c /\ c <= a)
    BY <1>3, <1>4, <1>6, <2>3
  <2> QED
    BY <2>1, <2>2, <2>3
<1>8. Middle(fees) = CHOOSE f \in Range(fees) : Cardinality(Below(f)) >= 2 /\ Cardinality(Above(f)) >= 2
  BY DEF Middle
<1>9. Middle(fees) \in Range(fees) /\ Good(Middle(fees))
  <2> HIDE DEF Good, Below, Above
  <2> QED
    BY <1>2, <1>7, <1>8
<1> QED
  BY <1>3, <1>5, <1>9

LEMMA FeeHolds ==
  ASSUME NEW fees \in [1..3 -> OracleFees], NEW proposed \in OracleFees,
         input = <<fees, proposed>>, answer = GetSecureFeeEstimate(fees)
  PROVE  FeeWithinAnswers
<1> SUFFICES ASSUME answer # <<>>
             PROVE  LET us == Usable(fees)
                    IN  /\ Cardinality(us) >= 2
                        /\ \A o \in us : Cardinality(us) = 3 =>
                             \E p, q \in us \ {o} : fees[p] <= answer[1] /\ answer[1] <= fees[q]
                        /\ \E p, q \in us : fees[p] <= answer[1] /\ answer[1] <= fees[q]
                        /\ DetectFeeManipulation(proposed, answer[1]) =>
                             \E p \in us : proposed > 5 * fees[p]
  BY DEF FeeWithinAnswers
<1> DEFINE us == Usable(fees)
<1>1. fees \in [1..3 -> Nat] /\ proposed \in Nat
  BY ChecksAssumption
<1>2. us \in SUBSET (1..3) /\ IsFiniteSet(us) /\ Cardinality(us) \in Nat
  <2>1. us \in SUBSET (1..3)
    BY DEF Usable
  <2> QED
    BY <2>1, ThreeAnswers, FS_Subset, FS_CardinalityType
<1>3. \A p \in us : fees[p] \in Nat
  BY <1>1, <1>2
<1>4. CASE Cardinality(us) = 3
  <2>1. us = 1..3
    BY <1>2, <1>4, ThreeAnswers, FS_Subset
  <2>2. answer = <<Middle(fees)>>
    BY <1>4 DEF GetSecureFeeEstimate
  <2>3. PICK m \in Nat : m = Middle(fees)
    BY <1>1, MiddleIs
  <2>4. answer[1] = m
    BY <2>2, <2>3
  <2>5. PICK p1 \in us, p2 \in us : p1 # p2 /\ fees[p1] <= m /\ fees[p2] <= m
    BY <1>1, <2>1, <2>3, MiddleIs
  <2>6. PICK q1 \in us, q2 \in us : q1 # q2 /\ fees[q1] >= m /\ fees[q2] >= m
    BY <1>1, <2>1, <2>3, MiddleIs
  <2>7. ASSUME NEW o \in us
        PROVE  \E p, q \in us \ {o} : fees[p] <= answer[1] /\ answer[1] <= fees[q]
    <3>1. PICK p \in us \ {o} : fees[p] <= m
      BY <2>5
    <3>2. PICK q \in us \ {o} : fees[q] >= m
      BY <2>6
    <3>3. fees[q] \in Nat
      BY <1>3
    <3> QED
      BY <2>4, <3>1, <3>2, <3>3
  <2>8. \E p, q \in us : fees[p] <= answer[1] /\ answer[1] <= fees[q]
    BY <1>3, <2>4, <2>5, <2>6
  <2>9. proposed > m * 5 => proposed > 5 * fees[p1]
    BY <1>1, <1>3, <2>5
  <2>10. DetectFeeManipulation(proposed, answer[1]) => \E p \in us : proposed > 5 * fees[p]
    BY <2>4, <2>9 DEF DetectFeeManipulation
  <2>11. Cardinality(us) >= 2
    BY <1>4
  <2> HIDE DEF us
  <2> QED
    BY <2>7, <2>8, <2>10, <2>11 DEF us
<1>5. CASE Cardinality(us) = 2
  <2>1. answer = <<SumFunctionOnSet(fees, us) \div 2>>
    BY <1>5 DEF GetSecureFeeEstimate
  <2>2. PICK p \in us, q \in us : p # q
    BY <1>2, <1>5, TwoOf
  <2>3. us = {p, q}
    <3>1. Cardinality({p, q}) = 2 /\ {p, q} \in SUBSET us
      BY <2>2, PairCounts
    <3> HIDE DEF us
    <3> QED
      BY <1>2, <1>5, <3>1, FS_Subset
  <2>4. SumOver(fees, us) = fees[p] + fees[q]
    <3> HIDE DEF us
    <3>1. us \ {p} = {q} /\ {q} \ {q} = {} /\ q \in {q} /\ \A y \in {q} : fees[y] \in Nat
      BY <1>3, <2>2, <2>3
    <3>2. SumOver(fees, us) = fees[p] + SumOver(fees, {q})
      BY <1>2, <1>3, <3>1, SumRemove
    <3>3. SumOver(fees, {q}) = fees[q] + SumOver(fees, {})
      BY <3>1, FS_Singleton, SumRemove
    <3>4. SumOver(fees, {}) = 0
      BY FS_EmptySet, SumSteps
    <3> QED
      BY <1>3, <3>2, <3>3, <3>4
  <2>5. PICK a \in Nat, b \in Nat : a = fees[p] /\ b = fees[q]
    BY <1>3
  <2>6. PICK m \in Nat : m = (a + b) \div 2
    OBVIOUS
  <2>7. answer[1] = m
    BY <2>1, <2>4, <2>5, <2>6, SumFunctionIs
  <2>8. (a <= m /\ m <= b) \/ (b <= m /\ m <= a)
    BY <2>6
  <2>9. \E u, v \in us : fees[u] <= m /\ m <= fees[v]
    BY <2>5, <2>8
  <2>10. proposed > m * 5 => proposed > 5 * a \/ proposed > 5 * b
    BY <1>1, <2>8
  <2> QED
    BY <1>5, <2>5, <2>7, <2>9, <2>10 DEF DetectFeeManipulation
<1>6. CASE Cardinality(us) # 3 /\ Cardinality(us) # 2
  BY <1>6 DEF GetSecureFeeEstimate
<1> QED
  BY <1>4, <1>5, <1>6

LEMMA VersionHolds ==
  ASSUME NEW v \in [1..3 -> Versions], input = v, answer = EnforceMinProtocolVersion(v)
  PROVE  VersionNotBelow
<1> SUFFICES ASSUME NotANumber \notin Range(v)
             PROVE  answer <=> NotBelow(v, MinVersion)
  BY DEF VersionNotBelow
<1>1. ASSUME NEW i \in 1..3 PROVE v[i] \in Nat /\ v[i] # NotANumber /\ MinVersion[i] \in Nat
  BY ChecksAssumption DEF Range
<1>2. 1 \in 1..3 /\ 2 \in 1..3 /\ 3 \in 1..3 /\ \A i \in 1..3 : i = 1 \/ i = 2 \/ i = 3
  OBVIOUS
<1>3. PICK a1 \in Nat, a2 \in Nat, a3 \in Nat : a1 = v[1] /\ a2 = v[2] /\ a3 = v[3]
  BY <1>1, <1>2
<1>4. PICK b1 \in Nat, b2 \in Nat, b3 \in Nat :
        b1 = MinVersion[1] /\ b2 = MinVersion[2] /\ b3 = MinVersion[3]
  BY <1>1, <1>2
<1>5. v = MinVersion <=> a1 = b1 /\ a2 = b2 /\ a3 = b3
  <2>1. v = [i \in 1..3 |-> v[i]] /\ MinVersion = [i \in 1..3 |-> MinVersion[i]]
    BY ChecksAssumption
  <2> QED
    BY <1>2, <1>3, <1>4, <2>1
<1>6. (\A k \in 1..1 - 1 : FALSE) /\ 1..2 - 1 = {1} /\ 1..3 - 1 = {1, 2}
  OBVIOUS
<1>7. NotBelow(v, MinVersion) <=> \/ a1 = b1 /\ a2 = b2 /\ a3 = b3
                                  \/ a1 > b1 \/ (a2 > b2 /\ a1 = b1)
                                  \/ (a3 > b3 /\ a1 = b1 /\ a2 = b2)
  <2>1. (\E i \in 1..3 : v[i] > MinVersion[i] /\ \A k \in 1..i - 1 : v[k] = MinVersion[k])
          <=> \/ v[1] > MinVersion[1]
              \/ v[2] > MinVersion[2] /\ v[1] = MinVersion[1]
              \/ v[3] > MinVersion[3] /\ v[1] = MinVersion[1] /\ v[2] = MinVersion[2]
    BY <1>2, <1>6
  <2> QED
    BY <1>3, <1>4, <1>5, <2>1 DEF NotBelow
<1>8. EnforceMinProtocolVersion(v) <=> \/ ~(a1 < b1) /\ ~(a2 < b2) /\ ~(a3 < b3)
                                       \/ a1 > b1 \/ (a2 > b2 /\ ~(a1 < b1))
                                       \/ (a3 > b3 /\ ~(a1 < b1) /\ ~(a2 < b2))
  <2>1. \A i \in 1..3 : /\ Less(v[i], MinVersion[i]) <=> v[i] < MinVersion[i]
                        /\ More(v[i], MinVersion[i]) <=> v[i] > MinVersion[i]
    BY <1>1 DEF Less, More
  <2>2. (\E i \in 1..3 : /\ More(v[i], MinVersion[i])
                         /\ \A k \in 1..i - 1 : ~Less(v[k], MinVersion[k]))
          <=> \/ v[1] > MinVersion[1]
              \/ v[2] > MinVersion[2] /\ ~(v[1] < MinVersion[1])
              \/ v[3] > MinVersion[3] /\ ~(v[1] < MinVersion[1]) /\ ~(v[2] < MinVersion[2])
    BY <1>2, <1>6, <2>1
  <2>3. (\A i \in 1..3 : ~Less(v[i], MinVersion[i]))
          <=> ~(v[1] < MinVersion[1]) /\ ~(v[2] < MinVersion[2]) /\ ~(v[3] < MinVersion[3])
    BY <1>2, <2>1
  <2> QED
    BY <1>3, <1>4, <2>2, <2>3 DEF EnforceMinProtocolVersion
<1>9. NotBelow(v, MinVersion) <=> EnforceMinProtocolVersion(v)
  BY <1>7, <1>8
<1> QED
  BY <1>9

\* The sum and the spread of natural numbers, and how far one of them is from their mean.
LEMMA SpreadIs ==
  ASSUME NEW f, IsFiniteSet(DOMAIN f), \A i \in DOMAIN f : f[i] \in Nat
  PROVE  /\ SumFunction(f) = SumOver(f, DOMAIN f) /\ SumFunction(f) \in Nat
         /\ Cardinality(DOMAIN f) \in Nat /\ SumOver(Squares(f), DOMAIN f) \in Nat
         /\ \A i \in DOMAIN f : Squares(f)[i] = f[i] * f[i]
         /\ Spread(f) = Cardinality(DOMAIN f) * SumOver(Squares(f), DOMAIN f)
                          - SumFunction(f) * SumFunction(f)
<1>1. \A i \in DOMAIN f : Squares(f)[i] = f[i] * f[i]
  BY DEF Squares
<1>2. SumFunction(f) = SumOver(f, DOMAIN f)
  BY SumFunctionIs DEF SumFunction
<1>3. SumFunction(Squares(f)) = SumOver(Squares(f), DOMAIN f)
  BY SumFunctionIs DEF SumFunction, Squares
<1>4. /\ Cardinality(DOMAIN f) \in Nat /\ SumOver(f, DOMAIN f) \in Nat
      /\ SumOver(Squares(f), DOMAIN f) \in Nat
  BY <1>1, SumSquares
<1> QED
  BY <1>1, <1>2, <1>3, <1>4 DEF Spread

LEMMA NearMean ==
  ASSUME NEW f, IsFiniteSet(DOMAIN f), \A i \in DOMAIN f : f[i] \in Nat, NEW x \in DOMAIN f,
         NEW n \in Nat, n = Cardinality(DOMAIN f)
  PROVE  /\ Spread(f) \in Int /\ Spread(f) >= 0
         /\ (n * f[x] - SumFunction(f)) * (n * f[x] - SumFunction(f)) <= (n - 1) * Spread(f)
<1>1. PICK T \in Nat, Q \in Nat :
        /\ T = SumFunction(f) /\ T = SumOver(f, DOMAIN f) /\ Q = SumOver(Squares(f), DOMAIN f)
        /\ Spread(f) = n * Q - T * T
  BY SpreadIs
<1>2. \A y \in DOMAIN f : f[y] \in Nat /\ Squares(f)[y] = f[y] * f[y]
  BY SpreadIs
<1>3. n * Q - T * T >= 0 /\ (n * f[x] - T) * (n * f[x] - T) <= (n - 1) * (n * Q - T * T)
  BY <1>1, <1>2, FromMean
<1>4. n * Q \in Int /\ T * T \in Int
  BY TimesInt
<1>5. Spread(f) \in Int
  BY <1>1, <1>4
<1> QED
  BY <1>1, <1>3, <1>5

LEMMA ClockHolds ==
  ASSUME NEW m \in Nat, NEW ts \in [1..m -> Instants],
         input = ts, answer = DetectClockManipulation(ts)
  PROVE  ClockReported
<1>1. Len(ts) = m /\ DOMAIN ts = 1..m /\ \A i \in 1..m : ts[i] \in Int
  <2>1. \A i \in 1..m : ts[i] \in Int
    BY ChecksAssumption
  <2>2. DOMAIN ts = 1..m
    OBVIOUS
  <2>3. Len(ts) = m
    BY <2>2
  <2> QED
    BY <2>1, <2>2, <2>3
<1> SUFFICES ASSUME m \in 3..11
             PROVE  /\ answer = "time_regression" <=> \E i, j \in 1..m : i < j /\ ts[j] < ts[i]
                    /\ answer # "temporal_anomaly"
  BY <1>1 DEF ClockReported
<1>2. PICK n \in Nat : n = m - 1 /\ n \in 2..10
  <2>1. m - 1 \in 2..10
    OBVIOUS
  <2> QED
    BY <2>1
<1>3. PICK iv : iv = [i \in 1..n |-> ts[i + 1] - ts[i]]
  OBVIOUS
<1>4. DOMAIN iv = 1..n /\ \A i \in 1..n : iv[i] \in Int /\ iv[i] = ts[i + 1] - ts[i]
  <2>1. \A i \in 1..n : i \in 1..m /\ i + 1 \in 1..m
    BY <1>2
  <2>2. DOMAIN iv = 1..n
    BY <1>3
  <2>3. ASSUME NEW i \in 1..n PROVE iv[i] \in Int /\ iv[i] = ts[i + 1] - ts[i]
    <3>1. iv[i] = ts[i + 1] - ts[i]
      BY <1>3
    <3>2. ts[i + 1] \in Int /\ ts[i] \in Int
      BY <1>1, <2>1
    <3> QED
      BY <3>1, <3>2
  <2> QED
    BY <2>2, <2>3
<1> DEFINE Back == \E i \in 1..n : iv[i] < 0
           outliers == {i \in 1..n : (n * iv[i] - SumFunction(iv)) * (n * iv[i] - SumFunction(iv))
                                        > 9 * Spread(iv)}
<1>5. answer = IF Back THEN "time_regression"
               ELSE IF Cardinality(Range(iv)) = 1 /\ n > 5 THEN "artificial_precision"
               ELSE IF 10 * Cardinality(outliers) > n THEN "temporal_anomaly" ELSE "none"
  BY <1>1, <1>2, <1>3 DEF DetectClockManipulation
<1>6. Back <=> \E i, j \in 1..m : i < j /\ ts[j] < ts[i]
  <2>1. ASSUME NEW i \in 1..n, iv[i] < 0 PROVE \E k, j \in 1..m : k < j /\ ts[j] < ts[k]
    <3>1. i \in 1..m /\ i + 1 \in 1..m /\ i < i + 1
      BY <1>2
    <3>2. ts[i + 1] < ts[i]
      BY <1>1, <1>4, <2>1, <3>1
    <3> QED
      BY <3>1, <3>2
  <2>2. ASSUME ~Back, NEW i \in 1..m, NEW j \in 1..m, i < j PROVE ~(ts[j] < ts[i])
    <3> DEFINE P == {k \in 0..(m - i) : ts[i] <= ts[i + k]}
    <3>1. 0 \in P
      BY <1>1
    <3>2. ASSUME NEW k \in 0..(m - i), k # m - i, k \in P PROVE k + 1 \in P
      <4>1. i + k \in 1..n /\ i + k \in 1..m /\ (i + k) + 1 = i + (k + 1) /\ i + (k + 1) \in 1..m
            /\ k + 1 \in 0..(m - i)
        BY <1>2, <3>2
      <4>2. iv[i + k] = ts[(i + k) + 1] - ts[i + k] /\ ~(iv[i + k] < 0)
        BY <1>4, <2>2, <4>1
      <4>3. ts[i] <= ts[i + k]
        BY <3>2
      <4>4. PICK a \in Int, b \in Int, c \in Int : a = ts[i] /\ b = ts[i + k] /\ c = ts[i + (k + 1)]
        BY <1>1, <4>1
      <4>5. c - b >= 0 /\ a <= b
        BY <4>1, <4>2, <4>3, <4>4
      <4> QED
        BY <4>1, <4>4, <4>5
    <3>3. PICK d \in Nat : d = m - i
      OBVIOUS
    <3> HIDE DEF P
    <3>4. 0..d \subseteq P
      BY <3>1, <3>2, <3>3, UpTo
    <3>5. PICK k \in 0..d : j = i + k
      <4>1. j - i \in 0..d /\ j = i + (j - i)
        BY <2>2, <3>3
      <4> QED
        BY <4>1
    <3>6. ts[i] <= ts[j]
      BY <3>4, <3>5 DEF P
    <3> QED
      BY <1>1, <3>6
  <2> QED
    BY <2>1, <2>2
<1>7. ASSUME ~Back PROVE outliers = {}
  <2>1. IsFiniteSet(1..n) /\ Cardinality(1..n) = n
    <3>1. 1 \in Int /\ n \in Int
      OBVIOUS
    <3>2. IsFiniteSet(1..n) /\ Cardinality(1..n) = IF 1 > n THEN 0 ELSE n - 1 + 1
      BY <3>1, FS_Interval
    <3> QED
      BY <1>2, <3>2
  <2>2. \A i \in DOMAIN iv : iv[i] \in Nat
    BY <1>4, <1>7
  <2>3. ASSUME NEW x \in 1..n
        PROVE  ~((n * iv[x] - SumFunction(iv)) * (n * iv[x] - SumFunction(iv)) > 9 * Spread(iv))
    <3>1. /\ Spread(iv) \in Int /\ Spread(iv) >= 0
          /\ (n * iv[x] - SumFunction(iv)) * (n * iv[x] - SumFunction(iv)) <= (n - 1) * Spread(iv)
      BY <1>4, <2>1, <2>2, NearMean
    <3>2. PICK e \in Int : e = (n * iv[x] - SumFunction(iv)) * (n * iv[x] - SumFunction(iv))
      <4>1. SumFunction(iv) \in Int /\ n \in Int /\ iv[x] \in Int
        <5>1. SumFunction(iv) \in Nat
          BY <1>4, <2>1, <2>2, SpreadIs
        <5> QED
          BY <1>4, <5>1
      <4>2. n * iv[x] \in Int
        BY <4>1
      <4>3. n * iv[x] - SumFunction(iv) \in Int
        BY <4>1, <4>2
      <4> QED
        BY <4>3, TimesInt
    <3>3. \A s \in Int : s >= 0 => (n - 1) * s <= 9 * s
      <4>1. n - 1 \in 1..9
        BY <1>2
      <4>2. \A k \in 1..9, s \in Int : s >= 0 => k * s <= 9 * s
        <5>1. SUFFICES ASSUME NEW k \in 1..9, NEW s \in Nat PROVE k * s <= 9 * s
          OBVIOUS
        <5>2. CASE k = 1 \/ k = 2 \/ k = 3
          BY <5>2
        <5>3. CASE k = 4 \/ k = 5 \/ k = 6
          BY <5>3
        <5>4. CASE k = 7 \/ k = 8 \/ k = 9
          BY <5>4
        <5> QED
          BY <5>2, <5>3, <5>4
      <4> QED
        BY <4>1, <4>2
    <3>4. PICK s \in Int : s = Spread(iv) /\ s >= 0
      BY <3>1
    <3>5. (n - 1) * s \in Int /\ (n - 1) * s <= 9 * s
      BY <3>3, <3>4
    <3>6. e <= (n - 1) * s
      BY <3>1, <3>2, <3>4
    <3>7. ~(e > 9 * s)
      BY <3>4, <3>5, <3>6
    <3> QED
      BY <3>2, <3>4, <3>7
  <2> QED
    BY <2>3
<1>8. ASSUME ~Back PROVE ~(10 * Cardinality(outliers) > n)
  <2>1. Cardinality(outliers) = 0
    BY <1>7, <1>8, FS_EmptySet
  <2> HIDE DEF outliers
  <2> QED
    BY <1>2, <2>1
<1> HIDE DEF Back, outliers
<1> QED
  BY <1>5, <1>6, <1>8

LEMMA AddedIs ==
  ASSUME NEW S, IsFiniteSet(S), NEW x, x \notin S, NEW n \in Nat, Cardinality(S) = n
  PROVE  IsFiniteSet({x} \cup S) /\ Cardinality({x} \cup S) = n + 1
<1>1. IsFiniteSet(S \cup {x}) /\ Cardinality(S \cup {x}) = Cardinality(S) + 1
  BY FS_AddElement
<1>2. S \cup {x} = {x} \cup S
  OBVIOUS
<1> QED
  BY <1>1, <1>2

LEMMA TakenOut ==
  ASSUME NEW S, IsFiniteSet(S), NEW n \in Nat, Cardinality(S) >= n + 1
  PROVE  S # {} /\ \A x \in S : IsFiniteSet(S \ {x}) /\ Cardinality(S \ {x}) >= n
<1>1. Cardinality(S) \in Nat
  BY FS_CardinalityType
<1>2. ASSUME NEW x \in S PROVE IsFiniteSet(S \ {x}) /\ Cardinality(S \ {x}) >= n
  <2>1. IsFiniteSet(S \ {x}) /\ Cardinality(S \ {x}) = Cardinality(S) - 1
    BY FS_RemoveElement
  <2> QED
    BY <1>1, <2>1
<1>3. S # {}
  <2>1. SUFFICES ASSUME S = {} PROVE FALSE
    OBVIOUS
  <2>2. Cardinality(S) = 0
    BY <2>1, FS_EmptySet
  <2> QED
    BY <2>2
<1> QED
  BY <1>2, <1>3

FourDiffer(i, j, k, l) == Cardinality({i, j, k, l}) = 4

\* A set of four elements or more has three that differ from one of it and from one another.
LEMMA FourOf ==
  ASSUME NEW S, IsFiniteSet(S), Cardinality(S) >= 4, NEW i \in S
  PROVE  \E j, k, l \in S : FourDiffer(i, j, k, l)
<1>1. IsFiniteSet(S \ {i}) /\ Cardinality(S \ {i}) >= 3
  <2>1. Cardinality(S) >= 3 + 1
    OBVIOUS
  <2> QED
    BY <2>1, TakenOut
<1>2. PICK j \in S \ {i} : IsFiniteSet((S \ {i}) \ {j}) /\ Cardinality((S \ {i}) \ {j}) >= 2
  <2> DEFINE R == S \ {i}
  <2>1. IsFiniteSet(R) /\ Cardinality(R) >= 2 + 1
    BY <1>1
  <2> HIDE DEF R
  <2>2. \E j \in R : IsFiniteSet(R \ {j}) /\ Cardinality(R \ {j}) >= 2
    BY <2>1, TakenOut
  <2> QED
    BY <2>2 DEF R
<1>3. PICK k \in (S \ {i}) \ {j} : TRUE
  <2> DEFINE R == (S \ {i}) \ {j}
  <2>1. IsFiniteSet(R) /\ Cardinality(R) >= 1 + 1
    BY <1>2
  <2> HIDE DEF R
  <2>2. R # {}
    BY <2>1, TakenOut
  <2> QED
    BY <2>2 DEF R
<1>4. PICK l \in S : l # i /\ l # j /\ l # k
  <2> DEFINE R == (S \ {i}) \ {j}
  <2>1. IsFiniteSet(R) /\ Cardinality(R) >= 1 + 1
    BY <1>2
  <2>2. k \in R
    OBVIOUS
  <2> HIDE DEF R
  <2>3. IsFiniteSet(R \ {k}) /\ Cardinality(R \ {k}) >= 0 + 1
    BY <2>1, <2>2, TakenOut
  <2>4. R \ {k} # {}
    BY <2>3, TakenOut
  <2> QED
    BY <2>4 DEF R
<1>5. IsFiniteSet({l}) /\ Cardinality({l}) = 1
  BY FS_Singleton
<1>6. IsFiniteSet({k} \cup {l}) /\ Cardinality({k} \cup {l}) = 1 + 1
  BY <1>4, <1>5, AddedIs
<1>7. IsFiniteSet({j} \cup ({k} \cup {l})) /\ Cardinality({j} \cup ({k} \cup {l})) = 2 + 1
  <2>1. j \notin {k} \cup {l} /\ Cardinality({k} \cup {l}) = 2
    BY <1>4, <1>6
  <2> QED
    BY <1>6, <2>1, AddedIs
<1>8. Cardinality({i} \cup ({j} \cup ({k} \cup {l}))) = 3 + 1
  <2>1. i \notin {j} \cup ({k} \cup {l}) /\ Cardinality({j} \cup ({k} \cup {l})) = 3
    BY <1>4, <1>7
  <2> QED
    BY <1>7, <2>1, AddedIs
<1>9. {i} \cup ({j} \cup ({k} \cup {l})) = {i, j, k, l}
  OBVIOUS
<1>10. j \in S /\ k \in S /\ FourDiffer(i, j, k, l)
  BY <1>2, <1>3, <1>8, <1>9 DEF FourDiffer
<1> QED
  BY <1>4, <1>10

\* n payments, c of them with a delay: a spread below a tenth of the mean makes c nearly n.
LEMMA MostDelayed ==
  ASSUME NEW n \in Nat, NEW c \in Nat, NEW T \in Nat, NEW Q \in Nat,
         T > 0, T * T <= c * Q, 100 * (n * Q - T * T) < T * T
  PROVE  100 * n < 101 * c
<1>1. PICK t \in Nat, x \in Nat, y \in Nat : t = T * T /\ x = n * Q /\ y = c * Q
  OBVIOUS
<1>2. 100 * x < 101 * y
  BY <1>1
<1>3. (100 * n) * Q < (101 * c) * Q
  <2>1. (100 * n) * Q = 100 * (n * Q) /\ (101 * c) * Q = 101 * (c * Q)
    OBVIOUS
  <2> QED
    BY <1>1, <1>2, <2>1
<1>4. \A a, b, q \in Nat : a >= b => a * q >= b * q
  <2>1. SUFFICES ASSUME NEW b \in Nat, NEW d \in Nat, NEW q \in Nat PROVE (b + d) * q >= b * q
    <3>1. \A a, b \in Nat : a >= b => \E d \in Nat : a = b + d
      <4>1. ASSUME NEW a \in Nat, NEW b \in Nat, a >= b PROVE a - b \in Nat /\ a = b + (a - b)
        BY <4>1
      <4> QED
        BY <4>1
    <3> QED
      BY <2>1, <3>1
  <2>2. (b + d) * q = b * q + d * q /\ b * q \in Nat /\ d * q \in Nat
    OBVIOUS
  <2> QED
    BY <2>2
<1>5. PICK a \in Nat, b \in Nat : a = 100 * n /\ b = 101 * c
  OBVIOUS
<1>6. a * Q < b * Q
  BY <1>3, <1>5
<1>7. a * Q \in Int /\ b * Q \in Int
  BY TimesInt
<1>8. ~(a >= b)
  <2>1. a >= b => a * Q >= b * Q
    BY <1>4
  <2>2. PICK p \in Int, q \in Int : p = a * Q /\ q = b * Q
    BY <1>7
  <2> QED
    BY <1>6, <2>1, <2>2
<1> QED
  BY <1>5, <1>8

Repeats(ps, i, j, k, l) ==
  /\ Cardinality({i, j, k, l}) = 4 /\ ps[i][1] > 0
  /\ \A q \in {j, k, l} : ps[i][2] = ps[q][2]

LEMMA CorrelationHolds ==
  ASSUME NEW n \in Nat, NEW ps \in [1..n -> Timings \X Sums],
         input = ps, answer = DetectRoutingCorrelation(ps)
  PROVE  RepeatsReported
<1> SUFFICES ASSUME answer PROVE \E i, j, k, l \in 1..n : Repeats(ps, i, j, k, l)
  <2>1. DOMAIN ps = 1..n
    OBVIOUS
  <2>2. RepeatsReported <=>
          (check = "correlation" /\ answer => \E i, j, k, l \in DOMAIN input : Repeats(input, i, j, k, l))
    BY DEF RepeatsReported, Repeats
  <2> QED
    BY <2>1, <2>2
<1>1. Len(ps) = n
  <2>1. DOMAIN ps = 1..n
    OBVIOUS
  <2> QED
    BY <2>1
<1>2. PICK delays, amounts : /\ delays = [i \in 1..n |-> ps[i][1]]
                             /\ amounts = [i \in 1..n |-> ps[i][2]]
  OBVIOUS
<1>3. DOMAIN delays = 1..n /\ \A i \in 1..n : delays[i] = ps[i][1] /\ delays[i] \in Nat
  BY <1>2, ChecksAssumption
<1>4. \A i \in 1..n : amounts[i] = ps[i][2]
  BY <1>2
<1>5. IsFiniteSet(1..n) /\ Cardinality(1..n) = n
  <2>1. 1 \in Int /\ n \in Int
    OBVIOUS
  <2>2. IsFiniteSet(1..n) /\ Cardinality(1..n) = IF 1 > n THEN 0 ELSE n - 1 + 1
    BY <2>1, FS_Interval
  <2> QED
    BY <2>2
<1>6. Values(amounts, 1..n) = {ps[i][2] : i \in 1..n}
  BY <1>4 DEF Values
<1>7. /\ SumFunction(delays) > 0
      /\ 100 * Spread(delays) < SumFunction(delays) * SumFunction(delays)
      /\ 10 * Cardinality(Values(amounts, 1..n)) < 3 * n
  <2>1. DetectRoutingCorrelation(ps)
    OBVIOUS
  <2> QED
    BY <1>1, <1>2, <1>6, <2>1 DEF DetectRoutingCorrelation
<1> DEFINE K == {i \in 1..n : delays[i] # 0}
<1>8. K \in SUBSET (1..n) /\ IsFiniteSet(K) /\ Cardinality(K) \in Nat
  <2>1. K \in SUBSET (1..n)
    OBVIOUS
  <2> QED
    BY <1>5, <2>1, FS_Subset, FS_CardinalityType
<1>9. PICK T \in Nat, Q \in Nat :
        /\ T = SumFunction(delays) /\ T = SumOver(delays, 1..n) /\ Q = SumOver(Squares(delays), 1..n)
        /\ Spread(delays) = n * Q - T * T
  BY <1>3, <1>5, SpreadIs
<1>10. \A i \in 1..n : Squares(delays)[i] = delays[i] * delays[i] /\ Squares(delays)[i] \in Nat
  BY <1>3, <1>5, SpreadIs
<1>11. T = SumOver(delays, K) /\ Q = SumOver(Squares(delays), K)
  <2>1. \A i \in (1..n) \ K : delays[i] = 0 /\ Squares(delays)[i] = 0
    BY <1>10
  <2> HIDE DEF K
  <2>2. IsFiniteSet((1..n) \ K)
    BY <1>5, FS_Difference
  <2>3. SumOver(delays, (1..n) \ K) = 0 /\ SumOver(Squares(delays), (1..n) \ K) = 0
    BY <2>1, <2>2, SumZero
  <2>4. /\ SumOver(delays, 1..n) = SumOver(delays, K) + SumOver(delays, (1..n) \ K)
        /\ SumOver(delays, K) \in Nat
    BY <1>3, <1>5, <1>8, SumSplit
  <2>5. /\ SumOver(Squares(delays), 1..n)
              = SumOver(Squares(delays), K) + SumOver(Squares(delays), (1..n) \ K)
        /\ SumOver(Squares(delays), K) \in Nat
    BY <1>5, <1>8, <1>10, SumSplit
  <2>6. T = SumOver(delays, K)
    <3>1. T = SumOver(delays, K) + 0
      BY <1>9, <2>3, <2>4
    <3> QED
      BY <2>4, <3>1
  <2>7. Q = SumOver(Squares(delays), K)
    <3>1. Q = SumOver(Squares(delays), K) + 0
      BY <1>9, <2>3, <2>5
    <3> QED
      BY <2>5, <3>1
  <2> QED
    BY <2>6, <2>7
<1>12. PICK c \in Nat : c = Cardinality(K)
  BY <1>8
<1>13. T * T <= c * Q
  <2>1. \A y \in K : delays[y] \in Nat /\ Squares(delays)[y] = delays[y] * delays[y]
    BY <1>3, <1>10
  <2> HIDE DEF K
  <2> QED
    BY <1>8, <1>11, <1>12, <2>1, SumSquares
<1>14. 100 * n < 101 * c
  <2>1. T > 0 /\ 100 * (n * Q - T * T) < T * T
    BY <1>7, <1>9
  <2> QED
    BY <1>13, <2>1, MostDelayed
<1>15. PICK i \in K : ~(Cardinality(Fibre(amounts, K, amounts[i])) <= 3)
  <2>1. SUFFICES ASSUME \A i \in K : Cardinality(Fibre(amounts, K, amounts[i])) <= 3 PROVE FALSE
    OBVIOUS
  <2> HIDE DEF K
  <2>2. /\ IsFiniteSet(Values(amounts, K)) /\ Cardinality(Values(amounts, K)) \in Nat
        /\ Cardinality(K) <= 3 * Cardinality(Values(amounts, K))
    BY <1>8, <2>1, FibresBound
  <2>3. IsFiniteSet(Values(amounts, 1..n)) /\ Cardinality(Values(amounts, 1..n)) \in Nat
    <3>1. \A x \in 1..n : Cardinality(Fibre(amounts, 1..n, amounts[x])) <= n
      <4>1. ASSUME NEW x \in 1..n PROVE Cardinality(Fibre(amounts, 1..n, amounts[x])) <= n
        <5>1. Fibre(amounts, 1..n, amounts[x]) \subseteq 1..n
          BY DEF Fibre
        <5> QED
          BY <1>5, <5>1, FS_Subset
      <4> QED
        BY <4>1
    <3> QED
      BY <1>5, <3>1, FibresBound
  <2>4. Values(amounts, K) \subseteq Values(amounts, 1..n)
    BY <1>8 DEF Values
  <2>5. Cardinality(Values(amounts, K)) <= Cardinality(Values(amounts, 1..n))
    BY <2>3, <2>4, FS_Subset
  <2>6. PICK d \in Nat, e \in Nat :
          d = Cardinality(Values(amounts, K)) /\ e = Cardinality(Values(amounts, 1..n))
    BY <2>2, <2>3
  <2>7. c <= 3 * d /\ d <= e /\ 10 * e < 3 * n
    BY <1>7, <1>12, <2>2, <2>5, <2>6
  <2> QED
    BY <1>14, <2>7
<1> DEFINE F == Fibre(amounts, K, amounts[i])
<1>16. F \in SUBSET K /\ i \in F /\ \A q \in F : amounts[q] = amounts[i]
  BY DEF Fibre
<1>17. IsFiniteSet(F) /\ Cardinality(F) >= 4
  <2> HIDE DEF F, K
  <2>1. IsFiniteSet(F) /\ Cardinality(F) \in Nat
    BY <1>8, <1>16, FS_Subset, FS_CardinalityType
  <2>2. ~(Cardinality(F) <= 3)
    BY <1>15 DEF F
  <2> QED
    BY <2>1, <2>2
<1> HIDE DEF F
<1>18. PICK j \in F, k \in F, l \in F : FourDiffer(i, j, k, l)
  <2>1. i \in F /\ IsFiniteSet(F) /\ Cardinality(F) >= 4
    BY <1>16, <1>17
  <2> QED
    BY <2>1, FourOf
<1>19. ps[i][1] > 0
  <2>1. i \in 1..n /\ delays[i] # 0 /\ delays[i] \in Nat
    BY <1>3
  <2> QED
    BY <1>3, <2>1
<1>20. F \in SUBSET (1..n)
  BY <1>8, <1>16
<1>21. ps[i][2] = ps[j][2] /\ ps[i][2] = ps[k][2] /\ ps[i][2] = ps[l][2]
  <2>1. i \in 1..n /\ j \in 1..n /\ k \in 1..n /\ l \in 1..n
    BY <1>16, <1>20
  <2> HIDE DEF K
  <2> QED
    BY <1>4, <1>16, <1>18, <2>1
<1> HIDE DEF K
<1>22. Repeats(ps, i, j, k, l)
  BY <1>18, <1>19, <1>21 DEF Repeats, FourDiffer
<1>23. i \in 1..n /\ j \in 1..n /\ k \in 1..n /\ l \in 1..n
  BY <1>16, <1>18, <1>20
<1> QED
  BY <1>22, <1>23

\* The checks that the invariant says nothing of.
SilentChecks == {"none", "timestamp", "eclipse", "handshake", "stake", "size", "deposit", "gate",
                 "stun", "turn", "bolt4", "bias", "pins", "dht", "batch", "backoff"}

\* What was called, on what, and what it answered.
AskedOf(c, i, a) ==
  \/ c \in SilentChecks
  \/ /\ c = "fee"
     /\ \E fees \in [1..3 -> OracleFees], proposed \in OracleFees :
          i = <<fees, proposed>> /\ a = GetSecureFeeEstimate(fees)
  \/ /\ c = "version"
     /\ \E v \in [1..3 -> Versions] : i = v /\ a = EnforceMinProtocolVersion(v)
  \/ /\ c = "clock"
     /\ \E n \in Nat : \E ts \in [1..n -> Instants] :
          i = ts /\ a = DetectClockManipulation(ts)
  \/ /\ c = "correlation"
     /\ \E n \in Nat : \E ps \in [1..n -> Timings \X Sums] :
          i = ps /\ a = DetectRoutingCorrelation(ps)

Asked == AskedOf(check, input, answer)

LEMMA AskedStep ==
  ASSUME ChecksNext
  PROVE  Asked'
<1>1. ASSUME NEW first \in [Pinned -> Certs], NEW second \in [Pinned -> Certs],
             NEW one \in SUBSET Pinned, NEW two \in SUBSET Pinned, NEW p \in Pinned, NEW cert \in Certs,
             Called("pins", <<first, one, second, two, p, cert>>,
                    EnforceMTLS(PinBootstrapCerts(PinBootstrapCerts(<<>>, one, first), two, second), p, cert))
      PROVE  Asked'
  <2>1. check' = "pins"
    BY <1>1 DEF Called
  <2> QED
    BY <2>1 DEF Asked, AskedOf, SilentChecks
<1>2. ASSUME NEW keyType \in {"rsa", "ed25519"}, NEW node \in Pinned, NEW named \in Pinned,
             NEW signed \in Instants, NEW sent \in Instants,
             LET entry(v) == [key |-> "k", value |-> v, node |-> named]
                 signature == SignDHTEntry(keyType, node, entry(signed))
             IN  Called("dht", <<keyType, node, named, signed, sent>>,
                        signature # NoSignature /\ VerifyDHTEntry(entry(sent), signature))
      PROVE  Asked'
  <2>1. check' = "dht"
    BY <1>2 DEF Called
  <2> QED
    BY <2>1 DEF Asked, AskedOf, SilentChecks
<1>3. ASSUME NEW c \in SilentChecks, NEW i, NEW a, Called(c, i, a) PROVE Asked'
  BY <1>3 DEF Called, Asked, AskedOf
<1>4. ASSUME NEW r, Called("batch", r, BatchVerify(r)) PROVE Asked'
  BY <1>4 DEF Called, Asked, AskedOf, SilentChecks
<1>5. ASSUME NEW n \in Nat, NEW ps \in [1..n -> Timings \X Sums],
             Called("correlation", ps, DetectRoutingCorrelation(ps))
      PROVE  Asked'
  BY <1>5 DEF Called, Asked, AskedOf
<1>6. ASSUME NEW fees \in [1..3 -> OracleFees], NEW proposed \in OracleFees,
             Called("fee", <<fees, proposed>>, GetSecureFeeEstimate(fees))
      PROVE  Asked'
  BY <1>6 DEF Called, Asked, AskedOf
<1>7. ASSUME NEW v \in [1..3 -> Versions], Called("version", v, EnforceMinProtocolVersion(v))
      PROVE  Asked'
  BY <1>7 DEF Called, Asked, AskedOf
<1>8. ASSUME NEW n \in Nat, NEW ts \in [1..n -> Instants], Called("clock", ts, DetectClockManipulation(ts))
      PROVE  Asked'
  BY <1>8 DEF Called, Asked, AskedOf
<1>9. ASSUME NEW counts \in [Leaders -> LedCounts], Called("bias", counts, DetectLeaderBias(counts))
      PROVE  Asked'
  BY <1>9 DEF Called, Asked, AskedOf, SilentChecks
<1>10. ASSUME NEW a \in Nat, Called("backoff", a, ExponentialBackoff(a, 1, 30)) PROVE Asked'
  BY <1>10 DEF Called, Asked, AskedOf, SilentChecks
<1>11. \A n \in Histories : n \in Nat
  BY ChecksAssumption
<1>12. /\ \A n \in 1..MaxInstants : n \in Nat
       /\ \A n \in 0..MaxAttempts : n \in Nat
  BY ChecksAssumption
<1> HIDE DEF Asked
<1>13. CASE \E first, second \in [Pinned -> Certs], one, two \in SUBSET Pinned, p \in Pinned, cert \in Certs :
              LET pins == PinBootstrapCerts(PinBootstrapCerts(<<>>, one, first), two, second)
              IN  Called("pins", <<first, one, second, two, p, cert>>, EnforceMTLS(pins, p, cert))
  BY <1>13, <1>1, Zenon
<1>14. CASE \E keyType \in {"rsa", "ed25519"}, node, named \in Pinned, signed, sent \in Instants :
              LET entry(v) == [key |-> "k", value |-> v, node |-> named]
                  signature == SignDHTEntry(keyType, node, entry(signed))
              IN  Called("dht", <<keyType, node, named, signed, sent>>,
                         signature # NoSignature /\ VerifyDHTEntry(entry(sent), signature))
  <2>1. PICK keyType \in {"rsa", "ed25519"}, node, named \in Pinned, signed, sent \in Instants :
               LET entry(v) == [key |-> "k", value |-> v, node |-> named]
                   signature == SignDHTEntry(keyType, node, entry(signed))
               IN  Called("dht", <<keyType, node, named, signed, sent>>,
                          signature # NoSignature /\ VerifyDHTEntry(entry(sent), signature))
    BY <1>14, Zenon
  <2> QED
    BY <2>1, <1>2, Zenon
<1>15. CASE \E fits \in BOOLEAN, sent, now \in Instants : Called("stun", <<fits, sent, now>>, ValidateSTUN(fits, sent, now))
  BY <1>15, <1>3 DEF SilentChecks
<1>16. CASE \E scheme \in {"turn", "turns", "http", "none"}, e \in Instants \cup {NotANumber}, now \in Instants :
              Called("turn", <<scheme, e, now>>, VerifyTURNServer(scheme, e, now))
  BY <1>16, <1>3 DEF SilentChecks
<1>17. CASE \E n \in 0 .. 3 : \E r \in [1 .. n -> {"verified", "refused", "throws"}] : Called("batch", r, BatchVerify(r))
  BY <1>17, <1>4, Zenon
<1>18. CASE \E onion \in BOOLEAN, hops \in HopCounts, v \in {0, 1} :
              Called("bolt4", <<onion, hops, v>>, ValidateBOLT4Compliance(onion, hops, v))
  BY <1>18, <1>3 DEF SilentChecks
<1>19. CASE \E n \in Histories : \E ps \in [1 .. n -> Timings \X Sums] :
              Called("correlation", ps, DetectRoutingCorrelation(ps))
  BY <1>19, <1>5, <1>11, Zenon
<1>20. CASE \E fees \in [1 .. 3 -> OracleFees], proposed \in OracleFees :
              Called("fee", <<fees, proposed>>, GetSecureFeeEstimate(fees))
  BY <1>20, <1>6, Zenon
<1>21. CASE \E v \in [1 .. 3 -> Versions] : Called("version", v, EnforceMinProtocolVersion(v))
  BY <1>21, <1>7, Zenon
<1>22. CASE \E n \in 1 .. MaxInstants : \E ts \in [1 .. n -> Instants] : Called("clock", ts, DetectClockManipulation(ts))
  BY <1>22, <1>8, <1>12, Zenon
<1>23. CASE \E m, l \in Instants, t \in Instants : Called("timestamp", <<m, l, t>>, ValidateTimestamp(m, l, t))
  BY <1>23, <1>3 DEF SilentChecks
<1>24. CASE \E counts \in [Leaders -> LedCounts] : Called("bias", counts, DetectLeaderBias(counts))
  BY <1>24, <1>9, Zenon
<1>25. CASE \E n \in 0 .. 3 : \E asns \in [1 .. n -> PeerAsns] : Called("eclipse", asns, DetectEclipse(asns))
  BY <1>25, <1>3 DEF SilentChecks
<1>26. CASE \E p \in SUBSET Offered : Called("handshake", p, NegotiateSecureHandshake(p))
  BY <1>26, <1>3 DEF SilentChecks
<1>27. CASE \E a \in 0 .. MaxAttempts : Called("backoff", a, ExponentialBackoff(a, 1, 30))
  BY <1>27, <1>10, <1>12, Zenon
<1>28. CASE \E s, m \in Instants : Called("stake", <<s, m>>, VerifyStake(s, m))
  BY <1>28, <1>3 DEF SilentChecks
<1>29. CASE \E s, m \in Instants : Called("size", <<s, m>>, EnforceMessageSizeLimit(s, m))
  BY <1>29, <1>3 DEF SilentChecks
<1>30. CASE \E r \in Instants : Called("deposit", r, RequireRelayDeposit(r))
  BY <1>30, <1>3 DEF SilentChecks
<1>31. CASE \E r, m \in 0 .. 10 : Called("gate", <<r, m>>, ReputationGateDHT(r, m))
  BY <1>31, <1>3 DEF SilentChecks
<1> QED
  BY <1>13, <1>14, <1>15, <1>16, <1>17, <1>18, <1>19, <1>20, <1>21, <1>22, <1>23, <1>24, <1>25,
     <1>26, <1>27, <1>28, <1>29, <1>30, <1>31, Zenon DEF ChecksNext

\* Whatever was asked, each part of the word is kept: the other parts are about other checks.
LEMMA AskedKeepsWord ==
  ASSUME Asked
  PROVE  ChecksKeepTheirWord /\ ChecksTypeOK
<1>1. FeeWithinAnswers
  <2>1. CASE check # "fee"
    BY <2>1 DEF FeeWithinAnswers
  <2>2. CASE check = "fee"
    BY <2>2, FeeHolds DEF Asked, AskedOf, SilentChecks
  <2> QED
    BY <2>1, <2>2
<1>2. VersionNotBelow
  <2>1. CASE check # "version"
    BY <2>1 DEF VersionNotBelow
  <2>2. CASE check = "version"
    BY <2>2, VersionHolds DEF Asked, AskedOf, SilentChecks
  <2> QED
    BY <2>1, <2>2
<1>3. ClockReported
  <2>1. CASE check # "clock"
    BY <2>1 DEF ClockReported
  <2>2. CASE check = "clock"
    BY <2>2, ClockHolds DEF Asked, AskedOf, SilentChecks
  <2> QED
    BY <2>1, <2>2
<1>4. RepeatsReported
  <2>1. CASE check # "correlation"
    BY <2>1 DEF RepeatsReported
  <2>2. CASE check = "correlation"
    BY <2>2, CorrelationHolds DEF Asked, AskedOf, SilentChecks
  <2> QED
    BY <2>1, <2>2
<1>5. ChecksTypeOK
  BY DEF Asked, AskedOf, SilentChecks, ChecksTypeOK
<1> QED
  BY <1>1, <1>2, <1>3, <1>4, <1>5 DEF ChecksKeepTheirWord

LEMMA AlwaysAsked == ChecksSpec => []Asked
<1>1. ChecksInit => Asked
  BY DEF ChecksInit, Asked, AskedOf, SilentChecks
<1>2. Asked /\ [ChecksNext]_checkVars => Asked'
  <2>1. CASE UNCHANGED checkVars
    BY <2>1 DEF checkVars, Asked
  <2> QED
    BY <2>1, AskedStep
<1> QED
  BY <1>1, <1>2, PTL DEF ChecksSpec

\* Every check of the hardening services keeps its word on every input: the fee lies within the
\* answers, a version below the minimum is refused, a clock that goes back is reported, a history
\* without repeats is not (security/networkHardening.ts, lightningHardening.ts).
THEOREM ChecksKeepTheirWordAlways == ChecksSpec => []ChecksKeepTheirWord
BY AlwaysAsked, AskedKeepsWord, PTL

\* Every check of the hardening services that was asked is one there is (security/networkHardening.ts,
\* lightningHardening.ts).
THEOREM ChecksTypeCorrect == ChecksSpec => []ChecksTypeOK
BY AlwaysAsked, AskedKeepsWord, PTL

-----------------------------------------------------------------------------
(***************************************************************************)
(* The parts together.  They share no state, so that every step of the     *)
(* whole is a step of a part or leaves it alone, and what was proved of a  *)
(* part holds of the whole.                                                *)
(***************************************************************************)
THEOREM StepOfPart ==
  ASSUME [ProtocolsNext]_allVars
  PROVE  /\ [ConsensusNext]_consensusVars /\ [ReputationNext]_reputationVars
         /\ [TrainingNext]_trainingVars /\ [LightningNext]_lightningVars
         /\ [StreamNext]_streamVars /\ [RateNext]_rateVars /\ [AuditNext]_auditVars
         /\ [DiversityNext]_diversityVars /\ [ChecksNext]_checkVars /\ [AgentNext]_agentVars
<1>1. CASE UNCHANGED allVars
  BY <1>1 DEF allVars
<1>2. CASE ProtocolsNext
  BY <1>2 DEF ProtocolsNext
<1> QED
  BY <1>1, <1>2

\* Each part of a behaviour of the whole is a behaviour of the part.
THEOREM PartsBehave ==
  ProtocolsSpec => /\ ConsensusSpec /\ ReputationSpec /\ TrainingSpec
                   /\ LightningSpec /\ StreamSpec /\ RateSpec /\ AuditSpec
                   /\ DiversitySpec /\ ChecksSpec /\ AgentSpec
<1>1. ProtocolsInit => /\ ConsensusInit /\ ReputationInit /\ TrainingInit
                       /\ LightningInit /\ StreamInit /\ RateInit /\ AuditInit
                       /\ DiversityInit /\ ChecksInit /\ AgentInit
  BY DEF ProtocolsInit
<1>2. [ProtocolsNext]_allVars =>
        /\ [ConsensusNext]_consensusVars /\ [ReputationNext]_reputationVars
        /\ [TrainingNext]_trainingVars /\ [LightningNext]_lightningVars
        /\ [StreamNext]_streamVars /\ [RateNext]_rateVars /\ [AuditNext]_auditVars
        /\ [DiversityNext]_diversityVars /\ [ChecksNext]_checkVars /\ [AgentNext]_agentVars
  BY StepOfPart
<1> QED
  BY <1>1, <1>2, PTL DEF ProtocolsSpec, ConsensusSpec, ReputationSpec, TrainingSpec, LightningSpec,
                         StreamSpec, RateSpec, AuditSpec, DiversitySpec, ChecksSpec, AgentSpec

\* A treasury spend is broadcast no more after a broadcast has ended (executeIfThresholdMet), and
\* a stream begins no payment after it was stopped (streamPayment).
THEOREM NothingAfterTheEndAlways == ProtocolsSpec => NothingAfterTheEnd
BY PartsBehave, NoBroadcastAfterOneAlways, NoTickAfterStopAlways, PTL DEF NothingAfterTheEnd

\* Which part a behaviour is about never changes.
FocusKnown ==
  focus \in {"consensus", "reputation", "training", "lightning", "rates", "audit", "diversity",
             "checks", "streams", "agents"}

LEMMA FocusKept == ProtocolsSpec => []FocusKnown
<1>1. ProtocolsInit => FocusKnown
  BY PartsAssumption DEF ProtocolsInit, FocusKnown
<1>2. FocusKnown /\ [ProtocolsNext]_allVars => FocusKnown'
  BY DEF ProtocolsNext, allVars, FocusKnown
<1> QED
  BY <1>1, <1>2, PTL DEF ProtocolsSpec

\* What the audits of votes and peers report is what they are asked to report, no list or quorum
\* passes that is not diverse (security/networkHardening.ts), an invoice is accepted once
\* (security/lightningHardening.ts), and the state of every part keeps its shape.
THEOREM AuditsReportAlways == ProtocolsSpec => []AuditsReport
<1>1. /\ FocusKnown /\ ConsensusTypeOK /\ ReputationTypeOK /\ TrainingTypeOK /\ LightningTypeOK
      /\ RateTypeOK /\ AuditTypeOK /\ DiversityTypeOK /\ ChecksTypeOK /\ StreamTypeOK /\ AgentTypeOK
      => ProtocolsTypesOK
  BY DEF FocusKnown, ProtocolsTypesOK
<1>2. ProtocolsTypesOK /\ SpreadChecked /\ CollusionReported /\ SingleUse => AuditsReport
  BY DEF AuditsReport
<1> QED
  BY <1>1, <1>2, FocusKept, PartsBehave, ConsensusTypeCorrect, ReputationTypeCorrect,
     TrainingTypeCorrect, LightningTypeCorrect, RateTypeCorrect, AuditTypeCorrect,
     DiversityTypeCorrect, ChecksTypeCorrect, StreamTypeCorrect, AgentTypeCorrect,
     SpreadCheckedAlways, CollusionReportedAlways, SingleUseAlways, PTL
=============================================================================
