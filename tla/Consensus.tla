------------------------------ MODULE Consensus ------------------------------
(***************************************************************************)
(* The consensus engine (consensus/engine.ts): rounds that collect votes,  *)
(* their timers, verifications of an inference result (also through        *)
(* verification/mesh.ts), and the DAG mempool.  A verification creates a   *)
(* round, waits for votes and evaluates them in a later step; the id of    *)
(* its round is returned only with the evaluation.                         *)
(***************************************************************************)
EXTENDS Naturals, Sequences, FiniteSets, SequencesExt

CONSTANTS
  RoundIds,     \* ids a round may draw
  Voters,       \* node ids that send votes
  NodeCount,    \* this.nodes.length
  MinPeers,     \* values of proposeVerification's minPeers
  Proofs,       \* task ids of submitted proofs
  Workers,      \* worker ids submitProof may draw
  MaxVotes,     \* bound on the votes of a round
  MaxProofs     \* bound on the proofs in the mempool

ASSUME ConsensusAssumption == NodeCount \in Nat /\ MaxVotes \in Nat

VARIABLES
  rounds,       \* bftRounds: the rounds created so far
  waiting,      \* rounds whose verification has not been evaluated yet
  public,       \* rounds whose id somebody outside the engine holds
  verdicts,     \* the answers of proposeVerification
  penalties,    \* times a node's score was lowered, 10 meaning a score of 0
  mempool,      \* dagMempool: a sequence of workers with their proofs
  sequenced     \* the last answer of bullsharkSequence

consensusVars == <<rounds, waiting, public, verdicts, penalties, mempool, sequenced>>

Vote == [node : Voters, approve : BOOLEAN]
RoundType == [status : {"pending", "passed", "failed"},
              votes : UNION {[1..k -> Vote] : k \in 0..MaxVotes},
              timer : BOOLEAN]
Verdict == [verified : BOOLEAN, round : RoundIds \cup {"none"}]

Size == IF NodeCount = 0 THEN 5 ELSE NodeCount
Faulty == (Size - 1) \div 3
QuorumSize == 2 * Faulty + 1
Approvals(r) == Cardinality({i \in DOMAIN r.votes : r.votes[i].approve})
IsQuorumReached(r) == Approvals(r) > Faulty

ConsensusInit ==
  /\ rounds = <<>>
  /\ waiting = {} /\ public = {} /\ verdicts = {}
  /\ penalties = [n \in Voters |-> 0]
  /\ mempool = <<>> /\ sequenced = <<>>

NewRound == [status |-> "pending", votes |-> <<>>, timer |-> TRUE]
AddRound(id) ==
  /\ id \notin DOMAIN rounds
  /\ rounds' = [i \in DOMAIN rounds \cup {id} |-> IF i = id THEN NewRound ELSE rounds[i]]

\* createRound and proposeResult return the round, id included.
CreateRound(id) ==
  /\ AddRound(id)
  /\ public' = public \cup {id}
  /\ UNCHANGED <<waiting, verdicts, penalties, mempool, sequenced>>

\* A fault: the timer fails a round whatever its status.
RoundTimeoutBlind(id) ==
  /\ id \in DOMAIN rounds /\ rounds[id].timer
  /\ rounds' = [rounds EXCEPT ![id].timer = FALSE, ![id].status = "failed"]
  /\ UNCHANGED <<waiting, public, verdicts, penalties, mempool, sequenced>>

\* The timer set by createRound.
RoundTimeout(id) ==
  /\ id \in DOMAIN rounds /\ rounds[id].timer
  /\ rounds' = [rounds EXCEPT ![id].timer = FALSE,
                  ![id].status = IF @ = "pending" THEN "failed" ELSE @]
  /\ UNCHANGED <<waiting, public, verdicts, penalties, mempool, sequenced>>

\* Neither the sender, nor an earlier vote of his, nor the status is looked at.
ReceiveVote(id, n, approve) ==
  /\ id \in DOMAIN rounds \cap public
  /\ Len(rounds[id].votes) < MaxVotes
  /\ LET r == [rounds[id] EXCEPT !.votes = Append(@, [node |-> n, approve |-> approve])]
     IN rounds' = [rounds EXCEPT ![id] =
                     IF Approvals(r) >= QuorumSize THEN [r EXCEPT !.status = "passed"] ELSE r]
  /\ UNCHANGED <<waiting, public, verdicts, penalties, mempool, sequenced>>

\* Fewer peers than asked for: verified without a round.
VerifyAlone(minPeers) ==
  /\ (IF NodeCount = 0 THEN 1 ELSE NodeCount) < minPeers
  /\ verdicts' = verdicts \cup {[verified |-> TRUE, round |-> "none"]}
  /\ UNCHANGED <<rounds, waiting, public, penalties, mempool, sequenced>>

\* The part of proposeVerification before its wait.
ProposeVerification(id, minPeers) ==
  /\ (IF NodeCount = 0 THEN 1 ELSE NodeCount) >= minPeers
  /\ AddRound(id)
  /\ waiting' = waiting \cup {id}
  /\ UNCHANGED <<public, verdicts, penalties, mempool, sequenced>>

\* The part after the wait: the votes are evaluated and every dissenting vote costs its
\* node 0.05 of its score of 0.5 or less, down to 0.
EvaluateVerification(id) ==
  /\ id \in waiting
  /\ LET r == rounds[id]
         Dissents(n) == Cardinality({i \in DOMAIN r.votes :
                                       r.votes[i].node = n /\ ~r.votes[i].approve})
     IN /\ verdicts' = verdicts \cup {[verified |-> Approvals(r) >= QuorumSize, round |-> id]}
        /\ penalties' = [n \in Voters |->
             IF penalties[n] + Dissents(n) > 10 THEN 10 ELSE penalties[n] + Dissents(n)]
  /\ waiting' = waiting \ {id} /\ public' = public \cup {id}
  /\ UNCHANGED <<rounds, mempool, sequenced>>

\* Every proof draws a worker id; two equal draws share a list.
SubmitProof(w, p) ==
  /\ Len(FlattenSeq([i \in DOMAIN mempool |-> mempool[i].batch])) < MaxProofs
  /\ mempool' =
       IF \E i \in DOMAIN mempool : mempool[i].worker = w
       THEN [i \in DOMAIN mempool |->
               IF mempool[i].worker = w THEN [mempool[i] EXCEPT !.batch = Append(@, p)]
               ELSE mempool[i]]
       ELSE Append(mempool, [worker |-> w, batch |-> <<p>>])
  /\ UNCHANGED <<rounds, waiting, public, verdicts, penalties, sequenced>>

BullsharkSequence ==
  /\ sequenced' = FlattenSeq([i \in DOMAIN mempool |-> mempool[i].batch])
  /\ mempool' = <<>>
  /\ UNCHANGED <<rounds, waiting, public, verdicts, penalties>>

ConsensusNext ==
  \/ \E id \in RoundIds :
       \/ CreateRound(id) \/ RoundTimeout(id) \/ EvaluateVerification(id)
       \/ \E n \in Voters, approve \in BOOLEAN : ReceiveVote(id, n, approve)
       \/ \E k \in MinPeers : ProposeVerification(id, k)
  \/ \E k \in MinPeers : VerifyAlone(k)
  \/ \E w \in Workers, p \in Proofs : SubmitProof(w, p)
  \/ BullsharkSequence

ConsensusSpec == ConsensusInit /\ [][ConsensusNext]_consensusVars

ConsensusTypeOK ==
  /\ DOMAIN rounds \subseteq RoundIds
  /\ \A id \in DOMAIN rounds : rounds[id] \in RoundType
  /\ waiting \subseteq DOMAIN rounds /\ public \subseteq DOMAIN rounds
  /\ verdicts \subseteq Verdict
  /\ penalties \in [Voters -> 0..10]
  /\ sequenced \in Seq(Proofs)
  /\ \A i \in DOMAIN mempool : mempool[i] \in [worker : Workers, batch : Seq(Proofs)]

\* A round is passed exactly when it holds a quorum of approvals, whatever the order of its
\* votes and its timer: votes after the timeout still pass it (receiveVote does not look at
\* the status), and the timer never takes back a passed round.
PassedIffQuorum ==
  \A id \in DOMAIN rounds : (rounds[id].status = "passed") <=> (Approvals(rounds[id]) >= QuorumSize)
=============================================================================
