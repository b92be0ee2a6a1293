------------------------------- MODULE VoteAudit -------------------------------
(***************************************************************************)
(* The consensus hardening (class ConsensusHardening of                    *)
(* security/networkHardening.ts): the detection of double votes, the       *)
(* history of the leaders, and the search for colluding voters, which is a *)
(* pure function of the votes it is given.                                 *)
(***************************************************************************)
EXTENDS Naturals, Sequences, FiniteSets, SequencesExt

CONSTANTS
  AuditedRounds,   \* round ids
  Ballots,         \* what may be voted in a round
  MaxBatch,        \* bound on the votes of one call
  Participants,    \* node ids that may lead
  LeadersKept,     \* 100 in selectLeaderVRF
  MaxConsecutive,  \* maxConsecutiveRounds
  CoVoters,        \* the voters 1..CoVoters of the proposals of the collusion search
  MaxProposals     \* bound on these proposals

VARIABLES
  voteHistory,     \* voteHistory of one node: the first vote of each round
  presented,       \* votes of the node the detector was given (history)
  reported,        \* the node was reported as an equivocator
  leaderHistory,   \* leaderHistory
  patterns,        \* the argument of detectQuorumCollusion: proposals for each set of voters
  groups           \* its answer

auditVars == <<voteHistory, presented, reported, leaderHistory, patterns, groups>>

NoBallot == "none"

ASSUME AuditAssumption ==
  /\ NoBallot \notin Ballots /\ MaxBatch \in Nat
  /\ LeadersKept \in Nat \ {0} /\ CoVoters \in Nat /\ MaxProposals \in Nat

\* The voters of a proposal, each listed once; one voter makes no pair, as none does.
VoteSets == {s \in SUBSET (1..CoVoters) : Cardinality(s) # 1}
NoPatterns == [s \in VoteSets |-> 0]
AuditVote == [round : AuditedRounds, vote : Ballots]
Batches == UNION {[1..k -> AuditVote] : k \in 1..MaxBatch}

AuditInit ==
  /\ voteHistory = [r \in AuditedRounds |-> NoBallot]
  /\ presented = {} /\ reported = FALSE
  /\ leaderHistory = <<>>
  /\ patterns = NoPatterns /\ groups = {}

-----------------------------------------------------------------------------
\* What the loop over a batch does with one vote, given the history so far and whether it has
\* returned at an earlier vote.
Record(state, v) ==
  IF state.found THEN state
  ELSE IF state.history[v.round] = NoBallot
       THEN [state EXCEPT !.history[v.round] = v.vote, !.seen = @ \cup {v}]
       ELSE [state EXCEPT !.found = state.history[v.round] # v.vote, !.seen = @ \cup {v}]

\* A fault: the votes of a batch are compared with those of earlier batches only.
DetectAcrossBatches(batch) ==
  LET clashes == {i \in DOMAIN batch : voteHistory[batch[i].round] \notin {NoBallot, batch[i].vote}}
  IN /\ voteHistory' = [r \in AuditedRounds |->
          IF voteHistory[r] = NoBallot /\ \E i \in DOMAIN batch : batch[i].round = r
          THEN batch[CHOOSE i \in DOMAIN batch : batch[i].round = r].vote ELSE voteHistory[r]]
     /\ presented' = presented \cup {batch[i] : i \in DOMAIN batch}
     /\ reported' = (reported \/ clashes # {})
     /\ UNCHANGED <<leaderHistory, patterns, groups>>

\* The call returns at the first equivocation: the votes after it are not recorded.
DetectDoubleVote(batch) ==
  LET end == FoldLeft(Record, [history |-> voteHistory, seen |-> presented, found |-> FALSE], batch)
  IN /\ voteHistory' = end.history /\ presented' = end.seen
     /\ reported' = (reported \/ end.found)
     /\ UNCHANGED <<leaderHistory, patterns, groups>>

\* The VRF's output picks any participant; nothing asks enforceLeaderRotation first.
SelectLeaderVRF(leader) ==
  /\ leaderHistory' = IF Len(leaderHistory) = LeadersKept THEN Append(Tail(leaderHistory), leader)
                      ELSE Append(leaderHistory, leader)
  /\ UNCHANGED <<voteHistory, presented, reported, patterns, groups>>

ConsecutiveCount(leader) ==
  LET others == {i \in DOMAIN leaderHistory : leaderHistory[i] # leader}
  IN Cardinality({i \in DOMAIN leaderHistory : \A j \in others : j < i})
EnforceLeaderRotation(leader) == ConsecutiveCount(leader) >= MaxConsecutive

-----------------------------------------------------------------------------
TotalVotes(p) == SumFunctionOnSet(p, VoteSets)
CoVotes(p, v, w) == SumFunctionOnSet(p, {s \in VoteSets : {v, w} \subseteq s})

\* count / totalVotes > 0.8
Correlated(p, v, w) == 10 * CoVotes(p, v, w) > 8 * TotalVotes(p)

\* findClique: the candidates are compared with v and w, not with each other.
FindClique(p, v, w) ==
  {v, w} \cup {c \in (1..CoVoters) \ {v, w} : Correlated(p, v, c) /\ Correlated(p, w, c)}

\* A fault: a voter who is in a reported group is not looked at again, as the set "processed"
\* seems to intend.
CollusionGroupsOnce(p) ==
  LET Looked(found, pair) ==
        IF pair[1] \in UNION {g \in found : Cardinality(g) >= 3} THEN found ELSE found \cup {FindClique(p, pair[1], pair[2])}
      pairs == {q \in (1..CoVoters) \X (1..CoVoters) : q[1] < q[2] /\ Correlated(p, q[1], q[2])}
  IN {g \in FoldLeft(Looked, {}, SetToSeq(pairs)) : Cardinality(g) >= 3}

\* Every pair is looked at once: the test of "processed" only recognises pairs.
CollusionGroups(p) ==
  LET pairs == {q \in (1..CoVoters) \X (1..CoVoters) : q[1] < q[2] /\ Correlated(p, q[1], q[2])}
  IN {g \in {FindClique(p, q[1], q[2]) : q \in pairs} : Cardinality(g) >= 3}

\* One more proposal with these voters, and the search over all of them.
DetectQuorumCollusion(s) ==
  /\ TotalVotes(patterns) < MaxProposals
  /\ patterns' = [patterns EXCEPT ![s] = @ + 1]
  /\ groups' = CollusionGroups(patterns')
  /\ UNCHANGED <<voteHistory, presented, reported, leaderHistory>>

-----------------------------------------------------------------------------
\* The three parts share nothing: a behaviour is one of one of them.
AuditNext ==
  \/ patterns = NoPatterns /\ leaderHistory = <<>> /\ \E b \in Batches : DetectDoubleVote(b)
  \/ patterns = NoPatterns /\ presented = {} /\ \E n \in Participants : SelectLeaderVRF(n)
  \/ presented = {} /\ leaderHistory = <<>> /\ \E s \in VoteSets : DetectQuorumCollusion(s)

AuditSpec == AuditInit /\ [][AuditNext]_auditVars

AuditTypeOK ==
  /\ voteHistory \in [AuditedRounds -> Ballots \cup {NoBallot}]
  /\ presented \subseteq AuditVote /\ reported \in BOOLEAN
  /\ leaderHistory \in Seq(Participants) /\ Len(leaderHistory) <= LeadersKept
  /\ DOMAIN patterns = VoteSets /\ TotalVotes(patterns) <= MaxProposals
  /\ \A g \in groups : g \subseteq 1..CoVoters /\ Cardinality(g) >= 3

\* A node is reported exactly when two different votes of one round have been presented, in one
\* batch or over several: stopping at the first equivocation loses none.
EquivocatorsCaught ==
  reported <=> \E v, w \in presented : v.round = w.round /\ v.vote # w.vote

\* Voters who pairwise vote together in more than 80 % of the proposals are found, all of them
\* in one reported group; and although a group's members are compared with two of them only, any
\* two members of a group vote together in more than 60 %.
CollusionReported ==
  /\ \A s \in SUBSET (1..CoVoters) :
       Cardinality(s) >= 3 /\ (\A v, w \in s : v # w => Correlated(patterns, v, w))
         => \E g \in groups : s \subseteq g
  /\ \A g \in groups : \A v, w \in g :
       v # w => 10 * CoVotes(patterns, v, w) > 6 * TotalVotes(patterns)
=============================================================================
