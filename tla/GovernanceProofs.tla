--------------------------- MODULE GovernanceProofs ---------------------------
(***************************************************************************)
(* Delegations, open votes, counted votes and executed spends of           *)
(* Governance, for every set of voters and proposals, every choice of      *)
(* periods and amounts.                                                    *)
(*                                                                         *)
(* Delegations, votes and spends first, by an invariant (IInv) that never  *)
(* looks into powers and tallies.  Then the books (BooksInv): the power of *)
(* a ballot is a sum over its delegators, a tally the sum of its ballots,  *)
(* by the lemmas of FoldLemmas, and types rest on these sums.              *)
(***************************************************************************)
EXTENDS Governance, FoldLemmas, TLAPS

\* The shape of the state, as far as the proofs need it.
Shape ==
  /\ status \in [Proposals -> Status]
  /\ tally = [p \in Proposals |-> tally[p]]
  /\ votes = [p \in Proposals |-> [v \in Voters |-> votes[p][v]]]
  /\ delegations \in [Voters -> Voters \cup {None}]
  /\ delegationIndex \in [Voters -> SUBSET Voters]
  /\ treasuryBalance \in Nat
  /\ spends \in [Proposals -> Nat]
  /\ addressed \in [Proposals -> BOOLEAN]

\* Voting has started for a proposal that has votes.
VotesAreCast ==
  \A p \in Proposals, v \in Voters :
    HasVoted(p, v) => status[p] \notin {"absent", "discussion"}

IInv ==
  /\ Shape
  /\ DelegationSound
  /\ VotesAreCast
  /\ NoDelegatorVotes
  /\ PassedByThreshold
  /\ ExecutedIsPaid

-----------------------------------------------------------------------------
\* Each handler keeps the shape of the state; a deposit or a spend leaves the
\* treasury a natural number because of its guard.
LEMMA InitShape == Init => Shape
  BY GovernanceAssumption DEF Init, Shape, Status, NoVote

LEMMA DetachedTyped ==
  ASSUME NEW v \in Voters, delegationIndex \in [Voters -> SUBSET Voters]
  PROVE  Detached(v) \in [Voters -> SUBSET Voters]
  BY DEF Detached

LEMMA Amounts == Amount \in [Proposals -> Nat] /\ DepositAmounts \subseteq Nat \ {0}
  BY GovernanceAssumption

LEMMA PaysTyped ==
  ASSUME NEW p \in Proposals, treasuryBalance \in Nat, spends \in [Proposals -> Nat], Pays(p)
  PROVE  treasuryBalance' \in Nat /\ spends' \in [Proposals -> Nat]
  BY GovernanceAssumption DEF Pays, CanSpend, Spend, money

LEMMA ShapeStep == Shape /\ [Next]_vars => Shape'
<1> SUFFICES ASSUME Shape, [Next]_vars PROVE Shape'
  OBVIOUS
<1> USE DEF ballots, delegation, money
<1>1. ASSUME NEW v \in Voters, NEW b \in Holdings, RegisterBalance(v, b)
      PROVE  Shape'
  BY <1>1 DEF Shape, RegisterBalance
<1>2. ASSUME NEW v \in Voters, RemoveDelegation(v)
      PROVE  Shape'
  BY <1>2, DetachedTyped DEF Shape, RemoveDelegation
<1>3. ASSUME NEW v \in Voters, NEW d \in Voters, SetDelegation(v, d)
      PROVE  Shape'
  BY <1>3, DetachedTyped DEF Shape, SetDelegation
<1>4. ASSUME NEW p \in Proposals, NEW named \in BOOLEAN, CreateProposal(p, named)
      PROVE  Shape'
  BY <1>4 DEF Shape, CreateProposal, Status
<1>5. ASSUME NEW p \in Proposals, StartVoting(p)
      PROVE  Shape'
  BY <1>5 DEF Shape, StartVoting, Status
<1>6. ASSUME NEW p \in Proposals, TallyVotes(p)
      PROVE  Shape'
  BY <1>6 DEF Shape, TallyVotes, Status
<1>7. ASSUME NEW p \in Proposals, ExecuteProposal(p)
      PROVE  Shape'
  BY <1>7, PaysTyped DEF Shape, ExecuteProposal, Status
<1>8. ASSUME NEW p \in Proposals, NEW v \in Voters, NEW b \in Balances,
             NEW direction \in {"for", "against"}, CastVote(p, v, direction, b)
      PROVE  Shape'
  BY <1>8 DEF Shape, CastVote
<1>9. ASSUME NEW a \in DepositAmounts, RecordDeposit(a)
      PROVE  Shape'
  BY <1>9, GovernanceAssumption DEF Shape, RecordDeposit
<1>10. ASSUME NEW p \in Proposals, NEW a \in DepositAmounts, RecordSpend(p, a)
       PROVE  Shape'
  BY <1>10, GovernanceAssumption DEF Shape, RecordSpend, CanSpend, Spend
<1>11. CASE Tick
  BY <1>11 DEF Shape, Tick
<1>12. CASE UNCHANGED vars
  BY <1>12 DEF Shape, vars
<1> QED
  BY <1>1, <1>2, <1>3, <1>4, <1>5, <1>6, <1>7, <1>8, <1>9, <1>10, <1>11, <1>12 DEF Next

-----------------------------------------------------------------------------
\* Delegation.  A circle that runs through the new delegation from v to d would
\* give, without v, a set that the walk from d never leaves.
LEMMA NoNewCircle ==
  ASSUME Shape, Acyclic, NEW v \in Voters, NEW d \in Voters, ~Reaches(d, v),
         delegations' = [delegations EXCEPT ![v] = d]
  PROVE  Acyclic'
<1> SUFFICES ASSUME NEW S \in SUBSET Voters, S # {}, \A u \in S : delegations'[u] \in S
             PROVE  FALSE
  BY DEF Acyclic
<1> USE DEF Shape
<1>1. CASE v \notin S
  <2>1. \A u \in S : delegations[u] \in S
    BY <1>1
  <2> QED
    BY <2>1 DEF Acyclic
<1>2. CASE v \in S
  <2>1. PICK W \in SUBSET Voters : /\ d \in W
                                   /\ \A u \in W : delegations[u] \in W \cup {None}
                                   /\ v \notin W
    BY DEF Reaches
  <2>2. d \in S
    BY <1>2
  <2>3. \A u \in S \cap W : delegations[u] \in S \cap W
    <3> SUFFICES ASSUME NEW u \in S \cap W PROVE delegations[u] \in S \cap W
      OBVIOUS
    <3>1. delegations[u] \in S
      BY <2>1
    <3>2. delegations[u] # None
      BY <3>1, GovernanceAssumption
    <3> QED
      BY <2>1, <3>1, <3>2
  <2> QED
    BY <2>1, <2>2, <2>3 DEF Acyclic
<1> QED
  BY <1>1, <1>2

LEMMA DelegationStep == Shape /\ DelegationSound /\ [Next]_vars => DelegationSound'
<1> SUFFICES ASSUME Shape, DelegationSound, [Next]_vars PROVE DelegationSound'
  OBVIOUS
<1>1. ASSUME NEW v \in Voters, NEW d \in Voters, SetDelegation(v, d)
      PROVE  DelegationSound'
  <2>1. Acyclic'
    BY <1>1, NoNewCircle DEF SetDelegation, DelegationSound
  <2>2. IndexInverse'
    BY <1>1, GovernanceAssumption
    DEF Shape, SetDelegation, DelegationSound, IndexInverse, Detached
  <2> QED
    BY <2>1, <2>2 DEF DelegationSound
<1>2. ASSUME NEW v \in Voters, RemoveDelegation(v)
      PROVE  DelegationSound'
  <2>1. Acyclic'
    <3> SUFFICES ASSUME NEW S \in SUBSET Voters, S # {}, \A u \in S : delegations'[u] \in S
                 PROVE  FALSE
      BY DEF Acyclic
    <3>1. \A u \in S : delegations[u] \in S
      BY <1>2, GovernanceAssumption DEF RemoveDelegation, Shape
    <3> QED
      BY <3>1 DEF DelegationSound, Acyclic
  <2>2. IndexInverse'
    BY <1>2, GovernanceAssumption
    DEF Shape, RemoveDelegation, DelegationSound, IndexInverse, Detached
  <2> QED
    BY <2>1, <2>2 DEF DelegationSound
<1>3. CASE UNCHANGED <<delegations, delegationIndex>>
  BY <1>3 DEF DelegationSound, IndexInverse, Acyclic
<1> QED
  BY <1>1, <1>2, <1>3
  DEF Next, RegisterBalance, CreateProposal, StartVoting, TallyVotes, ExecuteProposal,
      CastVote, RecordDeposit, RecordSpend, Tick, vars, delegation

-----------------------------------------------------------------------------
\* Votes, counts and payments.
LEMMA Unvoted ==
  ASSUME UNCHANGED votes
  PROVE  \A p \in Proposals, v \in Voters : HasVoted(p, v)' = HasVoted(p, v)
  BY DEF HasVoted

LEMMA SameTallies ==
  ASSUME NEW p \in Proposals,
         tally'[p] = tally[p]
  PROVE  Passes(p)' = Passes(p)
  BY DEF Passes, TotalCast

LEMMA VotesStep ==
  ASSUME IInv, [Next]_vars
  PROVE  VotesAreCast' /\ NoDelegatorVotes'
<1> USE DEF ballots, delegation, money
<1>1. ASSUME NEW p \in Proposals, NEW v \in Voters, NEW b \in Balances,
             NEW direction \in {"for", "against"}, CastVote(p, v, direction, b)
      PROVE  VotesAreCast' /\ NoDelegatorVotes'
  <2>1. status[p] = "voting" /\ delegations[v] = None
    BY <1>1 DEF CastVote, CanVote
  <2>2. \A q \in Proposals : status'[q] = status[q]
    BY <1>1 DEF CastVote, IInv, Shape
  <2>3. \A q \in Proposals, u \in Voters :
          HasVoted(q, u)' => HasVoted(q, u) \/ (q = p /\ u = v)
    BY <1>1 DEF CastVote, IInv, Shape, HasVoted
  <2>4. UNCHANGED delegations
    BY <1>1 DEF CastVote
  <2> QED
    BY <2>1, <2>2, <2>3, <2>4 DEF IInv, VotesAreCast, NoDelegatorVotes
<1>2. ASSUME NEW v \in Voters, NEW d \in Voters, SetDelegation(v, d)
      PROVE  VotesAreCast' /\ NoDelegatorVotes'
  <2>1. UNCHANGED <<status, votes>>
    BY <1>2 DEF SetDelegation
  <2>2. \A u \in Voters : u # v => delegations'[u] = delegations[u]
    BY <1>2 DEF SetDelegation, IInv, Shape
  <2>3. \A p \in Proposals : status[p] = "voting" => ~HasVoted(p, v)
    BY <1>2 DEF SetDelegation, VotedInActive
  <2> QED
    BY <2>1, <2>2, <2>3, Unvoted DEF IInv, VotesAreCast, NoDelegatorVotes
<1>3. ASSUME NEW v \in Voters, RemoveDelegation(v)
      PROVE  VotesAreCast' /\ NoDelegatorVotes'
  <2>1. UNCHANGED <<status, votes>>
    BY <1>3 DEF RemoveDelegation
  <2>2. \A u \in Voters : delegations[u] = None => delegations'[u] = None
    BY <1>3 DEF RemoveDelegation, IInv, Shape
  <2> QED
    BY <2>1, <2>2, Unvoted DEF IInv, VotesAreCast, NoDelegatorVotes
<1>4. ASSUME NEW p \in Proposals,
             \/ \E named \in BOOLEAN : CreateProposal(p, named)
             \/ StartVoting(p) \/ TallyVotes(p) \/ ExecuteProposal(p)
      PROVE  VotesAreCast' /\ NoDelegatorVotes'
  <2>1. UNCHANGED <<votes, delegations>>
    BY <1>4 DEF CreateProposal, StartVoting, TallyVotes, ExecuteProposal
  <2>2. \A q \in Proposals : q # p => status'[q] = status[q]
    BY <1>4 DEF CreateProposal, StartVoting, TallyVotes, ExecuteProposal, IInv, Shape
  <2>3. \/ /\ status[p] \in {"absent", "discussion"}
           /\ status'[p] \in {"discussion", "voting"}
        \/ /\ status[p] \in {"voting", "passed"}
           /\ status'[p] \in {"passed", "rejected", "executed"}
    BY <1>4 DEF CreateProposal, StartVoting, TallyVotes, ExecuteProposal, IInv, Shape
  <2> QED
    BY <2>1, <2>2, <2>3, Unvoted DEF IInv, VotesAreCast, NoDelegatorVotes
<1>5. CASE UNCHANGED <<status, votes, delegations>>
  BY <1>5, Unvoted DEF IInv, VotesAreCast, NoDelegatorVotes
<1> QED
  BY <1>1, <1>2, <1>3, <1>4, <1>5
  DEF Next, RegisterBalance, RecordDeposit, RecordSpend, Tick, vars

LEMMA PassedStep ==
  ASSUME IInv, [Next]_vars
  PROVE  PassedByThreshold'
<1> USE DEF ballots, delegation, money
<1>1. ASSUME NEW p \in Proposals, NEW v \in Voters, NEW b \in Balances,
             NEW direction \in {"for", "against"}, CastVote(p, v, direction, b)
      PROVE  PassedByThreshold'
  <2>1. status[p] = "voting"
    BY <1>1 DEF CastVote, CanVote
  <2>2. status'[p] = status[p]
    BY <1>1 DEF CastVote, IInv, Shape
  <2>3. \A q \in Proposals : q # p => status'[q] = status[q] /\ tally'[q] = tally[q]
    BY <1>1 DEF CastVote, IInv, Shape
  <2> QED
    BY <2>1, <2>2, <2>3, SameTallies DEF IInv, PassedByThreshold
<1>2. ASSUME NEW p \in Proposals,
             StartVoting(p) \/ \E named \in BOOLEAN : CreateProposal(p, named)
      PROVE  PassedByThreshold'
  <2>1. status'[p] \in {"discussion", "voting"}
    BY <1>2 DEF CreateProposal, StartVoting, IInv, Shape
  <2>2. \A q \in Proposals : q # p => status'[q] = status[q] /\ tally'[q] = tally[q]
    BY <1>2 DEF CreateProposal, StartVoting, IInv, Shape
  <2> QED
    BY <2>1, <2>2, SameTallies DEF IInv, PassedByThreshold
<1>3. ASSUME NEW p \in Proposals, TallyVotes(p) \/ ExecuteProposal(p)
      PROVE  PassedByThreshold'
  <2>1. UNCHANGED tally
    BY <1>3 DEF TallyVotes, ExecuteProposal
  <2>2. status'[p] \in {"passed", "executed"} => Passes(p)
    <3>1. CASE TallyVotes(p)
      BY <3>1 DEF TallyVotes, IInv, Shape
    <3>2. CASE ExecuteProposal(p)
      BY <3>2 DEF ExecuteProposal, IInv, PassedByThreshold
    <3> QED
      BY <1>3, <3>1, <3>2
  <2>3. \A q \in Proposals : q # p => status'[q] = status[q] /\ tally'[q] = tally[q]
    BY <1>3 DEF TallyVotes, ExecuteProposal, IInv, Shape
  <2> QED
    BY <2>1, <2>2, <2>3, SameTallies DEF IInv, PassedByThreshold
<1>4. CASE UNCHANGED <<status, tally>>
  BY <1>4, SameTallies DEF IInv, PassedByThreshold
<1> QED
  BY <1>1, <1>2, <1>3, <1>4
  DEF Next, RegisterBalance, RemoveDelegation, SetDelegation, RecordDeposit, RecordSpend,
      Tick, vars

LEMMA PaidStep ==
  ASSUME IInv, [Next]_vars
  PROVE  ExecutedIsPaid'
<1> USE DEF ballots, delegation, money
<1>1. ASSUME NEW p \in Proposals, ExecuteProposal(p)
      PROVE  ExecutedIsPaid'
  <2>1. \A q \in Proposals : q # p => /\ status'[q] = status[q] /\ spends'[q] = spends[q]
                                       /\ addressed'[q] = addressed[q]
    BY <1>1 DEF ExecuteProposal, Pays, CanSpend, Spend, IInv, Shape
  <2>2. addressed'[p] => spends'[p] >= Amount[p]
    <3> SUFFICES ASSUME addressed[p] PROVE spends'[p] >= Amount[p]
      BY <1>1 DEF ExecuteProposal
    <3>1. CASE Amount[p] = 0
      BY <1>1, <3>1 DEF ExecuteProposal, Pays, IInv, Shape
    <3>2. CASE Amount[p] # 0
      <4>1. spends'[p] = spends[p] + Amount[p]
        BY <1>1, <3>2 DEF ExecuteProposal, Pays, Spend, IInv, Shape
      <4>2. spends[p] \in Nat /\ Amount[p] \in Nat
        BY Amounts DEF IInv, Shape
      <4> QED
        BY <4>1, <4>2
    <3> QED
      BY <3>1, <3>2
  <2> QED
    BY <2>1, <2>2 DEF IInv, ExecutedIsPaid
<1>2. ASSUME NEW p \in Proposals, NEW a \in DepositAmounts, RecordSpend(p, a)
      PROVE  ExecutedIsPaid'
  <2>1. \A q \in Proposals : spends'[q] = IF q = p THEN spends[q] + a ELSE spends[q]
    BY <1>2 DEF RecordSpend, Spend, IInv, Shape
  <2>2. a \in Nat /\ \A q \in Proposals : spends[q] \in Nat /\ Amount[q] \in Nat
    BY Amounts DEF IInv, Shape
  <2>3. \A q \in Proposals : spends[q] >= Amount[q] => spends'[q] >= Amount[q]
    BY <2>1, <2>2
  <2>4. UNCHANGED <<status, addressed>>
    BY <1>2 DEF RecordSpend
  <2> QED
    BY <2>3, <2>4 DEF IInv, ExecutedIsPaid
<1>3. ASSUME UNCHANGED <<spends, addressed>>,
             \A q \in Proposals : status'[q] = "executed" => status[q] = "executed"
      PROVE  ExecutedIsPaid'
  BY <1>3 DEF IInv, ExecutedIsPaid
<1>4. ASSUME NEW p \in Proposals, StartVoting(p) \/ TallyVotes(p)
      PROVE  ExecutedIsPaid'
  <2>1. \A q \in Proposals : status'[q] = "executed" => status[q] = "executed"
    BY <1>4 DEF StartVoting, TallyVotes, IInv, Shape
  <2>2. UNCHANGED <<spends, addressed>>
    BY <1>4 DEF StartVoting, TallyVotes
  <2> QED
    BY <1>3, <2>1, <2>2
<1>5. ASSUME NEW p \in Proposals, NEW v \in Voters, NEW b \in Balances,
             NEW direction \in {"for", "against"}, CastVote(p, v, direction, b)
      PROVE  ExecutedIsPaid'
  <2>1. \A q \in Proposals : status'[q] = status[q]
    BY <1>5 DEF CastVote, IInv, Shape
  <2> QED
    BY <1>3, <1>5, <2>1 DEF CastVote
<1>6. CASE UNCHANGED <<status, spends, addressed>>
  BY <1>6 DEF IInv, ExecutedIsPaid
<1>7. ASSUME NEW p \in Proposals, NEW named \in BOOLEAN, CreateProposal(p, named)
      PROVE  ExecutedIsPaid'
  <2>1. \A q \in Proposals : /\ status'[q] = "executed" => status[q] = "executed" /\ q # p
                             /\ q # p => addressed'[q] = addressed[q]
    BY <1>7 DEF CreateProposal, IInv, Shape
  <2> QED
    BY <1>7, <2>1 DEF CreateProposal, IInv, ExecutedIsPaid
<1> QED
  BY <1>1, <1>2, <1>4, <1>5, <1>6, <1>7
  DEF Next, RegisterBalance, RemoveDelegation, SetDelegation, RecordDeposit, Tick, vars

-----------------------------------------------------------------------------
\* The inductive invariant holds in every reachable state.
THEOREM Invariant == Spec => []IInv
<1>1. Init => IInv
  <2> SUFFICES ASSUME Init PROVE IInv
    OBVIOUS
  <2>1. Shape
    BY InitShape
  <2>2. IndexInverse
    BY GovernanceAssumption DEF Init, IndexInverse
  <2>3. Acyclic
    BY GovernanceAssumption DEF Init, Acyclic
  <2>4. VotesAreCast /\ NoDelegatorVotes
    BY DEF Init, VotesAreCast, NoDelegatorVotes, HasVoted, NoVote
  <2>5. PassedByThreshold /\ ExecutedIsPaid
    BY DEF Init, PassedByThreshold, ExecutedIsPaid
  <2> QED
    BY <2>1, <2>2, <2>3, <2>4, <2>5 DEF IInv, DelegationSound
<1>2. IInv /\ [Next]_vars => IInv'
  BY ShapeStep, DelegationStep, VotesStep, PassedStep, PaidStep DEF IInv
<1> QED
  BY <1>1, <1>2, PTL DEF Spec

\* The reverse index always is the inverse of an acyclic delegation.
THEOREM DelegationSoundAlways == Spec => []DelegationSound
  BY Invariant, PTL DEF IInv

\* Nobody has voted in an open vote and delegated as well.
THEOREM NoDelegatorVotesAlways == Spec => []NoDelegatorVotes
  BY Invariant, PTL DEF IInv

\* What passed is never below its threshold afterwards.
THEOREM PassedByThresholdAlways == Spec => []PassedByThreshold
  BY Invariant, PTL DEF IInv

\* An executed treasury spend has been booked.
THEOREM ExecutedIsPaidAlways == Spec => []ExecutedIsPaid
  BY Invariant, PTL DEF IInv

-----------------------------------------------------------------------------
\* The running tallies.  The sum of the recorded ballots of one direction is
\* the SumOver of FoldLemmas over the voters on that side.
Sides == {"for", "against"}

Powers(w)  == [v \in Voters |-> w[v].power]
Side(w, d) == {v \in Voters : w[v].direction = d}

VotesAddUp(h, w, S) ==
  h = [s \in SUBSET S |->
         IF s = {} THEN 0 ELSE w[Picked(s)].power + h[s \ {Picked(s)}]]

LEMMA VotesSum ==
  ASSUME NEW w, NEW S \in SUBSET Voters
  PROVE  (CHOOSE h : VotesAddUp(h, w, S))[S] = SumOver(Powers(w), S)
<1>1. ASSUME NEW s \in SUBSET S, s # {}
      PROVE  Powers(w)[Picked(s)] = w[Picked(s)].power
  <2>1. Picked(s) \in s
    BY <1>1 DEF Picked
  <2> QED
    BY <2>1 DEF Powers
<1>2. ASSUME NEW h
      PROVE  VotesAddUp(h, w, S) <=> AddsUp(h, Powers(w), S)
  <2>1. [s \in SUBSET S |-> IF s = {} THEN 0 ELSE w[Picked(s)].power + h[s \ {Picked(s)}]]
          = [s \in SUBSET S |->
               IF s = {} THEN 0 ELSE Powers(w)[Picked(s)] + h[s \ {Picked(s)}]]
    BY <1>1
  <2> QED
    BY <2>1 DEF VotesAddUp, AddsUp
<1>3. (CHOOSE h : VotesAddUp(h, w, S)) = (CHOOSE h : AddsUp(h, Powers(w), S))
  BY <1>2
<1> QED
  BY <1>3 DEF SumOver

LEMMA PowerCastIsSum ==
  ASSUME NEW p, NEW d
  PROVE  /\ PowerCast(p, d) = SumOver(Powers(votes[p]), Side(votes[p], d))
         /\ PowerCast(p, d)' = SumOver(Powers(votes'[p]), Side(votes'[p], d))
<1>1. PowerCast(p, d) = (CHOOSE h : VotesAddUp(h, votes[p], Side(votes[p], d)))[Side(votes[p], d)]
  BY DEF PowerCast, MapThenSumSet, MapThenFoldSet, VotesAddUp, Side, Picked
<1>2. PowerCast(p, d)'
        = (CHOOSE h : VotesAddUp(h, votes'[p], Side(votes'[p], d)))[Side(votes'[p], d)]
  BY DEF PowerCast, MapThenSumSet, MapThenFoldSet, VotesAddUp, Side, Picked
<1>3. \A w : Side(w, d) \in SUBSET Voters
  BY DEF Side
<1> QED
  BY <1>1, <1>2, <1>3, VotesSum

\* One more ballot: the total of its side by its power, the totals of both
\* sides less the power of the ballot it replaces.
Ballot == [power : Nat, rawBalance : Balances \cup {0}, direction : {"none", "for", "against"}]

LEMMA OneBallot ==
  ASSUME NEW w \in [Voters -> Ballot], NEW v \in Voters, NEW vote \in Ballot, NEW d,
         IsFiniteSet(Side(w, d))
  PROVE  LET u == [w EXCEPT ![v] = vote] IN
         /\ IsFiniteSet(Side(u, d))
         /\ SumOver(Powers(w), Side(w, d)) \in Nat
         /\ SumOver(Powers(u), Side(u, d)) \in Nat
         /\ (IF w[v].direction = d THEN w[v].power ELSE 0) \in Nat
         /\ (IF w[v].direction = d THEN w[v].power ELSE 0) <= SumOver(Powers(w), Side(w, d))
         /\ SumOver(Powers(u), Side(u, d))
              = SumOver(Powers(w), Side(w, d))
                  - (IF w[v].direction = d THEN w[v].power ELSE 0)
                  + (IF vote.direction = d THEN vote.power ELSE 0)
<1> DEFINE u == [w EXCEPT ![v] = vote]
           B == Side(w, d)
           A == Side(u, d)
           f == Powers(w)
           g == Powers(u)
           C == B \ {v}
<1>1. u \in [Voters -> Ballot] /\ u[v] = vote /\ \A x \in Voters \ {v} : u[x] = w[x]
  OBVIOUS
<1>2. /\ f \in [Voters -> Nat] /\ g \in [Voters -> Nat]
      /\ f[v] = w[v].power /\ g[v] = vote.power
      /\ \A x \in Voters \ {v} : f[x] = g[x]
  BY <1>1 DEF Powers, Ballot
<1>3. A \ {v} = C /\ (v \in B <=> w[v].direction = d) /\ (v \in A <=> vote.direction = d)
  BY <1>1 DEF Side
<1>4. A \in SUBSET Voters /\ B \in SUBSET Voters /\ C \in SUBSET Voters
  BY DEF Side
<1> HIDE DEF u, A, B, f, g
<1>5. IsFiniteSet(B) /\ IsFiniteSet(C)
  BY FS_RemoveElement DEF B
<1>6. IsFiniteSet(A)
  <2>1. IsFiniteSet(C \cup {v})
    BY <1>5, FS_AddElement
  <2>2. A \subseteq C \cup {v}
    BY <1>3
  <2> QED
    BY <2>1, <2>2, FS_Subset
<1>7. /\ SumOver(f, B) \in Nat /\ SumOver(g, A) \in Nat /\ SumOver(f, C) \in Nat
      /\ SumOver(f, C) = SumOver(g, C)
  <2>1. SumOver(f, B) \in Nat /\ SumOver(g, A) \in Nat /\ SumOver(f, C) \in Nat
    BY <1>2, <1>4, <1>5, <1>6, SumType
  <2>2. SumOver(f, C) = SumOver(g, C)
    BY <1>2, <1>4, <1>5, SumSame
  <2> QED
    BY <2>1, <2>2
<1>8. SumOver(f, B) = SumOver(f, C) + IF v \in B THEN f[v] ELSE 0
  <2>1. \A y \in B : f[y] \in Nat
    BY <1>2, <1>4
  <2>2. CASE v \in B
    <3>1. SumOver(f, B) = f[v] + SumOver(f, C)
      BY <2>1, <2>2, <1>5, SumRemove
    <3> QED
      BY <2>1, <2>2, <3>1, <1>7
  <2>3. CASE v \notin B
    <3>1. C = B
      BY <2>3
    <3> QED
      BY <2>3, <3>1, <1>7
  <2> QED
    BY <2>2, <2>3
<1>9. SumOver(g, A) = SumOver(g, C) + IF v \in A THEN g[v] ELSE 0
  <2>1. \A y \in A : g[y] \in Nat
    BY <1>2, <1>4
  <2>2. CASE v \in A
    <3>1. SumOver(g, A) = g[v] + SumOver(g, A \ {v})
      BY <2>1, <2>2, <1>6, SumRemove
    <3>2. SumOver(g, A \ {v}) = SumOver(g, C)
      BY <1>3
    <3>3. g[v] \in Nat /\ SumOver(g, C) \in Nat
      BY <2>1, <2>2, <1>7
    <3> QED
      BY <2>2, <3>1, <3>2, <3>3
  <2>3. CASE v \notin A
    <3>1. C = A
      BY <2>3, <1>3
    <3> QED
      BY <2>3, <3>1, <1>7
  <2> QED
    BY <2>2, <2>3
<1>10. w[v].power \in Nat /\ vote.power \in Nat
  BY <1>2
<1> QED
  BY <1>2, <1>3, <1>6, <1>7, <1>8, <1>9, <1>10 DEF u, A, B, f, g

-----------------------------------------------------------------------------
\* The power of a ballot is a natural number: square roots exist for every
\* balance, and the voter has finitely many delegators.
Roots(b)   == [u \in Voters |-> calculateVotingPower(b[u])]

RootsAddUp(h, b, S) ==
  h = [s \in SUBSET S |->
         IF s = {} THEN 0
         ELSE calculateVotingPower(b[Picked(s)]) + h[s \ {Picked(s)}]]

LEMMA RootTyped ==
  ASSUME NEW b \in Balances \cup Holdings \cup {0}
  PROVE  calculateVotingPower(b) \in Nat
<1>1. b \in Nat
  BY GovernanceAssumption
<1>2. \E r \in 0..b : r * r = Capped(b)
  <2>1. CASE b = 0
    <3>1. TotalSupply \div 10 \in Nat
      BY GovernanceAssumption
    <3>2. Capped(0) = 0
      BY <3>1 DEF Capped, MaxBalance
    <3> QED
      BY <2>1, <3>2
  <2>2. CASE b # 0
    BY <2>2, GovernanceAssumption
  <2> QED
    BY <2>1, <2>2
<1>3. calculateVotingPower(b) \in 0..b
  BY <1>2 DEF calculateVotingPower
<1> QED
  BY <1>1, <1>3

LEMMA PowerTyped ==
  ASSUME tokenBalances \in [Voters -> Holdings \cup {0}],
         delegationIndex \in [Voters -> SUBSET Voters],
         NEW v \in Voters, IsFiniteSet(delegationIndex[v]), NEW b \in Balances
  PROVE  Power(v, b) \in Nat
<1> DEFINE S == delegationIndex[v]
           f == Roots(tokenBalances)
<1>1. S \in SUBSET Voters
  OBVIOUS
<1>2. \A u \in S : f[u] \in Nat
  <2> SUFFICES ASSUME NEW u \in S PROVE f[u] \in Nat
    OBVIOUS
  <2>1. f[u] = calculateVotingPower(tokenBalances[u])
    BY <1>1 DEF Roots
  <2>2. tokenBalances[u] \in Holdings \cup {0}
    BY <1>1
  <2> QED
    BY <2>1, <2>2, RootTyped
<1>3. Power(v, b)
        = calculateVotingPower(b) + (CHOOSE h : RootsAddUp(h, tokenBalances, S))[S]
  BY DEF Power, MapThenSumSet, MapThenFoldSet, RootsAddUp, Picked
<1>4. ASSUME NEW h
      PROVE  RootsAddUp(h, tokenBalances, S) <=> AddsUp(h, f, S)
  <2>1. ASSUME NEW s \in SUBSET S, s # {}
        PROVE  f[Picked(s)] = calculateVotingPower(tokenBalances[Picked(s)])
    <3>1. Picked(s) \in Voters
      BY <2>1, <1>1 DEF Picked
    <3> QED
      BY <3>1 DEF Roots
  <2>2. [s \in SUBSET S |->
           IF s = {} THEN 0
           ELSE calculateVotingPower(tokenBalances[Picked(s)]) + h[s \ {Picked(s)}]]
        = [s \in SUBSET S |-> IF s = {} THEN 0 ELSE f[Picked(s)] + h[s \ {Picked(s)}]]
    BY <2>1
  <2> QED
    BY <2>2 DEF RootsAddUp, AddsUp
<1>5. (CHOOSE h : RootsAddUp(h, tokenBalances, S))[S] = SumOver(f, S)
  <2>1. (CHOOSE h : RootsAddUp(h, tokenBalances, S)) = (CHOOSE h : AddsUp(h, f, S))
    BY <1>4
  <2> QED
    BY <2>1 DEF SumOver
<1>6. SumOver(f, S) \in Nat
  BY <1>2, SumType
<1>7. calculateVotingPower(b) \in Nat
  BY RootTyped
<1> HIDE DEF S, f
<1> QED
  BY <1>3, <1>5, <1>6, <1>7

-----------------------------------------------------------------------------
\* The types of all variables need the sums: a tally stays a natural number
\* only because it holds the ballot that is taken out of it.
BooksInv ==
  /\ TypeOK
  /\ \A v \in Voters : IsFiniteSet(delegationIndex[v])
  /\ \A p \in Proposals, d \in Sides : IsFiniteSet(Side(votes[p], d))
  /\ TallyMatchesVotes

LEMMA Periods ==
  /\ Discussion \in Nat /\ VotingPeriod \in Nat /\ Timelock \in Nat /\ MaxTime \in Nat
  /\ None \notin Voters
  BY GovernanceAssumption

LEMMA ScheduleTyped ==
  ASSUME NEW t \in Nat
  PROVE  Schedule(t) \in [start : Nat, end : Nat, passedAt : Nat]
  BY Periods DEF Schedule

LEMMA InitBooks == Init => BooksInv
<1> SUFFICES ASSUME Init PROVE BooksInv
  OBVIOUS
<1>1. TypeOK
  <2>1. schedule \in [Proposals -> [start : Nat, end : Nat, passedAt : Nat]]
    BY ScheduleTyped DEF Init
  <2>2. now \in 0..MaxTime
    BY Periods DEF Init
  <2> QED
    BY <2>1, <2>2 DEF Init, TypeOK, Status, NoVote
<1>2. \A v \in Voters : IsFiniteSet(delegationIndex[v])
  BY FS_EmptySet DEF Init
<1>3. \A p \in Proposals, d \in Sides : Side(votes[p], d) = {}
  BY DEF Init, Side, Sides, NoVote
<1>4. \A f : SumOver(f, {}) = 0
  BY FS_EmptySet, SumSteps
<1>5. TallyMatchesVotes
  <2>1. \A p \in Proposals, d \in Sides : PowerCast(p, d) = 0
    BY <1>3, <1>4, PowerCastIsSum
  <2> QED
    BY <2>1 DEF Init, TallyMatchesVotes, Sides
<1> QED
  BY <1>1, <1>2, <1>3, <1>5, FS_EmptySet DEF BooksInv

LEMMA SameVotes ==
  ASSUME BooksInv, UNCHANGED votes
  PROVE  /\ \A p \in Proposals, d \in Sides : IsFiniteSet(Side(votes'[p], d))
         /\ UNCHANGED tally => TallyMatchesVotes'
<1>1. \A p \in Proposals, d \in Sides : PowerCast(p, d)' = PowerCast(p, d)
  BY PowerCastIsSum
<1> QED
  BY <1>1 DEF BooksInv, TallyMatchesVotes, Sides

LEMMA VoteStep ==
  ASSUME BooksInv, NEW p \in Proposals, NEW v \in Voters, NEW b \in Balances,
         NEW direction \in Sides, CastVote(p, v, direction, b)
  PROVE  BooksInv'
<1> DEFINE vote == [power |-> Power(v, b), rawBalance |-> b, direction |-> direction]
<1>1. vote \in Ballot
  <2>1. Power(v, b) \in Nat
    BY PowerTyped DEF BooksInv, TypeOK
  <2> QED
    BY <2>1 DEF Ballot, Sides
<1>2. /\ votes \in [Proposals -> [Voters -> Ballot]]
      /\ tally \in [Proposals -> [for : Nat, against : Nat]]
  BY DEF BooksInv, TypeOK, Ballot
<1>3. votes' = [votes EXCEPT ![p] = [votes[p] EXCEPT ![v] = vote]]
  BY DEF CastVote
<1>4. tally' = [tally EXCEPT
        ![p] = [for     |-> tally[p].for     - Old(p, v, "for")     + New(vote, "for"),
                against |-> tally[p].against - Old(p, v, "against") + New(vote, "against")]]
  BY DEF CastVote
<1>5. UNCHANGED <<status, schedule, addressed, delegation, money, now>>
  BY DEF CastVote
<1> HIDE DEF vote
<1>6. /\ votes' \in [Proposals -> [Voters -> Ballot]]
      /\ votes'[p] = [votes[p] EXCEPT ![v] = vote]
      /\ \A q \in Proposals \ {p} : votes'[q] = votes[q]
  BY <1>1, <1>2, <1>3
<1>7. ASSUME NEW d \in Sides
      PROVE  /\ IsFiniteSet(Side(votes'[p], d))
             /\ PowerCast(p, d)' \in Nat
             /\ PowerCast(p, d)' = PowerCast(p, d) - Old(p, v, d) + New(vote, d)
  <2>1. votes[p] \in [Voters -> Ballot] /\ IsFiniteSet(Side(votes[p], d))
    BY <1>2 DEF BooksInv
  <2>2. PICK u : u = [votes[p] EXCEPT ![v] = vote]
    OBVIOUS
  <2>3. /\ IsFiniteSet(Side(u, d))
        /\ SumOver(Powers(u), Side(u, d)) \in Nat
        /\ SumOver(Powers(u), Side(u, d))
             = SumOver(Powers(votes[p]), Side(votes[p], d))
                 - (IF votes[p][v].direction = d THEN votes[p][v].power ELSE 0)
                 + (IF vote.direction = d THEN vote.power ELSE 0)
    BY <1>1, <2>1, <2>2, OneBallot
  <2>4. votes'[p] = u
    BY <1>6, <2>2
  <2>5. /\ PowerCast(p, d) = SumOver(Powers(votes[p]), Side(votes[p], d))
        /\ PowerCast(p, d)' = SumOver(Powers(u), Side(u, d))
    BY <2>4, PowerCastIsSum
  <2> QED
    BY <2>3, <2>4, <2>5 DEF Old, New
<1>8. /\ tally' \in [Proposals -> [for : Nat, against : Nat]]
      /\ tally'[p].for = PowerCast(p, "for")' /\ tally'[p].against = PowerCast(p, "against")'
  <2>1. tally[p].for = PowerCast(p, "for") /\ tally[p].against = PowerCast(p, "against")
    BY DEF BooksInv, TallyMatchesVotes
  <2>2. "for" \in Sides /\ "against" \in Sides
    BY DEF Sides
  <2>3. PICK new : new = [for |-> PowerCast(p, "for")', against |-> PowerCast(p, "against")']
    OBVIOUS
  <2>4. new \in [for : Nat, against : Nat]
    BY <1>7, <2>2, <2>3
  <2>5. tally' = [tally EXCEPT ![p] = new]
    BY <1>4, <1>7, <2>1, <2>2, <2>3
  <2> QED
    BY <1>2, <2>3, <2>4, <2>5
<1>9. TallyMatchesVotes'
  <2>1. ASSUME NEW q \in Proposals \ {p}, NEW d \in Sides
        PROVE  PowerCast(q, d)' = PowerCast(q, d)
    BY <1>6, PowerCastIsSum
  <2>2. \A q \in Proposals \ {p} : tally'[q] = tally[q]
    BY <1>2, <1>4
  <2> QED
    BY <1>8, <2>1, <2>2 DEF BooksInv, TallyMatchesVotes, Sides
<1>10. TypeOK'
  BY <1>5, <1>6, <1>8 DEF BooksInv, TypeOK, Ballot, delegation, money
<1>11. (\A q \in Proposals, d \in Sides : IsFiniteSet(Side(votes[q], d)))'
  BY <1>6, <1>7 DEF BooksInv
<1>12. (\A u \in Voters : IsFiniteSet(delegationIndex[u]))'
  BY <1>5 DEF BooksInv, delegation
<1> QED
  BY <1>9, <1>10, <1>11, <1>12 DEF BooksInv

LEMMA BooksStep == BooksInv /\ [Next]_vars => BooksInv'
<1> SUFFICES ASSUME BooksInv, [Next]_vars PROVE BooksInv'
  OBVIOUS
<1> USE DEF ballots, delegation, money
<1>0. ASSUME UNCHANGED <<tally, votes>>, TypeOK',
             \A u \in Voters : IsFiniteSet(delegationIndex'[u])
      PROVE  BooksInv'
  BY <1>0, SameVotes DEF BooksInv
<1>1. ASSUME NEW v \in Voters, NEW b \in Holdings, RegisterBalance(v, b)
      PROVE  BooksInv'
  <2>1. TypeOK'
    BY <1>1 DEF BooksInv, TypeOK, RegisterBalance
  <2> QED
    BY <1>0, <1>1, <2>1 DEF BooksInv, RegisterBalance
<1>2. ASSUME NEW v \in Voters,
             \A u \in Voters : IsFiniteSet(delegationIndex[u])
      PROVE  /\ Detached(v) \in [Voters -> SUBSET Voters]
             /\ \A u \in Voters : IsFiniteSet(Detached(v)[u])
  BY <1>2, FS_RemoveElement DEF BooksInv, TypeOK, Detached
<1>3. ASSUME NEW v \in Voters, RemoveDelegation(v)
      PROVE  BooksInv'
  <2>1. TypeOK'
    BY <1>2, <1>3 DEF BooksInv, TypeOK, RemoveDelegation
  <2>2. \A u \in Voters : IsFiniteSet(delegationIndex'[u])
    BY <1>2, <1>3 DEF BooksInv, RemoveDelegation
  <2> QED
    BY <1>0, <1>3, <2>1, <2>2 DEF RemoveDelegation
<1>4. ASSUME NEW v \in Voters, NEW d \in Voters, SetDelegation(v, d)
      PROVE  BooksInv'
  <2>1. TypeOK'
    BY <1>2, <1>4 DEF BooksInv, TypeOK, SetDelegation
  <2>2. \A u \in Voters : IsFiniteSet(delegationIndex'[u])
    <3>1. PICK D : D = Detached(v)
      OBVIOUS
    <3>2. delegationIndex' = [D EXCEPT ![d] = D[d] \cup {v}]
      BY <1>4, <3>1 DEF SetDelegation
    <3>3. D \in [Voters -> SUBSET Voters] /\ \A u \in Voters : IsFiniteSet(D[u])
      BY <1>2, <3>1 DEF BooksInv
    <3>4. IsFiniteSet(D[d] \cup {v})
      BY <3>3, FS_AddElement
    <3> QED
      BY <3>2, <3>3, <3>4
  <2> QED
    BY <1>0, <1>4, <2>1, <2>2 DEF SetDelegation
<1>5. ASSUME NEW p \in Proposals, NEW named \in BOOLEAN, CreateProposal(p, named)
      PROVE  BooksInv'
  <2>1. schedule' \in [Proposals -> [start : Nat, end : Nat, passedAt : Nat]]
    <3>1. now \in Nat
      BY Periods DEF BooksInv, TypeOK
    <3>2. Schedule(now) \in [start : Nat, end : Nat, passedAt : Nat]
      BY <3>1, ScheduleTyped
    <3> QED
      BY <1>5, <3>2 DEF BooksInv, TypeOK, CreateProposal
  <2>2. TypeOK'
    BY <1>5, <2>1 DEF BooksInv, TypeOK, CreateProposal, Status
  <2> QED
    BY <1>0, <1>5, <2>2 DEF BooksInv, CreateProposal
<1>6. ASSUME NEW p \in Proposals, StartVoting(p)
      PROVE  BooksInv'
  <2>1. TypeOK'
    BY <1>6 DEF BooksInv, TypeOK, StartVoting, Status
  <2> QED
    BY <1>0, <1>6, <2>1 DEF BooksInv, StartVoting
<1>7. ASSUME NEW p \in Proposals, TallyVotes(p)
      PROVE  BooksInv'
  <2>1. schedule' \in [Proposals -> [start : Nat, end : Nat, passedAt : Nat]]
    <3>1. now \in Nat
      BY Periods DEF BooksInv, TypeOK
    <3>2. schedule \in [Proposals -> [start : Nat, end : Nat, passedAt : Nat]]
      BY DEF BooksInv, TypeOK
    <3>3. PICK t : t = IF Passes(p) THEN now ELSE schedule[p].passedAt
      OBVIOUS
    <3>4. t \in Nat
      BY <3>1, <3>2, <3>3
    <3>5. schedule' = [schedule EXCEPT ![p] = [schedule[p] EXCEPT !.passedAt = t]]
      BY <1>7, <3>3 DEF TallyVotes
    <3> QED
      BY <3>2, <3>4, <3>5
  <2>2. TypeOK'
    BY <1>7, <2>1 DEF BooksInv, TypeOK, TallyVotes, Status
  <2> QED
    BY <1>0, <1>7, <2>2 DEF BooksInv, TallyVotes
<1>8. ASSUME NEW p \in Proposals, ExecuteProposal(p)
      PROVE  BooksInv'
  <2>1. TypeOK'
    BY <1>8, PaysTyped DEF BooksInv, TypeOK, ExecuteProposal, Status
  <2> QED
    BY <1>0, <1>8, <2>1 DEF BooksInv, ExecuteProposal
<1>9. ASSUME NEW p \in Proposals, NEW v \in Voters, NEW b \in Balances,
             NEW direction \in Sides, CastVote(p, v, direction, b)
      PROVE  BooksInv'
  BY <1>9, VoteStep
<1>10. ASSUME NEW a \in DepositAmounts, RecordDeposit(a)
       PROVE  BooksInv'
  <2>1. TypeOK'
    BY <1>10, Amounts DEF BooksInv, TypeOK, RecordDeposit
  <2> QED
    BY <1>0, <1>10, <2>1 DEF BooksInv, RecordDeposit
<1>11. ASSUME NEW p \in Proposals, NEW a \in DepositAmounts, RecordSpend(p, a)
       PROVE  BooksInv'
  <2>1. TypeOK'
    BY <1>11, Amounts DEF BooksInv, TypeOK, RecordSpend, CanSpend, Spend
  <2> QED
    BY <1>0, <1>11, <2>1 DEF BooksInv, RecordSpend
<1>12. CASE Tick
  <2>1. TypeOK'
    BY <1>12, Periods DEF BooksInv, TypeOK, Tick
  <2> QED
    BY <1>0, <1>12, <2>1 DEF BooksInv, Tick
<1>13. CASE UNCHANGED vars
  <2>1. TypeOK'
    BY <1>13 DEF BooksInv, TypeOK, vars
  <2> QED
    BY <1>0, <1>13, <2>1 DEF BooksInv, vars
<1> QED
  BY <1>1, <1>3, <1>4, <1>5, <1>6, <1>7, <1>8, <1>9, <1>10, <1>11, <1>12, <1>13
  DEF Next, Sides

\* Every tally holds the ballots cast for its side (governance/engine.ts): what the safety of the
\* governance engine rests on.
THEOREM Books == Spec => []BooksInv
<1>1. BooksInv /\ [Next]_vars => BooksInv'
  BY BooksStep
<1> QED
  BY <1>1, InitBooks, PTL DEF Spec

\* Every variable keeps its type; above all no tally and no treasury goes below
\* zero, whatever castVote and recordSpend take out of them.
THEOREM GovernanceTypeCorrect == Spec => []TypeOK
  BY Books, PTL DEF BooksInv

\* The running tallies of castVote are the sums of the recorded ballots, after
\* any number of changed votes at changed powers.
THEOREM TallyMatchesVotesAlways == Spec => []TallyMatchesVotes
  BY Books, PTL DEF BooksInv
=============================================================================
