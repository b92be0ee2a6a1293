----------------------------- MODULE Governance -----------------------------
(***************************************************************************)
(* GovernanceEngine (src/src/governance/engine.ts) in the full mode that   *)
(* the service containers construct: proposals, quadratic votes, vote      *)
(* delegation, the timelock and the engine's own treasury.  The handlers   *)
(* are synchronous, so that each is one step; time passes between them.    *)
(* A handler that throws before it writes anything is no step.             *)
(***************************************************************************)
EXTENDS Integers, FiniteSets, FiniteSetsExt

CONSTANTS Voters,
          Proposals,
          Treasury,         \* the proposals of type 'treasury_spend'
          Amount,           \* Amount[p]: executionData.params.amount, 0 if none
          Threshold,        \* Threshold[p]: percentage of yes power to pass
          Balances,         \* token balances a ballot may state
          Holdings,         \* token balances that may be registered
          TotalSupply,      \* config.totalSupply
          QuorumPercent,    \* config.quorumPercent
          Discussion, VotingPeriod, Timelock,
          DepositAmounts,   \* amounts paid into the treasury
          MaxDeposited,     \* bound: deposits stop at this sum
          MaxTime,          \* bound: the clock stops here
          None

\* calculateVotingPower takes a square root; the balances are such that it is
\* a whole number.
MaxBalance == TotalSupply \div 10
Capped(b) == IF b <= MaxBalance THEN b ELSE MaxBalance

ASSUME GovernanceAssumption ==
  /\ None \notin Voters
  /\ Treasury \subseteq Proposals
  /\ Amount \in [Proposals -> Nat]
  /\ \A p \in Proposals \ Treasury : Amount[p] = 0
  /\ Threshold \in [Proposals -> 1..100]
  /\ Balances \subseteq Nat /\ Holdings \subseteq Nat
  /\ TotalSupply \in Nat /\ QuorumPercent \in 0..100
  /\ \A b \in Balances \cup Holdings : \E r \in 0..b : r * r = Capped(b)
  /\ DepositAmounts \subseteq Nat \ {0}
  /\ {Discussion, VotingPeriod, Timelock, MaxDeposited, MaxTime} \subseteq Nat

VARIABLES
  status,         \* Proposal.status, "absent" before createProposal
  schedule,       \* votingStartsAt, votingEndsAt and passedAt
  addressed,      \* executionData.params.recipient is given
  tally,          \* the running totalForPower and totalAgainstPower
  votes,          \* votes[p][v]: the recorded vote, NoVote before
  delegations,    \* delegations[v]: whom v delegates to, or None
  delegationIndex,\* delegationIndex[v]: who delegates to v
  tokenBalances,  \* registered balances, 0 for unregistered voters
  treasuryBalance,
  spends,         \* spends[p]: sum of the spend transactions that name p
  now

vars == <<status, schedule, addressed, tally, votes, delegations, delegationIndex,
          tokenBalances, treasuryBalance, spends, now>>
ballots    == <<status, schedule, addressed, tally, votes>>
delegation == <<delegations, delegationIndex, tokenBalances>>
money      == <<treasuryBalance, spends>>

\* 'expired' is declared and never assigned.
Status == {"absent", "discussion", "voting", "passed", "rejected", "executed"}

NoVote == [power |-> 0, rawBalance |-> 0, direction |-> "none"]

Schedule(time) ==
  [start |-> time + Discussion, end |-> time + Discussion + VotingPeriod, passedAt |-> 0]

Init ==
  /\ status = [p \in Proposals |-> "absent"]
  /\ schedule = [p \in Proposals |-> Schedule(0)]
  /\ addressed = [p \in Proposals |-> FALSE]
  /\ tally = [p \in Proposals |-> [for |-> 0, against |-> 0]]
  /\ votes = [p \in Proposals |-> [v \in Voters |-> NoVote]]
  /\ delegations = [v \in Voters |-> None]
  /\ delegationIndex = [v \in Voters |-> {}]
  /\ tokenBalances = [v \in Voters |-> 0]
  /\ treasuryBalance = 0
  /\ spends = [p \in Proposals |-> 0]
  /\ now = 0

HasVoted(p, v) == votes[p][v].direction # "none"

calculateVotingPower(b) == CHOOSE r \in 0..b : r * r = Capped(b)

-----------------------------------------------------------------------------
\* Delegation.

RegisterBalance(v, b) ==
  /\ tokenBalances' = [tokenBalances EXCEPT ![v] = b]
  /\ UNCHANGED <<ballots, delegations, delegationIndex, money, now>>

\* A fault: only the direct delegation back is noticed.
ReachesNext(d, v) == d = v \/ delegations[d] = v

\* The walk along the delegations that starts at d comes to v: every set that
\* holds d and whatever its members delegate to holds v.
Reaches(d, v) ==
  \A S \in SUBSET Voters :
    d \in S /\ (\A u \in S : delegations[u] \in S \cup {None}) => v \in S

\* A fault: a voter who has voted may still delegate.
VotedIgnored(v) == FALSE

VotedInActive(v) == \E p \in Proposals : status[p] = "voting" /\ HasVoted(p, v)

\* The index without v among the delegators of its present delegatee.
Detached(v) ==
  [u \in Voters |-> IF u = delegations[v] THEN delegationIndex[u] \ {v} ELSE delegationIndex[u]]

\* setDelegation with a delegatee: it replaces the one v had.
SetDelegation(v, d) ==
  /\ ~Reaches(d, v)
  /\ ~VotedInActive(v)
  /\ delegations' = [delegations EXCEPT ![v] = d]
  /\ delegationIndex' = [Detached(v) EXCEPT ![d] = @ \cup {v}]
  /\ UNCHANGED <<ballots, tokenBalances, money, now>>

\* setDelegation with null tests nothing, not even whether the delegatee voted.
RemoveDelegation(v) ==
  /\ delegations[v] # None
  /\ delegations' = [delegations EXCEPT ![v] = None]
  /\ delegationIndex' = Detached(v)
  /\ UNCHANGED <<ballots, tokenBalances, money, now>>

-----------------------------------------------------------------------------
\* The life of a proposal.

\* The execution data are whatever the request carries: named says whether
\* there is a recipient among them.
CreateProposal(p, named) ==
  /\ status[p] = "absent"
  /\ status' = [status EXCEPT ![p] = "discussion"]
  /\ schedule' = [schedule EXCEPT ![p] = Schedule(now)]
  /\ addressed' = [addressed EXCEPT ![p] = named]
  /\ UNCHANGED <<tally, votes, delegation, money, now>>

\* The end of the voting period is not looked at: voting may start after it.
StartVoting(p) ==
  /\ status[p] = "discussion"
  /\ now >= schedule[p].start
  /\ status' = [status EXCEPT ![p] = "voting"]
  /\ UNCHANGED <<schedule, addressed, tally, votes, delegation, money, now>>

\* The power of a ballot: the voter's own, and that of each direct delegator.
Power(v, b) ==
  calculateVotingPower(b)
    + MapThenSumSet(LAMBDA u : calculateVotingPower(tokenBalances[u]), delegationIndex[v])

\* A fault: the status is not tested, a late ballot is counted.
CanVoteLate(p, v) ==
  /\ status[p] # "absent"
  /\ now \in schedule[p].start..schedule[p].end
  /\ delegations[v] = None

CanVote(p, v) ==
  /\ status[p] = "voting"
  /\ now \in schedule[p].start..schedule[p].end
  /\ delegations[v] = None

\* A fault: the power of the ballot that is replaced is not taken back.
KeepOld(p, v, direction) == 0

\* What castVote takes out of a running tally: the voter's former ballot.
Old(p, v, direction) ==
  IF votes[p][v].direction = direction THEN votes[p][v].power ELSE 0

New(vote, direction) == IF vote.direction = direction THEN vote.power ELSE 0

\* The balance is whatever the request says, registered or not.
CastVote(p, v, direction, b) ==
  LET vote == [power |-> Power(v, b), rawBalance |-> b, direction |-> direction] IN
  /\ CanVote(p, v)
  /\ votes' = [votes EXCEPT ![p][v] = vote]
  /\ tally' = [tally EXCEPT
       ![p] = [for     |-> tally[p].for     - Old(p, v, "for")     + New(vote, "for"),
               against |-> tally[p].against - Old(p, v, "against") + New(vote, "against")]]
  /\ UNCHANGED <<status, schedule, addressed, delegation, money, now>>

TotalCast(p) == tally[p].for + tally[p].against

Passes(p) ==
  /\ TotalCast(p) > 0
  /\ 100 * tally[p].for >= Threshold[p] * TotalCast(p)

TallyVotes(p) ==
  /\ status[p] = "voting"
  /\ now >= schedule[p].end
  /\ status' = [status EXCEPT ![p] = IF Passes(p) THEN "passed" ELSE "rejected"]
  /\ schedule' = [schedule EXCEPT ![p].passedAt = IF Passes(p) THEN now ELSE @]
  /\ UNCHANGED <<addressed, tally, votes, delegation, money, now>>

-----------------------------------------------------------------------------
\* The treasury and the execution of what passed.

Deposited == treasuryBalance + MapThenSumSet(LAMBDA p : spends[p], Proposals)

RecordDeposit(a) ==
  /\ Deposited + a <= MaxDeposited
  /\ treasuryBalance' = treasuryBalance + a
  /\ UNCHANGED <<ballots, delegation, spends, now>>

CanSpend(p, a) == a > 0 /\ a <= treasuryBalance /\ p \in Treasury

Spend(p, a) ==
  /\ treasuryBalance' = treasuryBalance - a
  /\ spends' = [spends EXCEPT ![p] = @ + a]

\* recordSpend is public: it asks for the type of the proposal, not its status.
RecordSpend(p, a) ==
  /\ status[p] # "absent"
  /\ CanSpend(p, a)
  /\ Spend(p, a)
  /\ UNCHANGED <<ballots, delegation, now>>

\* A fault: a spend that throws is swallowed and the proposal counts as executed.
PaysOrSkips(p) ==
  IF addressed[p] /\ CanSpend(p, Amount[p]) THEN Spend(p, Amount[p]) ELSE UNCHANGED money

\* The spend of executeProposal, which throws if the treasury is short of it.  A
\* proposal that names no amount or no recipient is executed without one.
Pays(p) ==
  IF Amount[p] = 0 \/ ~addressed[p]
  THEN UNCHANGED money
  ELSE CanSpend(p, Amount[p]) /\ Spend(p, Amount[p])

ExecuteProposal(p) ==
  /\ status[p] = "passed"
  /\ now >= schedule[p].passedAt + Timelock
  /\ Pays(p)
  /\ status' = [status EXCEPT ![p] = "executed"]
  /\ UNCHANGED <<schedule, addressed, tally, votes, delegation, now>>

Tick ==
  /\ now < MaxTime
  /\ now' = now + 1
  /\ UNCHANGED <<ballots, delegation, money>>

-----------------------------------------------------------------------------
Next ==
  \/ \E v \in Voters, b \in Holdings : RegisterBalance(v, b)
  \/ \E v \in Voters : RemoveDelegation(v)
  \/ \E v, d \in Voters : SetDelegation(v, d)
  \/ \E p \in Proposals, named \in BOOLEAN : CreateProposal(p, named)
  \/ \E p \in Proposals : \/ StartVoting(p)
                          \/ TallyVotes(p)
                          \/ ExecuteProposal(p)
  \/ \E p \in Proposals, v \in Voters, b \in Balances, direction \in {"for", "against"} :
       CastVote(p, v, direction, b)
  \/ \E a \in DepositAmounts : RecordDeposit(a)
  \/ \E p \in Proposals, a \in DepositAmounts : RecordSpend(p, a)
  \/ Tick

Spec == Init /\ [][Next]_vars

-----------------------------------------------------------------------------
TypeOK ==
  /\ status \in [Proposals -> Status]
  /\ schedule \in [Proposals -> [start : Nat, end : Nat, passedAt : Nat]]
  /\ addressed \in [Proposals -> BOOLEAN]
  /\ tally \in [Proposals -> [for : Nat, against : Nat]]
  /\ votes \in [Proposals -> [Voters -> [power : Nat, rawBalance : Balances \cup {0},
                                       direction : {"none", "for", "against"}]]]
  /\ delegations \in [Voters -> Voters \cup {None}]
  /\ delegationIndex \in [Voters -> SUBSET Voters]
  /\ tokenBalances \in [Voters -> Holdings \cup {0}]
  /\ treasuryBalance \in Nat
  /\ spends \in [Proposals -> Nat]
  /\ now \in 0..MaxTime

\* The running tallies are the sums of the recorded votes: castVote takes the
\* former vote of a voter out before it adds the new one, at whatever power
\* either was cast.
PowerCast(p, direction) ==
  MapThenSumSet(LAMBDA v : votes[p][v].power,
                {v \in Voters : votes[p][v].direction = direction})

TallyMatchesVotes ==
  \A p \in Proposals : /\ tally[p].for = PowerCast(p, "for")
                       /\ tally[p].against = PowerCast(p, "against")

\* The reverse index is the inverse of the delegations, through revocations and
\* changes of mind, and nobody's vote goes round in a circle.
IndexInverse == \A u, v \in Voters : u \in delegationIndex[v] <=> delegations[u] = v

Acyclic == \A S \in SUBSET Voters : S # {} => \E v \in S : delegations[v] \notin S

DelegationSound == IndexInverse /\ Acyclic

\* In an open vote nobody has voted and delegated: castVote refuses a delegator,
\* setDelegation refuses a voter.
NoDelegatorVotes ==
  \A p \in Proposals, v \in Voters :
    status[p] = "voting" /\ HasVoted(p, v) => delegations[v] = None

\* A proposal that passed still has the power that passed it: no ballot reaches
\* the tallies after the count, although the end of the voting period and the
\* first instant of the count coincide.
PassedByThreshold ==
  \A p \in Proposals : status[p] \in {"passed", "executed"} => Passes(p)

\* An executed treasury spend that names its recipient left the treasury: if it
\* is short of the amount, because operators have spent from it meanwhile, the
\* proposal stays 'passed' and can be executed later.
ExecutedIsPaid ==
  \A p \in Proposals : status[p] = "executed" /\ addressed[p] => spends[p] >= Amount[p]

\* "Percentage of total supply required to vote for quorum": a proposal passes
\* only if that part of the supply took part, by a vote or by delegating one.
Participation(p) ==
  MapThenSumSet(LAMBDA v : IF HasVoted(p, v) THEN votes[p][v].rawBalance ELSE tokenBalances[v],
                {v \in Voters : HasVoted(p, v) \/ delegations[v] # None})

QuorumReached ==
  [][\A p \in Proposals :
       status[p] = "voting" /\ status'[p] = "passed"
       => 100 * Participation(p) >= QuorumPercent * TotalSupply]_vars
=============================================================================
