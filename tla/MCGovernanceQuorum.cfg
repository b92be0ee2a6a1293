CONSTANTS
  v1 = v1
  v2 = v2
  v3 = v3
  p1 = p1
  None = None
  Voters <- MCVoters
  Proposals <- MCProposals
  Treasury <- MCProposals
  Amount <- MCAmount
  Threshold <- MCThreshold
  Balances <- MCBalances
  Holdings <- MCHoldings
  TotalSupply = 40
  QuorumPercent = 10
  Discussion = 1
  VotingPeriod = 1
  Timelock = 1
  DepositAmounts <- MCDepositAmounts
  MaxDeposited = 2
  MaxTime = 3
SPECIFICATION Spec
PROPERTY QuorumReached
