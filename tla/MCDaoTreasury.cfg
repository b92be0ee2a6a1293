CONSTANTS
  k1 = k1
  k2 = k2
  p1 = p1
  p2 = p2
  c1 = c1
  c2 = c2
  None = None
  Keys <- MCKeys
  Founders <- MCKeys
  Elsewhere <- MCKeys
  Proposals <- MCProposals
  Clients <- MCClients
  Spending <- MCSpending
  Amount <- MCAmount
  DepositAmounts <- MCDepositAmounts
  Quorum = 50
  Threshold = 1
  MaxDeposited = 10
SYMMETRY Symmetry
SPECIFICATION Spec
INVARIANTS TypeOK TreasuryBalanced SpentOnce ExecutedCarried
PROPERTIES LedgerSpec
