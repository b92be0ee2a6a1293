CONSTANTS
  Parts = {"tasks"}
  None = None
  Nobody = Nobody
  Invoices = {h1}
  HodlCalls = {c1}
  Waiters = {w1}
  MaxCrashes = 0
  Tasks = {t1}
  Workers = {w1, w2}
  Jobs = {j1, j2}
  MaxCompletions = 3
SPECIFICATION PaymentsSpec
PROPERTIES PaidAfterVerified
CHECK_DEADLOCK FALSE
