CONSTANTS
  Parts = {"hodl", "tasks"}
  None = None
  Nobody = Nobody
  \* HodlInvoice
  Invoices = {h1}
  HodlCalls = {c1, c2}
  Waiters = {w1, w2}
  MaxCrashes = 1
  \* TaskPayments
  Tasks = {t1}
  Workers = {w1, w2}
  Jobs = {j1, j2}
  MaxCompletions = 3
SPECIFICATION PaymentsSpec
INVARIANTS StatusHappened PaidIsConfirmed PaidPerCompletion
PROPERTIES PreimageKept RouteAnswered CompletedStays
