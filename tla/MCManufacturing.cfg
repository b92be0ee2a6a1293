CONSTANTS
  o1 = o1
  e1 = e1
  e2 = e2
  p1 = p1
  p2 = p2
  c1 = c1
  c2 = c2
  None = None
  Quantity = 2
  Orders <- MCOrders
  Escrows <- MCEscrows
  Products <- MCProducts
  Callers <- MCCallers
  Percents <- MCPercents
  FieldStages <- MCFieldStages
SPECIFICATION Spec
INVARIANTS PaidOnce CounterMatchesPayments PassportsMatchItems
PROPERTIES CompletedIsPaid
CHECK_DEADLOCK FALSE
