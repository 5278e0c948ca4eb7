SPECIFICATION FairSpec
CONSTANTS
  Requests = {r1, r2}
  Invoices = {i1, i2}
  Orders = {o1}
  Payments = {p1, p2}
  Worths = {2}
  Amounts = {1}
  MaxParts = 2
  Overlap = FALSE
  None = None
INVARIANTS TypeOK InvoicesGapFree VouchersGapFree NeverOverpaid BilledOnce
PROPERTIES EveryRequestEnds SettledIsPermanent
CHECK_DEADLOCK FALSE
