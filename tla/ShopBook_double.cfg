SPECIFICATION Spec
CONSTANTS
  Requests = {r1, r2}
  Invoices = {i1}
  Orders = {}
  Payments = {}
  Worths = {1}
  Amounts = {1}
  MaxParts = 0
  Overlap = TRUE
  None = None
PROPERTIES FinalIsPermanent
CHECK_DEADLOCK FALSE
