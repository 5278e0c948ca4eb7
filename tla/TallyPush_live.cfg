SPECIFICATION FairSpec
CONSTANTS
  inv = inv
  rcpt = rcpt
  bill = bill
  NoVoucher = NoVoucher
  Doc = {inv, bill}
  NoRef = {bill}
  Receipt = {rcpt}
  MaxJobs = 7
  MaxFaults = 1
  RetryWindow = 1
  StuckAfter = 2
  PullCeiling = 3
  OnlineWindow = 1
  Lag = 0
  Faults <- LiveFaults
PROPERTIES
  EventuallyLinked
