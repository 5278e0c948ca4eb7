SPECIFICATION FairSpec
CONSTANTS
  rcpt = rcpt
  NoVoucher = NoVoucher
  Doc = {}
  NoRef = {}
  Receipt = {rcpt}
  MaxJobs = 3
  MaxFaults = 1
  RetryWindow = 1
  StuckAfter = 2
  PullCeiling = 3
  OnlineWindow = 1
  Lag = 0
  Faults = {"restart"}
PROPERTIES
  ReceiptEventuallyLinked
