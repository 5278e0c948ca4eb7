SPECIFICATION Spec
CONSTANTS
  inv = inv
  NoVoucher = NoVoucher
  Doc = {inv}
  NoRef = {}
  Receipt = {}
  MaxJobs = 3
  MaxFaults = 2
  RetryWindow = 1
  StuckAfter = 2
  PullCeiling = 3
  OnlineWindow = 1
  Lag = 0
  Faults <- AnyFaults
INVARIANTS
  TypeOK
  LinkedIsPosted
