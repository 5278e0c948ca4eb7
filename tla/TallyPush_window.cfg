SPECIFICATION Spec
CONSTANTS
  inv = inv
  NoVoucher = NoVoucher
  Doc = {inv}
  NoRef = {}
  Receipt = {}
  MaxJobs = 3
  MaxFaults = 1
  RetryWindow = 4
  StuckAfter = 5
  PullCeiling = 15
  OnlineWindow = 2
  Lag = 1
  Faults = {"not_ready"}
INVARIANTS
  AtMostOneVoucher
