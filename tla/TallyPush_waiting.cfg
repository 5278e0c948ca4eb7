SPECIFICATION Spec
CONSTANTS
  inv = inv
  NoVoucher = NoVoucher
  Doc = {inv}
  NoRef = {}
  Receipt = {}
  MaxJobs = 4
  MaxFaults = 2
  RetryWindow = 2
  StuckAfter = 4
  PullCeiling = 5
  OnlineWindow = 1
  Lag = 1
  Faults <- WaitingFaults
INVARIANTS
  InTimeInv
PROPERTIES
  KeepsPromise
