SPECIFICATION Spec
CONSTANTS
  inv = inv
  NoVoucher = NoVoucher
  Doc = {inv}
  NoRef = {}
  Receipt = {}
  MaxJobs = 6
  MaxFaults = 3
  RetryWindow = 1
  StuckAfter = 2
  PullCeiling = 3
  OnlineWindow = 1
  Lag = 0
  Faults <- ReadyFaults
INVARIANTS
  OneInFlight
  Accounted
  AtMostOneVoucher
  ReadyInv
PROPERTIES
  NoPostAfterCancel
  KeepsPromise
