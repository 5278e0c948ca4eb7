SPECIFICATION Spec
CONSTANTS
  inv = inv
  rcpt = rcpt
  NoVoucher = NoVoucher
  Doc = {inv}
  NoRef = {}
  Receipt = {rcpt}
  MaxJobs = 4
  MaxFaults = 1
  RetryWindow = 1
  StuckAfter = 2
  PullCeiling = 3
  OnlineWindow = 1
  Lag = 0
  Faults = {"wrong_company"}
INVARIANTS
  AtMostOneVoucher
