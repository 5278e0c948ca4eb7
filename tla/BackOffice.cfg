CONSTANTS
  Items = {i, j}
  Rates = {1, 2}
  BatchSize = 1
  Users = {u, v}
  NoPush = NoPush
  MaxBatches = 2
  MaxEdits = 1
  Span = 5
  HalfMonth = 3
  MaxWindow = 4
  MaxTimeouts = 2
  MaxReads = 2
  MaxChanges = 2
  d = d
  e = e
  Nil = Nil
  Bills = {b1, b2, b3}
  Docs <- MCDocs
  Papers <- MCPapers
  MaxFiles = 2
SPECIFICATION OfficeSpec
CHECK_DEADLOCK FALSE
INVARIANTS
  ItemTypeOK
  RowsFollowBatch
  PriceKnown
  DaysCovered
  TimeoutsBounded
  MarkerSound
  SourceKept
  XmlIsTheBill
  OneRowPerInvoice
PROPERTIES
  FirstFailureStopsRun
  RunEnds
