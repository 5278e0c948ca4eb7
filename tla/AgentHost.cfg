CONSTANTS
  Files = {exe, lib}
  Exe = exe
  MaxVersion = 4
  Unfit = {4}
  Unsound = {2}
  MaxStarts = 2
  MaxTargets = 2
  MaxCrashes = 1
  Manifest = Manifest
  Data = Data
  Later = Later
  Names <- MCNames
  SetIdFor <- MCSetIdFor
  CloudKeep = 1
  LocalKeep = 1
  SizeOf <- MCSizeOf
  MaxWrites = 2
  MaxAgain = 1
  MaxTroubles = 1
  Nobody = Nobody
SPECIFICATION HostSpec
CHECK_DEADLOCK FALSE
INVARIANTS
  UpdateTypeOK
  RecoverableOnDisk
  WatchedUntilProven
  BackupTypeOK
  BackupKept
PROPERTIES
  NoRetryOfFailed
  BadBuildLeaves
  ReachesTarget
  PrunesWhatWasSent
  PrunesWholeSets
  EveryFileConfirmed
