\* Tally writes to a name again after its earlier backup was uploaded.
CONSTANTS
  Manifest = Manifest
  Data = Data
  Later = Later
  Names <- MCNames
  SetIdFor <- MCSetIdFor
  CloudKeep = 2
  LocalKeep = 1
  SizeOf <- MCSizeOf
  MaxWrites = 2
  MaxAgain = 1
  MaxTroubles = 0
  Nobody = Nobody
SPECIFICATION BackupSpec
PROPERTIES
  PrunesOnlyConfirmed
