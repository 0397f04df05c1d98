SPECIFICATION Spec
CONSTANTS
  i1 = i1
  i2 = i2
  r1 = r1
  r2 = r2
  Ids <- MCIds
  Records <- MCRecords
  NoRecord = NoRecord
  Missing = Missing
  Corrupt = Corrupt
  NoCache = NoCache
  MaxSig = 4
  WriteMayFail = FALSE
  EditContents <- NoEdits
PROPERTY
  ImplementsAtomicStore
