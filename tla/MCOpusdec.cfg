CONSTANTS
  InRate = 12
  Ratios <- MCRatios
  BaseLen = 4
  LenStep = 2
  BufferSize = 3
  OutChunk = 2
  DrainChunk = 2
  Channels = 2
  MaxFrame = 4
  MaxRead = 8
  MaxLinks = 2
SPECIFICATION FairSpec
INVARIANTS
  TypeOK
  PhaseExact
  LockStep
  DropsLessThanOneOutput
  LinkExact
  FileSizeExact
PROPERTIES
  Terminates
