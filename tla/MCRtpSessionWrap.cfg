CONSTANTS
  Second = 4
  MaxTime = 0
  Files <- MCFiles
  FirstSeqs <- Late
  LinkTypes <- MCLinkTypes
  Networks <- MCNetworks
  OpusParses <- TocParses
  NbSamples <- TocSamples
  Ports <- MCPorts
  Types <- MCTypes
  Limit = 5
  SendPort = 1234
  SendType = 120
  Window = 1
SPECIFICATION SessionSpec
CHECK_DEADLOCK FALSE
INVARIANTS
  SkippedAreLate
