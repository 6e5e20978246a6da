CONSTANTS
  Qualities <- MCQualities
  BaseLen <- MCBaseLen
  Oversample <- MCOversample
  LenStep = 2
  Ratios <- MCRatios
  BufferSize = 2
  Channels = 2
  WordMax = 47
  TableMax = 20
  TablePad = 2
  Lengths <- MCLengths
  MaxFed = 4
  MaxChanges = 2
SPECIFICATION Spec
CHECK_DEADLOCK FALSE
INVARIANT MemorySound
PROPERTY Steady
