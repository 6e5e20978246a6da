CONSTANTS
  Frame = 4
  FrameSize = 3
  Unknown = 71
  Plausible = 44
  Buffer = 1
  MaxAudio = 19
  Others <- MCOthers
SPECIFICATION Spec
INVARIANTS
  TypeOK
  RoundTrip
  SizesHonest
  AsDeclared
CHECK_DEADLOCK FALSE
