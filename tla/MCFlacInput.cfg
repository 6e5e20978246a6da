CONSTANTS
  ItemBytes = 2
  IdBytes = 7
  MaxRequest = 3
  FrameSize = 3
  Files <- MCFiles
SPECIFICATION Spec
INVARIANTS
  TypeOK
  BytesInOrder
PROPERTIES
  ImplementsFeed
  Terminates
