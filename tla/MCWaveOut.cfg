CONSTANTS
  None = None
  b1 = b1
  b2 = b2
  b3 = b3
  b4 = b4
  Slots <- MCSlots
  Blocks <- MCBlocks
SPECIFICATION FairSpec
INVARIANTS
  TypeOK
  HeadersInBounds
  Accounting
  OneOwner
  CloseQuiesces
PROPERTIES
  CloseReturns
  BlocksComeBack
  ImplementsQueue
