CONSTANTS
  Second = 4
  MaxTime = 3
  Files <- MCFiles
  FirstSeqs <- MCFirstSeqs
SPECIFICATION FairSpec
INVARIANTS
  TypeOK
  Paced
  SentInOrder
PROPERTIES
  Terminates
