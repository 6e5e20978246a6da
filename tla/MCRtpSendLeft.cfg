CONSTANTS
  Second = 4
  MaxTime = 3
  Files <- MCFiles
  FirstSeqs <- MCFirstSeqs
SPECIFICATION Spec
INVARIANTS
  NothingLeft
