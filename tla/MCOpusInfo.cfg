CONSTANTS
  s1 = s1
  s2 = s2
  s3 = s3
  times = times
  heads = heads
  MinPreskip = 1
  MaxDelay = 4
  Serials <- MCSerials
  NextPages <- MCNextPages
  MayHole <- MCMayHole
SYMMETRY MCSymmetry
SPECIFICATION Spec
CHECK_DEADLOCK FALSE
INVARIANTS
  TypeOK
  EndedOnce
  
  LengthExact
