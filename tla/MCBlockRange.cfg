SPECIFICATION FairSpec
CONSTANTS
  MaxBlock = 5
  MaxTime = 7
INVARIANTS
  TypeOK
  RangeIsInterval
  RefusalsAreJustified
PROPERTY
  Terminates
