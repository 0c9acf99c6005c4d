SPECIFICATION FairSpec
CONSTANTS
  w1 = w1
  Writers <- MCWriters
  MaxIterations = 2
  MaxStarts = 2
  Faults <- MCFaults
INVARIANTS
  TypeOK
  StampsAgree
  FailuresCounted
  ModeTells
PROPERTY
  RunEnds
