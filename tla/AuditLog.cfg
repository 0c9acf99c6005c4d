SPECIFICATION Spec
CONSTANTS
  p1 = p1
  p2 = p2
  e1 = e1
  e2 = e2
  e3 = e3
  e4 = e4
  NoEvent = NoEvent
  Procs <- MCProcs
  Events <- MCEvents
  Faults <- MCFaults
SYMMETRY Symmetry
INVARIANTS
  TypeOK
  SentIsLogged
PROPERTY
  EvidenceGrows
