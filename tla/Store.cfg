SPECIFICATION Spec
CONSTANTS
  p1 = p1
  p2 = p2
  f1 = f1
  f2 = f2
  f3 = f3
  NoFile = NoFile
  Unread = Unread
  Torn = Torn
  Procs <- MCProcs
  Files <- MCFiles
  Faults <- MCFaults
SYMMETRY Symmetry
INVARIANTS
  TypeOK
  ReturnedSavesSurvive
  NothingLeftBehind
PROPERTY
  SavesAreAtomic
