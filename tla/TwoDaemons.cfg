SPECIFICATION Spec
CONSTANTS
  a = a
  b = b
  c = c
  m = m
  NoRule = NoRule
  Rules = {a}
  AutoSubmit = {a}
  Daemons = {d1, d2}
  Operators = {p1}
  Launches <- OnceLaunches
  Commands = {"init", "create", "promote", "reset", "kill on", "kill off"}
  Vouched = {a}
  Faults <- AllFaults
  Gates = {"market"}
  QuietMarks = TRUE
INVARIANTS
  TypeOK
  SpentAfterCanary
PROPERTIES
  KillInFlight
SYMMETRY Symmetric
