SPECIFICATION OutcomeSpec
CONSTANTS
  a = a
  b = b
  c = c
  m = m
  NoRule = NoRule
  Rules = {a, b, c}
  AutoSubmit = {a, b, c}
  Daemons = {d1}
  Operators = {p1}
  Launches <- SerialLaunches
  Commands <- AllCommands
  Vouched = {a, b}
  Faults <- AllFaults
  Gates <- AllGates
  QuietMarks = TRUE
INVARIANTS
  SuccessIsReal
  WedgedMeansDropped
  RecordedOrDropped
PROPERTIES
  EveryAttemptIsCanary
  NoSecondExit
  NoAttemptUnderKill
  OnlyVouched
  KillOnlyByCommand
  DisabledSticks
  CreatedStays
  ReviewOnlyByReset
  HasLife
