SPECIFICATION LiveSpec
CONSTANTS
  a = a
  b = b
  c = c
  m = m
  NoRule = NoRule
  Rules = {a, m}
  AutoSubmit = {a}
  Daemons = {d1}
  Operators = {p1}
  Launches <- RunnerLaunches
  Commands = {"create", "disable", "promote", "reset", "kill on"}
  Vouched = {a}
  Faults = {"account"}
  Gates <- AllGates
  QuietMarks = FALSE
PROPERTIES
  BlockedExitIsRetried
