SPECIFICATION LiveSpec
CONSTANTS
  a = a
  b = b
  c = c
  m = m
  NoRule = NoRule
  Rules = {a}
  AutoSubmit = {a}
  Daemons = {d1}
  Operators = {p1}
  Launches <- RunnerLaunches
  Commands <- AllCommands
  Vouched = {a}
  Faults = {}
  Gates = {"market"}
  QuietMarks = FALSE
PROPERTIES
  PromotedExitIsSent
