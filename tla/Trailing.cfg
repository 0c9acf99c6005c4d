SPECIFICATION Spec
CONSTANTS
  Rules <- MCRules
  Prices = {4, 6, 8}
  Sizes = {0, 1, 3}
  f1 = f1
  f2 = f2
  Fills = {f1, f2}
  SizeOf <- MCSizeOf
  Window = 2
  Hundred = 4
  NoPrice = NoPrice
  MaxMarks = 5
INVARIANT TypeOK
PROPERTY ExitsAtTrail
PROPERTY StopNeverLoosens
PROPERTY ExitIsOfThisTick
PROPERTY FillsProtected
