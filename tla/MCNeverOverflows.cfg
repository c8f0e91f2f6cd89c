SPECIFICATION Spec
CONSTANTS
  NumMessages = 3
  Bases = {"A", "L", "V", "LV", "PV"}
  Reserved <- MCReserved
  NoName = NoName
  Inputs <- MCInputs
  MaxDepth = 5
INVARIANT NeverOverflows
