SPECIFICATION FairSpec
CONSTANTS
  NumMessages = 3
  Bases = {"A", "L", "V", "LV", "PV"}
  Reserved <- MCReserved
  NoName = NoName
  Inputs <- MCInputs
  MaxDepth = 5
INVARIANTS
  TypeOK
  NamesDistinct
  CollectsReachable
  NamesWhatItCollects
  RenamedOnlyOnClash
  RefsResolve
  WrittenRefsResolve
  ComponentsInv
PROPERTY Terminates
