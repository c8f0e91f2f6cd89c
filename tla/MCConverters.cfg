SPECIFICATION Spec
CONSTANTS
  Messages = {1, 2, 3}
  Packages = {"p", "q"}
  Names = {"A", "B", "C", "D"}
  None = None
  Requests <- MCRequests
INVARIANTS
  TypeOK
  CallsResolve
  ConvertersLegal
  StructsConvertible
  ConvertersInv
