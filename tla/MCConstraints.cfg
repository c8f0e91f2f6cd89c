SPECIFICATION Spec
CONSTANTS
  None = None
  Chars = {"a", "b"}
  Fields <- MCFields
  Scalars <- MCScalars
  EnumValues <- MCEnumValues
  Conforming <- MCConforming
  Spellings = {"plain", "zeros", "word"}
  MaxSize = 2
INVARIANTS
  
  NeverAdmits
CHECK_DEADLOCK FALSE
