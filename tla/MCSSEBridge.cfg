SPECIFICATION FairSpec
CONSTANTS
  MaxSends = 4
  Pieces = 4
  BufCap = 5
INVARIANTS
  TypeOK
  BridgeInv
  WireIsStreamPrefix
  EndIsComplete
  ErrBodyIffReported
  TornOnlyWhenGone
PROPERTIES
  KeepsPromise
  SendReturns
  StreamEnds
  NoGoroutineLeak
