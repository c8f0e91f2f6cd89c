SPECIFICATION FairSpec
CONSTANTS
  None = None
  Odd = Odd
  Failed = Failed
  Unsupported = Unsupported
  MaxTries = 2
  Calls <- MCCalls
  Replies <- MCReplies
INVARIANTS
  TypeOK
  GatewayInv
  ServiceSeesSent
  
  
  ClientReadsAnswers
PROPERTIES
  KeepsExchange
  EveryCallEnds
CHECK_DEADLOCK FALSE
