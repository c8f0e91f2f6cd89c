SPECIFICATION Spec
CONSTANTS
  None = None
  Odd = Odd
  Failed = Failed
  Unsupported = Unsupported
  MaxTries = 2
  Calls <- MCCalls
  Replies <- MCReplies
INVARIANT ErrorStatusMapped
CHECK_DEADLOCK FALSE
