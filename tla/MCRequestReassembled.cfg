SPECIFICATION Spec
CONSTANTS
  None = None
  Odd = Odd
  Failed = Failed
  Unsupported = Unsupported
  MaxTries = 2
  Calls <- MCCalls
  Replies <- MCReplies
INVARIANT RequestReassembled
CHECK_DEADLOCK FALSE
