CONSTANTS
  Prompt = 4
  Recent = 1
  MaxUsers = 2
  MaxCalls = 1
  MaxReplies = 3
  MaxFaults = 2
SPECIFICATION Spec
INVARIANT CallsShown
CHECK_DEADLOCK FALSE
