SPECIFICATION FairSpec
CONSTANTS
  b = b
  n1 = n1
  n2 = n2
  NoCall = NoCall
  ToolCalls = {a, b}
  ListCalls = {l}
  Servers = {n1, n2}
  ServerOf <- TwoServers
  MaxSessions = 3
  Closing = TRUE
INVARIANTS LeakedOnlyByInvalidation DroppedStaysOut
PROPERTIES ToolCallReturns BrokenIsDropped
