SPECIFICATION FairSpec
CONSTANTS
  Requests = {q1}
  Cancels = {c1}
  Calls = {m1}
  TaskIds = {q1}
  TaskOf <- OwnIds
  NoRequest = NoRequest
  SendCap = 1
  MaxReconnectAttempts = 0
  InitialReconnectDelay = 1
  MaxReconnectDelay = 1
  MaxRuns = 1
  MaxBeats = 0
  MaxSignals = 0
PROPERTY FinishedIsSent
