SPECIFICATION Spec
CONSTANTS
  Results = {r1,r2}
  SendCap = 2
  MaxReconnectAttempts = 0
  InitialReconnectDelay = 1
  MaxReconnectDelay = 2
  MaxRuns = 2
  MaxBeats = 0
  MaxSignals = 0
INVARIANT OneWriter
