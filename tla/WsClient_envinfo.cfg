SPECIFICATION Spec
CONSTANTS
  Results = {}
  SendCap = 1
  MaxReconnectAttempts = 0
  InitialReconnectDelay = 1
  MaxReconnectDelay = 1
  MaxRuns = 2
  MaxBeats = 2
  MaxSignals = 0
INVARIANT EnvInfoOncePerConnection
