SPECIFICATION FairSpec
CONSTANTS
  Results = {r1}
  SendCap = 1
  MaxReconnectAttempts = 3
  InitialReconnectDelay = 1
  MaxReconnectDelay = 5
  MaxRuns = 2
  MaxBeats = 0
  MaxSignals = 1
INVARIANTS AtMostOnce BackoffShape
PROPERTIES DeliverySpec QueuedIsSent ShutdownTerminates
