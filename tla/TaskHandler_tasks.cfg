SPECIFICATION FairSpec
CONSTANTS
  t1 = t1
  t2 = t2
  NoRequest = NoRequest
  Requests = {q1, q2}
  Cancels = {c1}
  Calls = {m1}
  Deaf = {q2}
  TaskIds = {t1, t2}
  TaskOf <- SameId
  Waiters = {w1}
  MaxReceived = 3
INVARIANTS EntryIsLive Tracked OneResult
PROPERTIES WaitSeesIdle CancelIsAnswered ShutdownDrains
