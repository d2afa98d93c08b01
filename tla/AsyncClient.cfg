SPECIFICATION FairSpec
CONSTANTS
  Task = {t1, t2, t3}
  MaxCalls = 2
  MAX_RETRIES = 2
  MAX_CONCURRENT = 2
  Interval = 2
  Buffer = 1
  Waits = {1, 2}
  DefaultWait = 1
  Burst <- BacklogDepth
  t1 = t1
  t2 = t2
  t3 = t3
INVARIANT IInv
INVARIANT PermitsConserved
PROPERTY ImplementsGate
PROPERTY ServerWaitHonoured
PROPERTY EveryCallEnds
