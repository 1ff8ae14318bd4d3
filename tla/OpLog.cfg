SPECIFICATION FairSpec
CONSTANTS
  r1 = r1
  r2 = r2
  r3 = r3
  f1 = f1
  f2 = f2
  Requests = {r1, r2, r3}
  Durable = {r1}
  Files = {f1, f2}
  TargetOf <- TwoOnOneFile
  MaxCommitAttempts = 2
  MaxHeadLoadAttempts = 2
  MaxRebaseWalkOps = 3
  MaxDurableWalkOps = 3
  MaxFaults = 1
INVARIANTS
  TypeOK
  ChainUnbroken
  CommittedOnce
  CommittedReadable
PROPERTIES ImplementsCommitLog CallsReturn DurableSettles
CHECK_DEADLOCK FALSE
