SPECIFICATION FairSpec
CONSTANTS
  w1 = w1
  w2 = w2
  b1 = b1
  b2 = b2
  None = None
  Workers <- TwoWorkers
  Batches <- OneBatch
  FileCount = 1
  MaxAttempts = 2
  LockKeys <- OneKey
  hashtext <- OneBatchHash
  FaultScenarios <- NoFaults
PROPERTY EveryBatchSettles
CHECK_DEADLOCK FALSE
