SPECIFICATION FairSpec
CONSTANTS
  w1 = w1
  w2 = w2
  b1 = b1
  b2 = b2
  None = None
  Workers <- TwoWorkers
  Batches <- TwoBatches
  FileCount = 1
  MaxAttempts = 2
  LockKeys <- OneKey
  hashtext <- CollidingHash
  FaultScenarios <- CrashOnly

PROPERTIES
  EveryBatchSettlesOrStrands
  WorkersComeBack
  SettledIsFinal
  QueueSpec
CHECK_DEADLOCK FALSE
