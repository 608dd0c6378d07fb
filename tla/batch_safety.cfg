SPECIFICATION Spec
CONSTANTS
  w1 = w1
  w2 = w2
  b1 = b1
  b2 = b2
  None = None
  Workers <- TwoWorkers
  Batches <- OneBatch
  FileCount = 2
  MaxAttempts = 3
  LockKeys <- OneKey
  hashtext <- OneBatchHash
  FaultScenarios <- AllScenarios
SYMMETRY WorkerSymmetry
INVARIANTS
  MutualExclusion
  AttemptsDecideOutcome
  ReportHasItsEstimates
PROPERTY EstimateLinksKept
CHECK_DEADLOCK FALSE
