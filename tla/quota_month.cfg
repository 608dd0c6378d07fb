SPECIFICATION Spec
CONSTANTS
  r1 = r1
  r2 = r2
  None = None
  Requests <- TwoRequests
  Limits <- SmallLimits
  Sizes <- OneOrTwo
  BatchFiles = 1
  MaxMonth = 2
  MaxAttempts = 1
  MaxChunks = 1
  HttpAttempts = 1
  FaultScenarios <- MonthOnly
INVARIANT FailureCostsNothing
CHECK_DEADLOCK FALSE
