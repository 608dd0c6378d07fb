SPECIFICATION FairSpec
CONSTANTS
  r1 = r1
  r2 = r2
  None = None
  Requests <- TwoRequests
  Limits <- SmallLimits
  Sizes <- OneOrTwo
  BatchFiles = 1
  MaxMonth = 2
  MaxAttempts = 2
  MaxChunks = 2
  HttpAttempts = 2
  FaultScenarios <- AllScenarios
INVARIANTS
  QuotaNeverExceeded
  StorageCoversFiles
  AccountingExact
  
PROPERTIES
  LedgerSpec
  RequestsFinish
CHECK_DEADLOCK FALSE
