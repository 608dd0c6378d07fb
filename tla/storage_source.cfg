SPECIFICATION Spec
CONSTANTS
  f1 = f1
  f2 = f2
  u1 = u1
  d1 = d1
  d2 = d2
  c1 = c1
  c2 = c2
  None = None
  Files <- OneFile
  Uploads <- OneUpload
  Deleters <- TwoDeleters
  Cleaners <- TwoCleaners
  MaxAttempts = 2
  FaultScenarios <- EarlyDeletion
INVARIANT SourcePreserved
CHECK_DEADLOCK FALSE
