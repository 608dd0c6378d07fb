SPECIFICATION FairSpec
CONSTANTS
  f1 = f1
  f2 = f2
  u1 = u1
  d1 = d1
  d2 = d2
  c1 = c1
  c2 = c2
  None = None
  Files <- TwoFiles
  Uploads <- OneUpload
  Deleters <- TwoDeleters
  Cleaners <- TwoCleaners
  MaxAttempts = 2
  FaultScenarios <- ProcessFaults
INVARIANTS
  FilesFollowRows
  RetainedIsCharged
PROPERTY
  FilesArePurged
CHECK_DEADLOCK FALSE
