SPECIFICATION FairSpec
CONSTANTS
  s1 = s1
  s2 = s2
  h1 = h1
  h2 = h2
  a = a
  b = b
  c = c
  None = None
  Sessions <- OneSession
  Holders <- TwoHolders
  Tabs <- ThreeTabs
  HolderOf <- TwoOfOne
  MaxRotations = 2
  Scenarios <- Disturbed
INVARIANTS
  EndedStaysEnded
  UndisturbedSessionIsUsable
  EvidenceKept
PROPERTY
  SupersededTokenEndsSession
CHECK_DEADLOCK FALSE
