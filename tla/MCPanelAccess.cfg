CONSTANTS
  r1 = r1
  r2 = r2
  p1 = p1
  p2 = p2
  Runs <- MCRuns
  Addresses <- MCAddresses
  NoClient = NoClient
  NoFile = NoFile
  NoName = NoName
  Retentions = {1, 2}
  MaxStarts = 3
  MaxClock = 1
  MaxRefusals = 2
  MaxCrashes = 1
SPECIFICATION Spec
INVARIANTS
  ClientIsCurrent
  BackupsAreKept
  CallIsHonest
SYMMETRY MCSymmetry
CHECK_DEADLOCK FALSE
