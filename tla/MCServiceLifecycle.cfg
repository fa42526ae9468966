SPECIFICATION Spec
CONSTANTS
  Runs = {r1, r2}
  Kinds = {"marzban", "xui"}
  WarnPercent = 50
  LeadDays = 1
  PlanDays = 0
  MaxNow = 1
  MaxUsed = 1
  MaxStarts = 3
INVARIANTS
  RowFollowsPanel
  RacesSpare
  WarnedOnce
PROPERTIES
  CutOffIsDue
  EnabledOnPurpose
CHECK_DEADLOCK FALSE

SYMMETRY MCSymmetry
