CONSTANTS
  a1 = a1
  a2 = a2
  d1 = d1
  r1 = r1
  r2 = r2
  Main = Main
  NoDomain = NoDomain
  NoAgent = NoAgent
  Agents <- MCAgents
  Domains <- MCDomains
  Runs <- MCRuns
  Beginnings <- MCBeginnings
  MaxStarts = 4
SPECIFICATION Spec
INVARIANTS
  SessionsFollowPassword
  LiveDomainIsProven
  EntryIsChecked
PROPERTIES
  ResetStands
SYMMETRY MCSymmetry
CHECK_DEADLOCK FALSE
