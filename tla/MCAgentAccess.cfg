CONSTANTS
  a1 = a1
  u1 = u1
  u2 = u2
  i1 = i1
  m1 = m1
  m2 = m2
  g1 = g1
  NoAgent = NoAgent
  NoUser = NoUser
  Agents <- MCAgents
  Users <- MCUsers
  Underscored <- MCUnderscored
  Inbounds <- MCInbounds
  Beginnings <- MCBeginnings
  PermissionSets <- MCPermissionSets
  MasterRuns <- MCMasterRuns
  AgentRuns <- MCAgentRuns
  MaxStarts = 2
  MaxChanges = 1
SPECIFICATION AccessSpec
INVARIANTS
  MasterIsObeyed
  ActsAreCovered
SYMMETRY MCSymmetry
CHECK_DEADLOCK FALSE
