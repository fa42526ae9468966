CONSTANTS
  u1 = u1
  u2 = u2
  u3 = u3
  a1 = a1
  a2 = a2
  i1 = i1
  i2 = i2
  Users <- MCUsers
  Agents <- MCAgents
  Inbounds <- MCInbounds
  NoClient = NoClient
  NoService = NoService
  Master = Master
  NoAgent = NoAgent
  NoInbound = NoInbound
  PerPage = 2
  Cap = 2
  Worlds <- MCWorlds
  Readers <- MCReaders
  Matches <- MCMatches
  ClientStates <- MCClientStates
  ServiceStates <- MCServiceStates
  MaxShifts = 1
SPECIFICATION ListsSpec
INVARIANTS
  NothingMissed
  BadgesAreTrue
  AgentSeesOwn
CHECK_DEADLOCK FALSE
