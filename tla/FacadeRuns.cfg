\* Two facades and two runs, one facade made anew; the door names its session.
SPECIFICATION Spec
CONSTANTS
  a1 = a1
  a2 = a2
  Agents <- MCAgents
  Product <- MCProduct
  Identities <- MCIdentities
  None = None
  Persistent <- MCPersistent
  DoorNames = TRUE
  MaxRuns = 2
  MaxTicks = 2
  MaxGuided = 2
  MaxRemade = 1
INVARIANTS
  SessionsAreKeptApart
  GuidanceStaysWithItsTask
PROPERTIES
  SessionGoesOn
  EndedRecordsAreKept
SYMMETRY MCSymmetry
