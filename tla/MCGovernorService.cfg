SPECIFICATION FairServiceSpec
CONSTANTS
  Missing = Missing
  Garbage = Garbage
  SchemaLoaded = TRUE
  MaxPoints = 600
  SeriesWindow = 20
  DriftWindow = 5
  StateNames <- MCStateNames
  Shapes <- MCShapes
  Palettes <- MCPalettes
  Requests = {q1, q2}
  Rooms = {roomA, roomB}
  ServicePayloads <- MixedPayloads
  ServiceContexts <- MCContexts
  BusOutcomes = {"ok", "error"}
  AuditOutcomes = {"ok", "error"}
  MaxCrashes = 1
CHECK_DEADLOCK FALSE
INVARIANTS
  ServiceIsSound
PROPERTIES
  TasksComplete
