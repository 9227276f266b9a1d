SPECIFICATION Spec
CONSTANTS
  Missing = Missing
  Garbage = Garbage
  SchemaLoaded = TRUE
  MaxPoints = 2
  SeriesWindow = 4
  DriftWindow = 2
  StateNames <- MCStateNames
  Shapes <- MCShapes
  Palettes <- MCPalettes
  Payloads <- WidePayloads
  Contexts <- WideContexts
  MaxRequests = 1
  MaxTime = 0
CHECK_DEADLOCK FALSE
INVARIANTS
  ApprovedIsSafe
  ContextIsRespected
  ApprovalIsStable
