SPECIFICATION Spec
CONSTANTS
  Missing = Missing
  Garbage = Garbage
  SchemaLoaded = TRUE
  MaxPoints = 3
  SeriesWindow = 3
  DriftWindow = 2
  StateNames <- MCStateNames
  Shapes <- MCShapes
  Palettes <- MCPalettes
  Payloads <- SessionPayloads
  Contexts <- SessionContexts
  MaxRequests = 4
  MaxTime = 3
CHECK_DEADLOCK FALSE
INVARIANTS
  SeriesIsSound
PROPERTIES
  SessionIsLegal
