SPECIFICATION Spec
CONSTANTS
  gone = gone
  null = null
  garbled = garbled
  nan = nan
  Missing <- gone
  Null <- null
  Garbage <- garbled
  NaN <- nan
  Calls <- MCCalls
  Providers <- MCProviders
  Models <- MCModels
  Keyed <- MCKeyed
  Texts <- MCTexts
  Contracts <- MCContracts
  OwnVisuals <- MCOwnVisuals
  MetricNames <- MCMetricNames
  Batches <- MCBatches
  SeriesMax = 22
  Windows <- MCWindows
  MaxRequests = 3
  MaxTime = 2
CHECK_DEADLOCK FALSE
INVARIANTS
  MeasuresTell
  OwnOutputIsEmittable
  AdaptersAgree
  TelemetryTells
