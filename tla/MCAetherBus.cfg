SPECIFICATION Spec
CONSTANTS
  Publishers <- MCPublishers
  Script <- MCScript
  VersionOf <- MCVersionOf
  NoVersion <- MCNoVersion
  Handlers <- MCHandlers
  Early <- MCEarly
  Faulty <- MCFaulty
  QueueMax = 2
  Limits <- MCLimits
  MaxHandlers = 2
  MaxStarts = 2
CHECK_DEADLOCK FALSE
INVARIANTS
  TasksAccounted
  HandlersStartInOrder
  NobodyOverlooked
  ReplicasConverge
PROPERTIES
  BusDrains
