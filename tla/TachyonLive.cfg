SPECIFICATION FairSpec
CONSTANTS
  ClientIDs = {c1, c2}
  Sessions = {s1}
  r1 = r1
  r2 = r2
  Rooms = {r1}
  NoRoom = NoRoom
  ShardOf <- MCShardOf
  ReplayBufferPerRoom = 2
  PerClientQueue = 1
  RegisterBuffer = 1
  UnregisterBuffer = 1
  BroadcastBuffer = 1
  BusOutcomes = {"error"}
  MaxVersion = 2
CHECK_DEADLOCK FALSE
PROPERTIES
  EveryMessageRecorded
  LeaversAreRemoved
  RemovedClientIsDisconnected
