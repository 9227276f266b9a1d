SPECIFICATION Spec
CONSTANTS
  ClientIDs = {c1, c2}
  Sessions = {s1}
  r1 = r1
  r2 = r2
  Rooms = {r1}
  NoRoom = NoRoom
  ShardOf <- MCShardOf
  ReplayBufferPerRoom = 4
  PerClientQueue = 4
  RegisterBuffer = 1
  UnregisterBuffer = 2
  BroadcastBuffer = 1
  BusOutcomes = {"ok"}
  MaxVersion = 4
CHECK_DEADLOCK FALSE
INVARIANT ReplayMissesNothing
