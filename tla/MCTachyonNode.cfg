SPECIFICATION Spec
CONSTANTS
  ClientIDs = {c1, c2}
  Sessions = {s1}
  r1 = r1
  r2 = r2
  Rooms = {r1, r2}
  NoRoom = NoRoom
  ShardOf <- MCShardOf
  ReplayBufferPerRoom = 2
  PerClientQueue = 2
  RegisterBuffer = 1
  UnregisterBuffer = 4
  BroadcastBuffer = 1
  BusOutcomes = {"ok"}
  MaxVersion = 3
SYMMETRY ClientSymmetry
CHECK_DEADLOCK FALSE
INVARIANTS
  NodeIsSound
  LogsAgree
  FeedsAreOrdered
  LossLeadsToEviction
PROPERTIES
  RemovalIsFinal
  ImplementsRoomFeed
