SPECIFICATION Spec
CONSTANTS
  Nodes <- MCNodes
  Users <- MCUsers
  Rooms <- MCRooms
  Entrances <- MCEntrances
  Casts <- MCCasts
  MaxConns = 2
  Rate = 2
  Token = 2
  Timeout = 1
  QueueMax = 2
  MaxSessions = 3
  MaxTime = 2
CHECK_DEADLOCK FALSE
INVARIANTS
  GatekeeperAccounts
  RoomOrderKept
  RoomReachesSession
  ClocksFollowVersions
  QueuesAreSound
PROPERTIES
  StateOutlivesTheRest
