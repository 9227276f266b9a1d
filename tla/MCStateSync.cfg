SPECIFICATION Spec
CONSTANTS
  Clients <- MCClients
  Keys <- MCKeys
  Patches <- MCPatches
CHECK_DEADLOCK FALSE
INVARIANTS
  RoomIsWhole
PROPERTIES
  NothingUndone
  LockComesRound
