SPECIFICATION Spec
CONSTANTS
  Processes = {p1, p2}
  Sessions = {s1, s2}
  Rooms = {"cognitive"}
  Inputs <- MCInputs
  MaxLen = 3
  ReplayLimit = 1
  RedisFails = TRUE
  MaxId = 4
SYMMETRY StreamSymmetry
INVARIANTS
  StreamsAreSound
  ResumeNeverSkips
  OrderlyRoomsRecordConflicts
