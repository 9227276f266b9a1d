----------------------------- MODULE MCRoomStream ---------------------------
(* Small instances of RoomStream for TLC.                                    *)
EXTENDS RoomStream, TLC

Sends(type, role, scope, action) ==
  [type |-> type, role |-> role, scope |-> scope, action |-> action]
MCInputs ==
  {Sends("action", "designer", "state.visual", "edit"),
   Sends("approval", "designer", "none", "approve")}
StreamSymmetry == Permutations(Sessions) \cup Permutations(Processes)
=============================================================================
