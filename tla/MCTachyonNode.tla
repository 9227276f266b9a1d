---------------------------- MODULE MCTachyonNode ---------------------------
(* Small instances of TachyonNode for TLC.                                   *)
EXTENDS TachyonNode, TLC

CONSTANTS r1, r2

\* Two shards: r1 hashes to 0, every other room to 1.
MCShardOf == [r \in Rooms |-> IF r = r1 THEN 0 ELSE 1]

\* Client ids are random and only ever compared for equality.
ClientSymmetry == Permutations(ClientIDs)
=============================================================================
