------------------------------ MODULE RoomFeed ------------------------------
(***************************************************************************)
(* What a Tachyon node promises the clients of its rooms, without          *)
(* goroutines, channels or maps. Each room has a log to which events are   *)
(* only ever appended. A client is attached to one room for its whole      *)
(* life, enters the room's audience once and leaves it at most once, and   *)
(* is fed events of that room's log, each already in the log when it is    *)
(* fed. Nothing is fed to a client that has left.                          *)
(*                                                                         *)
(* The promise is deliberately silent on order, loss and repetition: the   *)
(* node keeps less than its documents say there (see TachyonNode).         *)
(***************************************************************************)
EXTENDS Integers, Sequences

CONSTANTS ClientIDs, Rooms, NoRoom

VARIABLES
  log,       \* the last version of each room
  home,      \* the room a client is attached to, NoRoom before that
  audience,  \* "waiting", "listening" or "left"
  feed       \* everything ever fed to a client

feedVars == <<log, home, audience, feed>>

FeedInit ==
  /\ log = [r \in Rooms |-> 0]
  /\ home = [c \in ClientIDs |-> NoRoom]
  /\ audience = [c \in ClientIDs |-> "waiting"]
  /\ feed = [c \in ClientIDs |-> <<>>]

Append1(r) ==
  /\ log' = [log EXCEPT ![r] = @ + 1]
  /\ UNCHANGED <<home, audience, feed>>

Attach(c, r) ==
  /\ home[c] = NoRoom
  /\ home' = [home EXCEPT ![c] = r]
  /\ UNCHANGED <<log, audience, feed>>

Enter(c) ==
  /\ audience[c] = "waiting" /\ home[c] # NoRoom
  /\ audience' = [audience EXCEPT ![c] = "listening"]
  /\ UNCHANGED <<log, home, feed>>

Feed(c, r, v) ==
  /\ audience[c] # "left" /\ home[c] = r
  /\ v >= 1 /\ v <= log[r]
  /\ feed' = [feed EXCEPT ![c] = Append(@, [room |-> r, version |-> v])]
  /\ UNCHANGED <<log, home, audience>>

Leave(c) ==
  /\ audience[c] = "listening"
  /\ audience' = [audience EXCEPT ![c] = "left"]
  /\ UNCHANGED <<log, home, feed>>

FeedNext ==
  \/ \E r \in Rooms : Append1(r)
  \/ \E c \in ClientIDs :
       \/ Enter(c)
       \/ Leave(c)
       \/ \E r \in Rooms : Attach(c, r)
       \/ \E r \in Rooms : \E v \in 1..log[r] : Feed(c, r, v)

FeedSpec == FeedInit /\ [][FeedNext]_feedVars
=============================================================================
