------------------------------ MODULE RoomStream ----------------------------
(***************************************************************************)
(* The room stream gateway (ws_gateway/main.py): WebSocket sessions of     *)
(* several gateway processes append events to Redis streams, one a room,   *)
(* and replay them when they connect. An edit names the stream id it was   *)
(* made on; a process compares it with the last id it remembers and leaves *)
(* a conflict event before an edit it takes for stale.                     *)
(*                                                                         *)
(* One action is what runs between two awaits. A stream id is the position *)
(* of its entry, 0 an absent id. Redis executes an XADD in one step and    *)
(* its answer arrives in another, or never.                                *)
(***************************************************************************)
EXTENDS Naturals, Sequences, FiniteSets

CONSTANTS
  Processes,      \* gateway processes
  Sessions,       \* clients, each with one socket at a time
  Rooms,          \* "cognitive", the room of /ws/cognitive-stream, is one of them
  Inputs,         \* what editors send, but for the base id
  MaxLen,         \* STATE_SYNC_STREAM_MAXLEN
  ReplayLimit,    \* REPLAY_BATCH_LIMIT
  RedisFails,     \* whether a call of Redis may fail
  MaxId           \* bound: entries of a stream

ASSUME StreamAssumption ==
  /\ "cognitive" \in Rooms
  /\ MaxLen \in Nat \ {0} /\ ReplayLimit \in Nat \ {0}
  /\ RedisFails \in BOOLEAN /\ MaxId \in Nat
  /\ "none" \notin Processes /\ "many" \notin Processes

VARIABLES
  stream,     \* room -> every entry ever added
  trimmed,    \* room -> how many of the oldest Redis has dropped
  latest,     \* process -> room -> ROOM_LAST_STREAM_ID, 0 when it has none
  phase,      \* where a session's handler waits
  link,       \* what a session's socket is connected to: process, room and endpoint
  work,       \* the event under work
  reply,      \* the acceptance a session was answered last
  cursor,     \* history: client -> room -> last id it has seen in a replay
  missed,     \* history: client -> room -> ids a replay jumped over though still there
  keeper      \* history: room -> the one process that has served it, an event at a
              \* time and without a restart or failure; "none" yet, or "many"

session == <<phase, link, work, reply>>
history == <<cursor, missed, keeper>>
vars == <<stream, trimmed, latest, session, history>>

Roles == {"viewer", "designer", "strategist", "brand_lead", "operator"}
RoleActionScopes == [r \in Roles |->
  CASE r = "viewer"     -> {"presence.read"}
    [] r = "designer"   -> {"presence.read", "presence.write", "state.visual"}
    [] r = "strategist" -> {"presence.read", "presence.write", "state.semantic"}
    [] r = "brand_lead" -> {"presence.read", "presence.write", "state.semantic",
                            "approval.manage"}
    [] r = "operator"   -> {"presence.read", "presence.write", "state.visual",
                            "state.semantic", "approval.manage", "system.ops"}]

NoWork  == [type |-> "none"]
NoReply == [status |-> "none"]
NoLink  == [endpoint |-> "none"]
Link    == [process : Processes, room : Rooms, endpoint : {"state-sync"}]
             \cup [process : Processes, room : {"cognitive"}, endpoint : {"thoughts"}]
Room(s) == link[s].room
Home(s) == link[s].process
Phases  == {"off", "idle", "conflict", "conflictSent", "append", "appendSent"}
Busy    == Phases \ {"off", "idle"}

Last(room) == Len(stream[room])
Newest(ids) == CHOOSE i \in ids : \A j \in ids : j <= i

TypeOK ==
  /\ DOMAIN stream = Rooms
  /\ \A room \in Rooms : trimmed[room] \in 0..Last(room)
  /\ \A p \in Processes, room \in Rooms : latest[p][room] \in 0..Last(room)
  /\ phase \in [Sessions -> Phases] /\ link \in [Sessions -> Link \cup {NoLink}]
  /\ cursor \in [Sessions -> [Rooms -> Nat]]
  /\ keeper \in [Rooms -> Processes \cup {"none", "many"}]
  /\ \A s \in Sessions : /\ (phase[s] \in Busy) = (work[s] # NoWork)
                         /\ (phase[s] = "off") = (link[s] = NoLink)

Init ==
  /\ stream = [room \in Rooms |-> <<>>] /\ trimmed = [room \in Rooms |-> 0]
  /\ latest = [p \in Processes |-> [room \in Rooms |-> 0]]
  /\ phase = [s \in Sessions |-> "off"] /\ link = [s \in Sessions |-> NoLink]
  /\ work = [s \in Sessions |-> NoWork] /\ reply = [s \in Sessions |-> NoReply]
  /\ cursor = [s \in Sessions |-> [room \in Rooms |-> 0]]
  /\ missed = [s \in Sessions |-> [room \in Rooms |-> {}]]
  /\ keeper = [room \in Rooms |-> "none"]

-----------------------------------------------------------------------------
(* Connecting and replaying                                                  *)

\* Slip: the batch is cut at its older end.
NewestBatch(room, start) ==
  LET ids == {i \in 1..Last(room) : i > start /\ i > trimmed[room]}
  IN {i \in ids : i > Last(room) - ReplayLimit}

\* XRANGE (start +: the first ReplayLimit entries after it that are still there.
Batch(room, start) ==
  LET ids == {i \in 1..Last(room) : i > start /\ i > trimmed[room]}
  IN {i \in ids : Cardinality({j \in ids : j < i}) < ReplayLimit}

\* The socket is accepted and the replay read; a client resumes after the last id it
\* has seen. "$", or a failing read, skips the replay. An unauthorised client is closed
\* before it is accepted and changes nothing.
Connect(s, target) ==
  LET room == target.room
      seen == cursor[s][room]
  IN /\ phase[s] = "off"
     /\ phase' = [phase EXCEPT ![s] = "idle"] /\ link' = [link EXCEPT ![s] = target]
     /\ \E batch \in {Batch(room, seen), {}} :
          /\ cursor' = [cursor EXCEPT ![s][room] = Newest(batch \cup {@})]
          /\ missed' = [missed EXCEPT ![s][room] =
               @ \cup {i \in (seen + 1)..Newest(batch \cup {seen}) :
                         i > trimmed[room] /\ i \notin batch}]
     /\ UNCHANGED <<stream, trimmed, latest, work, reply, keeper>>

\* A session ends when its client is gone: the next receive or send finds out.
Leave(s) ==
  /\ phase[s] = "idle"
  /\ phase' = [phase EXCEPT ![s] = "off"] /\ link' = [link EXCEPT ![s] = NoLink]
  /\ reply' = [reply EXCEPT ![s] = NoReply]
  /\ UNCHANGED <<stream, trimmed, latest, work, history>>

-----------------------------------------------------------------------------
(* Receiving an event                                                        *)

Scope(input) ==
  CASE input.type = "presence" -> "presence.write"
    [] input.type = "approval" -> "approval.manage"
    [] input.type = "action"   -> input.scope
    [] OTHER                   -> "none"

\* _build_room_event; a missing actor or target is an input of its own.
Valid(input) ==
  /\ input.role \in Roles
  /\ Scope(input) \in RoleActionScopes[input.role]
  /\ input.type = "presence" => input.action \in {"join", "leave", "active_role",
                                                  "cursor_or_focus"}
  /\ input.type = "approval" => input.action \in {"request", "approve", "reject"}

Reject(s, input) ==
  /\ ~Valid(input)
  /\ reply' = [reply EXCEPT ![s] = NoReply]
  /\ UNCHANGED <<phase, work, keeper>>

Free(room) == \A s \in Sessions : phase[s] \in Busy => Room(s) # room

\* An event disturbs the order of a room that is under work, or another process's.
NoteKeeper(s) ==
  LET room == Room(s)
  IN keeper' = [keeper EXCEPT ![room] =
       IF Free(room) /\ @ \in {"none", Home(s)} THEN Home(s) ELSE "many"]

\* The base is compared with the last id the process itself has appended.
Stale(base, s) ==
  LET known == latest[Home(s)][Room(s)]
  IN base # 0 /\ known # 0 /\ base # known

\* Bound: a stream has room for the entries of every event under work.
RoomLeft(room, more) ==
  LET at(phases) == Cardinality({s \in Sessions : phase[s] \in phases /\ Room(s) = room})
  IN Last(room) + at({"conflict", "conflictSent", "append"}) + at({"conflict"}) + more
       <= MaxId

\* The base is absent or an id of the stream.
Bases(room) == 0..Last(room)

Accept(s, input, base) ==
  /\ Valid(input) /\ RoomLeft(Room(s), IF Stale(base, s) THEN 2 ELSE 1)
  /\ work' = [work EXCEPT ![s] =
       [type |-> "edit", input |-> input, conflictId |-> 0,
        conflict |-> IF Stale(base, s) THEN <<latest[Home(s)][Room(s)], base>> ELSE <<>>,
        stale |-> base # 0 /\ base # Last(Room(s))]]   \* history: at this moment
  /\ phase' = [phase EXCEPT ![s] = IF Stale(base, s) THEN "conflict" ELSE "append"]
  /\ NoteKeeper(s)
  /\ reply' = [reply EXCEPT ![s] = NoReply]

ReceiveEdit(s) ==
  /\ phase[s] = "idle" /\ link[s].endpoint = "state-sync"
  /\ \E input \in Inputs, base \in Bases(Room(s)) :
       Reject(s, input) \/ Accept(s, input, base)
  /\ UNCHANGED <<stream, trimmed, latest, link, cursor, missed>>

\* cognitive_stream appends whatever it receives.
ReceiveThought(s) ==
  /\ phase[s] = "idle" /\ link[s].endpoint = "thoughts" /\ RoomLeft(Room(s), 1)
  /\ work' = [work EXCEPT ![s] = [type |-> "thought"]]
  /\ phase' = [phase EXCEPT ![s] = "append"]
  /\ NoteKeeper(s)
  /\ reply' = [reply EXCEPT ![s] = NoReply]
  /\ UNCHANGED <<stream, trimmed, latest, link, cursor, missed>>

-----------------------------------------------------------------------------
(* Appending                                                                 *)

Conflict(w) == [type |-> "conflict",
                winner |-> w.conflict[1], base |-> w.conflict[2]]
Entry(w)    == IF w.type = "thought" THEN w
               ELSE [type |-> "edit", input |-> w.input,
                     stale |-> w.stale, conflictId |-> w.conflictId]

\* Redis adds the entry, and may trim what is beyond MaxLen (approximate: or not yet).
Store(s) ==
  LET room  == Room(s)
      entry == IF phase[s] = "conflict" THEN Conflict(work[s]) ELSE Entry(work[s])
  IN /\ phase[s] \in {"conflict", "append"}
     /\ stream' = [stream EXCEPT ![room] = Append(@, entry)]
     /\ \E n \in trimmed[room]..Len(stream'[room]) :
          /\ n = trimmed[room] \/ n <= Len(stream'[room]) - MaxLen
          /\ trimmed' = [trimmed EXCEPT ![room] = n]
     /\ phase' = [phase EXCEPT ![s] =
                    IF phase[s] = "conflict" THEN "conflictSent" ELSE "appendSent"]
     /\ work' = [work EXCEPT ![s] = [sent |-> Len(stream'[room]), event |-> @]]
     /\ UNCHANGED <<latest, link, reply, history>>

Answer(id, conflictId) == [status |-> "accepted", id |-> id, conflict |-> conflictId]

\* Slip: the conflict event's id is answered as the edit's.
ResumeConflictId(s, event, id, wasConflict) ==
  IF wasConflict
  THEN /\ phase' = [phase EXCEPT ![s] = "append"]
       /\ work' = [work EXCEPT ![s] = [event EXCEPT !.conflictId = id, !.conflict = <<>>]]
       /\ UNCHANGED reply
  ELSE /\ phase' = [phase EXCEPT ![s] = "idle"]
       /\ work' = [work EXCEPT ![s] = NoWork]
       /\ reply' = [reply EXCEPT ![s] =
            IF event.type = "edit" /\ event.conflictId # 0
            THEN Answer(event.conflictId, event.conflictId) ELSE Answer(id, 0)]

\* What the handler does with the answer of an append; id is 0 when there was none.
Resume(s, event, id, wasConflict) ==
  IF wasConflict
  THEN /\ phase' = [phase EXCEPT ![s] = "append"]
       /\ work' = [work EXCEPT ![s] = [event EXCEPT !.conflictId = id, !.conflict = <<>>]]
       /\ UNCHANGED reply
  ELSE /\ phase' = [phase EXCEPT ![s] = "idle"]
       /\ work' = [work EXCEPT ![s] = NoWork]
       /\ reply' = [reply EXCEPT ![s] =
            Answer(id, IF event.type = "edit" THEN event.conflictId ELSE 0)]

\* Slip: a process remembers the first id of a room only.
StoredFirstOnly(s) ==
  /\ phase[s] \in {"conflictSent", "appendSent"}
  /\ latest' = [latest EXCEPT ![Home(s)][Room(s)] = IF @ = 0 THEN work[s].sent ELSE @]
  /\ Resume(s, work[s].event, work[s].sent, phase[s] = "conflictSent")
  /\ UNCHANGED <<stream, trimmed, link, history>>

Stored(s) ==
  /\ phase[s] \in {"conflictSent", "appendSent"}
  /\ latest' = [latest EXCEPT ![Home(s)][Room(s)] = work[s].sent]
  /\ Resume(s, work[s].event, work[s].sent, phase[s] = "conflictSent")
  /\ UNCHANGED <<stream, trimmed, link, history>>

\* The append fails, or its answer is lost: logged, and the handler goes on with None.
Unanswered(s) ==
  /\ RedisFails
  /\ \/ /\ phase[s] \in {"conflict", "append"}
        /\ Resume(s, work[s], 0, phase[s] = "conflict")
     \/ /\ phase[s] \in {"conflictSent", "appendSent"}
        /\ Resume(s, work[s].event, 0, phase[s] = "conflictSent")
  /\ keeper' = [keeper EXCEPT ![Room(s)] = "many"]
  /\ UNCHANGED <<stream, trimmed, latest, link, cursor, missed>>

\* A restarted process has no sessions and remembers no ids.
Crash(p) ==
  LET lost == {s \in Sessions : link[s] # NoLink /\ Home(s) = p}
  IN /\ latest' = [latest EXCEPT ![p] = [room \in Rooms |-> 0]]
     /\ phase' = [s \in Sessions |-> IF s \in lost THEN "off" ELSE phase[s]]
     /\ work' = [s \in Sessions |-> IF s \in lost THEN NoWork ELSE work[s]]
     /\ link' = [s \in Sessions |-> IF s \in lost THEN NoLink ELSE link[s]]
     /\ reply' = [s \in Sessions |-> IF s \in lost THEN NoReply ELSE reply[s]]
     /\ keeper' = [room \in Rooms |-> IF keeper[room] = p THEN "many" ELSE keeper[room]]
     /\ UNCHANGED <<stream, trimmed, cursor, missed>>

Handler(s) == Store(s) \/ Stored(s) \/ Unanswered(s)

Next ==
  \/ \E s \in Sessions :
       \/ \E target \in Link : Connect(s, target)
       \/ Leave(s) \/ ReceiveEdit(s) \/ ReceiveThought(s) \/ Handler(s)
  \/ \E p \in Processes : Crash(p)

Spec == Init /\ [][Next]_vars

-----------------------------------------------------------------------------
Entries(room) == {stream[room][i] : i \in 1..Last(room)}
Edits(room)   == {e \in Entries(room) : e.type = "edit"}

(* A conflict event names two entries of its own room: one that was stored  *)
(* before it as the winner, and a base that is not that winner.             *)
ConflictsNameTheirRoom ==
  \A room \in Rooms : \A i \in 1..Last(room) :
    stream[room][i].type = "conflict" =>
      /\ stream[room][i].winner \in 1..(i - 1)
      /\ stream[room][i].base # stream[room][i].winner

(* An acceptance with an id names an edit or thought of its room's stream,  *)
(* and a conflict id the conflict event stored for that very edit before    *)
(* it, whatever other sessions append in between and which calls fail.      *)
AnswersNameStoredEvents ==
  \A s \in Sessions :
    LET log == stream[Room(s)]
        r   == reply[s]
    IN r.status = "accepted" =>
         /\ r.id # 0 => log[r.id].type # "conflict"
         /\ r.conflict # 0 => log[r.conflict].type = "conflict"
         /\ r.id # 0 /\ r.conflict # 0 =>
              r.conflict < r.id /\ log[r.id].conflictId = r.conflict

(* A room's stream and what its clients are told of it fit together: ids    *)
(* and conflicts name what is stored, in that room.                         *)
StreamsAreSound == TypeOK /\ ConflictsNameTheirRoom /\ AnswersNameStoredEvents

(* Resuming: a client that always resumes after the last id it has seen     *)
(* misses nothing but what Redis had trimmed, however small the batches.    *)
ResumeNeverSkips ==
  \A s \in Sessions, room \in Rooms : missed[s][room] = {}

(* Conflicts: in a room that one process serves without a restart, a failed *)
(* call or two events at a time, an edit is preceded by a conflict event    *)
(* exactly when its base is not the newest of the entries there are.        *)
OrderlyRoomsRecordConflicts ==
  \A room \in {r \in Rooms : keeper[r] # "many"} : \A e \in Edits(room) :
    (e.conflictId # 0) <=> e.stale

=============================================================================
