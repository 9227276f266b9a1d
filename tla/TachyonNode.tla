---------------------------- MODULE TachyonNode ----------------------------
(***************************************************************************)
(* One AetherBus Tachyon WebSocket node (aetherbus_tachyon_go/server.go).  *)
(*                                                                         *)
(* Four kinds of goroutine share the node: the HTTP handler that accepts a *)
(* connection and replays what the client missed, the read pump and the    *)
(* write pump of every client, and the single Run loop that owns           *)
(* membership and fan-out. They meet in the buffered channels register,    *)
(* unregister and broadcast, in each client's send channel, and in the     *)
(* maps guarded by the node's mutex. Every action below is one critical    *)
(* section, or one channel operation, of one goroutine.                    *)
(*                                                                         *)
(* A message is identified with the event it becomes: its room and the     *)
(* version recordRoomEvent gives it. A send channel is kept as the whole   *)
(* sequence ever queued on it and the number the write pump took from it.  *)
(***************************************************************************)
EXTENDS Integers, Sequences, FiniteSets

CONSTANTS
  ClientIDs,            \* ids generateID hands out, one per connection
  Sessions,             \* sticky session ids
  Rooms,
  NoRoom,               \* marks a connection not accepted yet
  ShardOf,              \* shardForRoom: room -> shard, a pure hash
  ReplayBufferPerRoom, PerClientQueue,
  RegisterBuffer, UnregisterBuffer, BroadcastBuffer,
  BusOutcomes,          \* what busPublisher.Publish may answer
  MaxVersion            \* bound: messages ever accepted for one room

ASSUME RoomsAssumption == NoRoom \notin Rooms
ASSUME ShardAssumption == ShardOf \in [Rooms -> Nat]
ASSUME CapacityAssumption ==
  /\ ReplayBufferPerRoom \in Nat \ {0}
  /\ PerClientQueue \in Nat \ {0}
  /\ RegisterBuffer \in Nat \ {0}
  /\ UnregisterBuffer \in Nat \ {0}
  /\ BroadcastBuffer \in Nat \ {0}
  /\ MaxVersion \in Nat
ASSUME BusAssumption == BusOutcomes \subseteq {"ok", "error"} /\ BusOutcomes # {}

VARIABLES
  clients,          \* s.clients: the registered ids
  rooms,            \* s.rooms: room -> ids fanned out to
  register, unregister, broadcast,      \* the node's channels
  roomVersions, roomHistory,            \* the versioned replay buffer
  stickySessions,   \* session -> [room, shard] of its contract
  room, shard,      \* fields of Client
  resumeFrom,       \* ReplayFromVersion of the plan, 0 when it does not resume
  handler,          \* where the connection's HTTP handler is
  replay,           \* versions the handler still has to queue
  queued, taken, closed,                \* the client's send channel
  reader, writer,   \* the two pumps
  connOpen,         \* the WebSocket itself
  current, targets, \* Run: the message being fanned out, clients left to send to
  published,        \* events the room-events stream of the bus acknowledged
  runPanicked       \* Run sent on, or closed, a closed channel: the node is down

connVars == <<room, shard, resumeFrom, handler, replay>>
sendVars == <<queued, taken, closed>>
pumpVars == <<reader, writer, connOpen>>
roomLog  == <<roomVersions, roomHistory>>
runVars  == <<current, targets, published, runPanicked>>
registry == <<clients, rooms>>
vars == <<registry, register, unregister, broadcast, roomLog, stickySessions,
          connVars, sendVars, pumpVars, runVars>>

Event     == [room : Rooms, version : Nat]
Contract  == [room : Rooms \cup {NoRoom}, shard : Nat]
NoContract == [room |-> NoRoom, shard |-> 0]
Idle      == [room |-> NoRoom, version |-> 0]
Elems(s)  == {s[i] : i \in DOMAIN s}

RegistryType ==
  /\ clients \subseteq ClientIDs
  /\ rooms \in [Rooms -> SUBSET ClientIDs]

ChannelType ==
  /\ register \in Seq(ClientIDs) /\ Len(register) <= RegisterBuffer
  /\ unregister \in Seq(ClientIDs) /\ Len(unregister) <= UnregisterBuffer
  /\ broadcast \in Seq(Rooms) /\ Len(broadcast) <= BroadcastBuffer

LogType ==
  /\ roomVersions \in [Rooms -> Nat]
  /\ roomHistory \in [Rooms -> Seq(Nat)]

ConnType ==
  /\ stickySessions \in [Sessions -> Contract]
  /\ room \in [ClientIDs -> Rooms \cup {NoRoom}]
  /\ shard \in [ClientIDs -> Nat]
  /\ resumeFrom \in [ClientIDs -> Nat]
  /\ handler \in [ClientIDs -> {"new", "register", "fetch", "replay", "done", "panicked"}]
  /\ replay \in [ClientIDs -> SUBSET Nat]

SendType ==
  /\ queued \in [ClientIDs -> Seq(Event)]
  /\ taken \in [ClientIDs -> Nat]
  /\ \A c \in ClientIDs : taken[c] <= Len(queued[c])
  /\ closed \in [ClientIDs -> BOOLEAN]

PumpType ==
  /\ reader \in [ClientIDs -> {"off", "on", "gone"}]
  /\ writer \in [ClientIDs -> {"off", "on", "gone"}]
  /\ connOpen \in [ClientIDs -> BOOLEAN]

RunType ==
  /\ current \in Event \cup {Idle}
  /\ targets \subseteq ClientIDs
  /\ published \subseteq Event
  /\ runPanicked \in BOOLEAN

TypeOK == RegistryType /\ ChannelType /\ LogType /\ ConnType /\ SendType /\ PumpType /\ RunType

\* NewServer: no clients, no rooms, empty channels, every version 0.
Init ==
  /\ clients = {} /\ rooms = [r \in Rooms |-> {}]
  /\ register = <<>> /\ unregister = <<>> /\ broadcast = <<>>
  /\ roomVersions = [r \in Rooms |-> 0]
  /\ roomHistory = [r \in Rooms |-> <<>>]
  /\ stickySessions = [s \in Sessions |-> NoContract]
  /\ room = [c \in ClientIDs |-> NoRoom]
  /\ shard = [c \in ClientIDs |-> 0]
  /\ resumeFrom = [c \in ClientIDs |-> 0]
  /\ handler = [c \in ClientIDs |-> "new"]
  /\ replay = [c \in ClientIDs |-> {}]
  /\ queued = [c \in ClientIDs |-> <<>>]
  /\ taken = [c \in ClientIDs |-> 0]
  /\ closed = [c \in ClientIDs |-> FALSE]
  /\ reader = [c \in ClientIDs |-> "off"]
  /\ writer = [c \in ClientIDs |-> "off"]
  /\ connOpen = [c \in ClientIDs |-> FALSE]
  /\ current = Idle /\ targets = {} /\ published = {}
  /\ runPanicked = FALSE

-----------------------------------------------------------------------------
(* The send channel of a client.                                           *)

SendHasRoom(c) == Len(queued[c]) - taken[c] < PerClientQueue
Enqueue(c, e)  == queued' = [queued EXCEPT ![c] = Append(@, e)]

-----------------------------------------------------------------------------
(* The HTTP handler: HandleConnectionWithContract.                         *)

\* AssignStickySession: a session keeps its contract as long as it keeps its room.
StickyContract(s, r) ==
  IF stickySessions[s].room = r THEN stickySessions[s]
  ELSE [room |-> r, shard |-> ShardOf[r]]

\* PlanReconnect: resume only behind the latest version; 0 says "no resume".
PlanReconnect(r, lastKnown) ==
  IF lastKnown <= 0 \/ lastKnown >= roomVersions[r] THEN 0 ELSE lastKnown

\* getReplayEvents: the retained versions newer than the one the client knows. The
\* history is in ascending order (HistoryIsLogSuffix), so the set determines the slice.
ReplayEvents(r, from) == {v \in Elems(roomHistory[r]) : v > from}

\* A connection is upgraded for session s and room r by a client that claims to
\* have seen lastKnown. Sticky assignment and plan are read here, before the
\* client is on any channel.
Accept(c, s, r, lastKnown) ==
  /\ handler[c] = "new"
  /\ room' = [room EXCEPT ![c] = r]
  /\ stickySessions' = [stickySessions EXCEPT ![s] = StickyContract(s, r)]
  /\ shard' = [shard EXCEPT ![c] = StickyContract(s, r).shard]
  /\ resumeFrom' = [resumeFrom EXCEPT ![c] = PlanReconnect(r, lastKnown)]
  /\ handler' = [handler EXCEPT ![c] = "register"]
  /\ connOpen' = [connOpen EXCEPT ![c] = TRUE]
  /\ UNCHANGED <<registry, register, unregister, broadcast, roomLog, replay,
                 sendVars, reader, writer, runVars>>

\* `go s.readPump(client); go s.writePump(client)`, the handler's last act.
StartPumps(c) ==
  /\ handler' = [handler EXCEPT ![c] = "done"]
  /\ reader' = [reader EXCEPT ![c] = "on"]
  /\ writer' = [writer EXCEPT ![c] = "on"]

\* Mutant: ShouldResume is not tested, every connection replays.
RegisterAlwaysReplays(c) ==
  /\ handler[c] = "register"
  /\ Len(register) < RegisterBuffer
  /\ register' = Append(register, c)
  /\ handler' = [handler EXCEPT ![c] = "fetch"]
  /\ UNCHANGED <<registry, unregister, broadcast, roomLog, stickySessions, room, shard,
                 resumeFrom, replay, sendVars, pumpVars, runVars>>

\* `s.register <- client` blocks while the channel is full.
Register(c) ==
  /\ handler[c] = "register"
  /\ Len(register) < RegisterBuffer
  /\ register' = Append(register, c)
  /\ \/ /\ resumeFrom[c] = 0
        /\ StartPumps(c)
     \/ /\ resumeFrom[c] > 0
        /\ handler' = [handler EXCEPT ![c] = "fetch"]
        /\ UNCHANGED <<reader, writer>>
  /\ UNCHANGED <<registry, unregister, broadcast, roomLog, stickySessions, room,
                 shard, resumeFrom, replay, sendVars, connOpen, runVars>>

\* enqueueReplay copies the retained events under the read lock ...
FetchReplay(c) ==
  /\ handler[c] = "fetch"
  /\ replay' = [replay EXCEPT ![c] = ReplayEvents(room[c], resumeFrom[c])]
  /\ handler' = [handler EXCEPT ![c] = "replay"]
  /\ UNCHANGED <<registry, register, unregister, broadcast, roomLog, stickySessions,
                 room, shard, resumeFrom, sendVars, pumpVars, runVars>>

\* ... and queues them one by one, with no lock held. A full queue ends the
\* replay; a queue that Run has closed panics the handler, which net/http
\* recovers: the pumps are never started.
EnqueueReplay(c) ==
  /\ handler[c] = "replay"
  /\ \/ /\ replay[c] = {}
        /\ StartPumps(c)
        /\ UNCHANGED <<replay, queued>>
     \/ /\ replay[c] # {} /\ closed[c]
        /\ handler' = [handler EXCEPT ![c] = "panicked"]
        /\ UNCHANGED <<replay, queued, reader, writer>>
     \/ /\ replay[c] # {} /\ ~closed[c] /\ SendHasRoom(c)
        /\ \E v \in replay[c] :
             /\ \A w \in replay[c] : v <= w
             /\ Enqueue(c, [room |-> room[c], version |-> v])
             /\ replay' = [replay EXCEPT ![c] = @ \ {v}]
        /\ UNCHANGED <<handler, reader, writer>>
     \/ /\ replay[c] # {} /\ ~closed[c] /\ ~SendHasRoom(c)
        /\ replay' = [replay EXCEPT ![c] = {}]
        /\ StartPumps(c)
        /\ UNCHANGED queued
  /\ UNCHANGED <<registry, register, unregister, broadcast, roomLog, stickySessions,
                 room, shard, resumeFrom, taken, closed, connOpen, runVars>>

-----------------------------------------------------------------------------
(* Messages enter through `s.broadcast <- Message{...}`, which blocks while *)
(* the channel is full.                                                     *)

Accepted(r) == roomVersions[r] + Cardinality({i \in DOMAIN broadcast : broadcast[i] = r})

PushBroadcast(r) ==
  /\ Len(broadcast) < BroadcastBuffer
  /\ Accepted(r) < MaxVersion
  /\ broadcast' = Append(broadcast, r)

\* readPump hands a client's message to its room.
ReadPumpMessage(c) ==
  /\ reader[c] = "on" /\ connOpen[c]
  /\ PushBroadcast(room[c])
  /\ UNCHANGED <<registry, register, unregister, roomLog, stickySessions, connVars,
                 sendVars, pumpVars, runVars>>

\* HandleAIEvent: the bus consumer hands a command to a room.
HandleAIEvent(r) ==
  /\ PushBroadcast(r)
  /\ UNCHANGED <<registry, register, unregister, roomLog, stickySessions, connVars,
                 sendVars, pumpVars, runVars>>

\* Mutant: the read pump closes the connection and forgets to unregister.
ReadPumpExitSilent(c) ==
  /\ reader[c] = "on"
  /\ reader' = [reader EXCEPT ![c] = "gone"]
  /\ connOpen' = [connOpen EXCEPT ![c] = FALSE]
  /\ UNCHANGED <<registry, register, unregister, broadcast, roomLog, stickySessions,
                 connVars, sendVars, writer, runVars>>

\* readPump ends on any read error: `s.unregister <- c` (which blocks while the
\* channel is full), then the connection is closed.
ReadPumpExit(c) ==
  /\ reader[c] = "on"
  /\ Len(unregister) < UnregisterBuffer
  /\ unregister' = Append(unregister, c)
  /\ reader' = [reader EXCEPT ![c] = "gone"]
  /\ connOpen' = [connOpen EXCEPT ![c] = FALSE]
  /\ UNCHANGED <<registry, register, broadcast, roomLog, stickySessions, connVars,
                 sendVars, writer, runVars>>

CloseWriter(c) ==
  /\ writer' = [writer EXCEPT ![c] = "gone"]
  /\ connOpen' = [connOpen EXCEPT ![c] = FALSE]

\* writePump takes the next queued event and writes it.
WritePumpMessage(c) ==
  /\ writer[c] = "on" /\ connOpen[c]
  /\ taken[c] < Len(queued[c])
  /\ taken' = [taken EXCEPT ![c] = @ + 1]
  /\ UNCHANGED <<registry, register, unregister, broadcast, roomLog, stickySessions,
                 connVars, queued, closed, pumpVars, runVars>>

\* Mutant: `ok` of the receive is ignored, the pump spins on the closed channel.
WritePumpClosedIgnored(c) ==
  /\ writer[c] = "on"
  /\ closed[c] /\ taken[c] = Len(queued[c])
  /\ UNCHANGED vars

\* A closed and drained channel: send a close frame and close the connection.
WritePumpClosed(c) ==
  /\ writer[c] = "on"
  /\ closed[c] /\ taken[c] = Len(queued[c])
  /\ CloseWriter(c)
  /\ UNCHANGED <<registry, register, unregister, broadcast, roomLog, stickySessions,
                 connVars, sendVars, reader, runVars>>

\* A write error loses the event just taken, a ping error loses none.
WritePumpFail(c) ==
  /\ writer[c] = "on"
  /\ \/ UNCHANGED taken
     \/ /\ taken[c] < Len(queued[c])
        /\ taken' = [taken EXCEPT ![c] = @ + 1]
  /\ CloseWriter(c)
  /\ UNCHANGED <<registry, register, unregister, broadcast, roomLog, stickySessions,
                 connVars, queued, closed, reader, runVars>>

-----------------------------------------------------------------------------
(* Run: one goroutine that takes from whichever channel is ready.          *)

AtSelect == current = Idle

\* case client := <-s.register: addClient.
RunRegister ==
  /\ AtSelect /\ register # <<>>
  /\ LET c == Head(register) IN
       /\ clients' = clients \cup {c}
       /\ rooms' = [rooms EXCEPT ![room[c]] = @ \cup {c}]
  /\ register' = Tail(register)
  /\ UNCHANGED <<unregister, broadcast, roomLog, stickySessions, connVars, sendVars,
                 pumpVars, runVars>>

\* Mutant: the client is left in its room's fan-out set.
RemoveClientKeepsRoom(c) ==
  IF c \in clients
  THEN /\ clients' = clients \ {c}
       /\ closed' = [closed EXCEPT ![c] = TRUE]
       /\ runPanicked' = closed[c]
       /\ UNCHANGED rooms
  ELSE UNCHANGED <<registry, closed, runPanicked>>

\* Mutant: `delete(s.clients, c.id)` is missing.
RemoveClientKeepsID(c) ==
  IF c \in clients
  THEN /\ rooms' = [rooms EXCEPT ![room[c]] = @ \ {c}]
       /\ closed' = [closed EXCEPT ![c] = TRUE]
       /\ runPanicked' = closed[c]
       /\ UNCHANGED clients
  ELSE UNCHANGED <<registry, closed, runPanicked>>

\* removeClient: nothing for an unknown id; otherwise drop it from both maps and
\* close its channel. Closing a closed channel would panic.
RemoveClient(c) ==
  IF c \in clients
  THEN /\ clients' = clients \ {c}
       /\ rooms' = [rooms EXCEPT ![room[c]] = @ \ {c}]
       /\ closed' = [closed EXCEPT ![c] = TRUE]
       /\ runPanicked' = closed[c]
  ELSE UNCHANGED <<registry, closed, runPanicked>>

\* case client := <-s.unregister: removeClient.
RunUnregister ==
  /\ AtSelect /\ unregister # <<>>
  /\ RemoveClient(Head(unregister))
  /\ unregister' = Tail(unregister)
  /\ UNCHANGED <<register, broadcast, roomLog, stickySessions, connVars, queued, taken,
                 pumpVars, current, targets, published>>

\* Mutant: the trim keeps the oldest versions.
FirstRetained(s) ==
  SubSeq(s, 1, IF Len(s) > ReplayBufferPerRoom THEN ReplayBufferPerRoom ELSE Len(s))

\* recordRoomEvent keeps the last ReplayBufferPerRoom versions.
LastRetained(s) ==
  SubSeq(s, IF Len(s) > ReplayBufferPerRoom THEN Len(s) - ReplayBufferPerRoom + 1 ELSE 1,
         Len(s))

\* Mutant: a message for a room nobody is in is dropped before it is recorded.
RunBroadcastSkipsEmpty ==
  /\ AtSelect /\ broadcast # <<>>
  /\ broadcast' = Tail(broadcast)
  /\ LET r == Head(broadcast)
         v == roomVersions[r] + 1
     IN  IF rooms[r] = {} THEN UNCHANGED <<roomLog, current, targets>>
         ELSE /\ roomVersions' = [roomVersions EXCEPT ![r] = v]
              /\ roomHistory' = [roomHistory EXCEPT ![r] = LastRetained(Append(@, v))]
              /\ current' = [room |-> r, version |-> v]
              /\ targets' = rooms[r]
  /\ UNCHANGED <<registry, register, unregister, stickySessions, connVars, sendVars,
                 pumpVars, published, runPanicked>>

\* Mutant: the message is fanned out to every client of the node.
RunBroadcastToAll ==
  /\ AtSelect /\ broadcast # <<>>
  /\ LET r == Head(broadcast)
         v == roomVersions[r] + 1
     IN  /\ roomVersions' = [roomVersions EXCEPT ![r] = v]
         /\ roomHistory' = [roomHistory EXCEPT ![r] = LastRetained(Append(@, v))]
         /\ current' = [room |-> r, version |-> v]
         /\ targets' = clients
  /\ broadcast' = Tail(broadcast)
  /\ UNCHANGED <<registry, register, unregister, stickySessions, connVars, sendVars,
                 pumpVars, published, runPanicked>>

\* case msg := <-s.broadcast: recordRoomEvent, then the snapshot of the targets.
RunBroadcast ==
  /\ AtSelect /\ broadcast # <<>>
  /\ LET r == Head(broadcast)
         v == roomVersions[r] + 1
     IN  /\ roomVersions' = [roomVersions EXCEPT ![r] = v]
         /\ roomHistory' = [roomHistory EXCEPT ![r] = LastRetained(Append(@, v))]
         /\ current' = [room |-> r, version |-> v]
         /\ targets' = rooms[r]
  /\ broadcast' = Tail(broadcast)
  /\ UNCHANGED <<registry, register, unregister, stickySessions, connVars, sendVars,
                 pumpVars, published, runPanicked>>

\* Mutant: a full queue drops the message and nothing else.
NeverEvict(c) == unregister' = unregister

\* `select { case s.unregister <- c: default: }`: an eviction that finds the
\* channel full is forgotten.
EvictSlow(c) ==
  unregister' = IF Len(unregister) < UnregisterBuffer THEN Append(unregister, c)
                ELSE unregister

\* One target of broadcastToRoom: a non-blocking send, or the eviction of a client
\* whose queue is full. A send on a closed channel would panic.
RunFanout(c) ==
  /\ c \in targets
  /\ targets' = targets \ {c}
  /\ \/ closed[c] /\ runPanicked' = TRUE /\ UNCHANGED <<queued, unregister>>
     \/ ~closed[c] /\ SendHasRoom(c) /\ Enqueue(c, current)
        /\ UNCHANGED <<unregister, runPanicked>>
     \/ ~closed[c] /\ ~SendHasRoom(c) /\ EvictSlow(c)
        /\ UNCHANGED <<queued, runPanicked>>
  /\ UNCHANGED <<registry, register, broadcast, roomLog, stickySessions, connVars,
                 taken, closed, pumpVars, current, published>>

\* PublishToBus: its error is ignored.
RunPublish ==
  /\ current # Idle /\ targets = {}
  /\ \E outcome \in BusOutcomes :
       published' = IF outcome = "ok" THEN published \cup {current} ELSE published
  /\ current' = Idle
  /\ UNCHANGED <<registry, register, unregister, broadcast, roomLog, stickySessions,
                 connVars, sendVars, pumpVars, targets, runPanicked>>

-----------------------------------------------------------------------------
Handler(c) ==
  \/ \E s \in Sessions, r \in Rooms, k \in 0..MaxVersion : Accept(c, s, r, k)
  \/ Register(c)
  \/ FetchReplay(c)
  \/ EnqueueReplay(c)

Pumps(c) ==
  \/ ReadPumpMessage(c)
  \/ ReadPumpExit(c)
  \/ WritePumpMessage(c)
  \/ WritePumpClosed(c)
  \/ WritePumpFail(c)

Run ==
  \/ RunRegister
  \/ RunUnregister
  \/ RunBroadcast
  \/ \E c \in ClientIDs : RunFanout(c)
  \/ RunPublish

\* A panic of Run would end the process: RunNeverPanics shows that none happens, so
\* what the other goroutines could do after one is of no account.
Next ==
  \/ \E c \in ClientIDs : Handler(c) \/ Pumps(c)
  \/ \E r \in Rooms : HandleAIEvent(r)
  \/ Run

Spec == Init /\ [][Next]_vars
(***************************************************************************)
(* Fairness. Go runs every runnable goroutine, so an operation that stays  *)
(* possible happens (WF). `select` picks at random among the ready cases   *)
(* and blocked senders are served in order, so a case or a send that is    *)
(* possible again and again happens (SF). Nothing makes a peer send, stay, *)
(* or leave: ReadPumpMessage, HandleAIEvent, Accept and failures of an     *)
(* open connection are not fair; an operation on a closed one does fail.   *)
(***************************************************************************)
FairSpec ==
  /\ Spec
  /\ SF_vars(RunRegister) /\ SF_vars(RunUnregister) /\ SF_vars(RunBroadcast)
  /\ WF_vars(RunPublish)
  /\ \A c \in ClientIDs :
       /\ WF_vars(RunFanout(c))
       /\ SF_vars(Register(c))
       /\ WF_vars(FetchReplay(c)) /\ WF_vars(EnqueueReplay(c))
       /\ SF_vars(ReadPumpExit(c) /\ ~connOpen[c])
       /\ WF_vars(WritePumpMessage(c)) /\ WF_vars(WritePumpClosed(c))
       /\ WF_vars(WritePumpFail(c) /\ ~connOpen[c])

-----------------------------------------------------------------------------
(* Safety.                                                                 *)

\* The replay buffer of a room is always the newest versions of its log, without
\* a hole and in order, and never more than the configured number of them
\* (recordRoomEvent).
HistoryIsLogSuffix ==
  \A r \in Rooms :
    /\ Len(roomHistory[r]) =
         IF roomVersions[r] < ReplayBufferPerRoom THEN roomVersions[r] ELSE ReplayBufferPerRoom
    /\ \A i \in DOMAIN roomHistory[r] :
         roomHistory[r][i] = roomVersions[r] - Len(roomHistory[r]) + i

\* The two registries agree: a room fans out to exactly the registered clients
\* that connected to it (addClient and removeClient update both under one lock).
RegistryConsistent ==
  \A r \in Rooms : rooms[r] = {c \in clients : room[c] = r}

\* Run never sends on a closed channel and never closes one twice, whatever the
\* order in which registrations, evictions and disconnects reach it. Either would
\* stop the process.
RunNeverPanics == ~runPanicked

\* What a client is sent is an event of its own room that has been recorded, and a
\* resumed client is never sent a version it said it knows.
FeedIsOwnRoomsNews ==
  \A c \in ClientIDs : \A e \in Elems(queued[c]) :
    /\ e.room = room[c]
    /\ resumeFrom[c] < e.version /\ e.version <= roomVersions[e.room]

\* A connection that does not resume sees strictly increasing versions: no event
\* twice and none out of order, however the goroutines interleave.
LiveOrder ==
  \A c \in ClientIDs : resumeFrom[c] = 0 =>
    \A i, j \in DOMAIN queued[c] : i < j => queued[c][i].version < queued[c][j].version

\* Some event recorded since the client's first one was dropped for it.
LostEvent(c) ==
  /\ queued[c] # <<>>
  /\ c \notin targets
  /\ Len(queued[c]) < roomVersions[room[c]] - queued[c][1].version + 1

\* A live client that lost an event to backpressure is on its way out: its eviction
\* is waiting in the unregister channel (broadcastToRoom). It holds as long as that
\* channel has room for one entry per lost event and disconnect.
LossLeadsToEviction ==
  \A c \in clients : (resumeFrom[c] = 0 /\ LostEvent(c)) => c \in Elems(unregister)

\* The shard of a connection's sticky contract is the one its reconnect plan computes
\* from the room, also when a session moves between rooms (AssignStickySession against
\* PlanReconnect): all clients of a room are on one shard.
RoomOnOneShard ==
  \A c \in ClientIDs : room[c] # NoRoom => shard[c] = ShardOf[room[c]]

\* While the bus answers, the room-events stream has every event fanned out so far,
\* those of rooms nobody is connected to included; when it fails the stream only
\* misses events, it never has one that was not recorded (PublishToBus).
Recorded == UNION {[room : {r}, version : 1..roomVersions[r]] : r \in Rooms}
BusMatchesLog ==
  /\ published \subseteq Recorded \ {current}
  /\ BusOutcomes = {"ok"} => published = Recorded \ {current}

\* The registries are right and the process lives: types, one room and one shard for
\* every connection, and no send on a closed channel, whatever Run serves first.
NodeIsSound == TypeOK /\ RegistryConsistent /\ RoomOnOneShard /\ RunNeverPanics

\* The replay buffers and the bus are two records of the same log, and both are exact.
LogsAgree == HistoryIsLogSuffix /\ BusMatchesLog

\* A client's feed has events of its own room only, none it knows and, unless it
\* resumes, in order and each of them once.
FeedsAreOrdered == FeedIsOwnRoomsNews /\ LiveOrder

\* Removal is final: a closed send channel stays closed, is never queued on again,
\* and its client is not registered again (removeClient, and the order in which
\* register and unregister are served).
RemovalIsFinal ==
  [][\A c \in ClientIDs : closed[c] =>
       closed'[c] /\ queued'[c] = queued[c] /\ c \notin clients']_vars

-----------------------------------------------------------------------------
(* Refinement.                                                             *)

\* The audience of RoomFeed: registered clients listen, removed ones have left.
Audience ==
  [c \in ClientIDs |-> IF closed[c] THEN "left"
                       ELSE IF c \in clients THEN "listening" ELSE "waiting"]

Promise == INSTANCE RoomFeed
             WITH log <- roomVersions, home <- room, audience <- Audience, feed <- queued

\* The node implements RoomFeed: logs only grow by one event at a time, a client
\* belongs to one room and enters and leaves its audience once, and whatever the
\* interleaving of handler, pumps and Run it is only fed recorded events of its
\* own room, and nothing after it left.
ImplementsRoomFeed == Promise!FeedSpec

-----------------------------------------------------------------------------
(* A claim of the repository's documents that the code does not keep.      *)

\* "server replays missing deltas": once a resumed client is registered, its replay
\* is over and Run is idle, it has been sent every version since the last it knew.
ReplayMissesNothing ==
  \A c \in clients :
    (resumeFrom[c] > 0 /\ handler[c] = "done" /\ AtSelect /\ c \notin Elems(unregister)) =>
      \A v \in resumeFrom[c] + 1 .. roomVersions[room[c]] :
        [room |-> room[c], version |-> v] \in Elems(queued[c])

-----------------------------------------------------------------------------
(* Liveness, under FairSpec.                                               *)

\* Every message the node accepted is recorded and fanned out, whatever clients do.
EveryMessageRecorded ==
  \A r \in Rooms, n \in 1..MaxVersion : (Accepted(r) >= n) ~> (roomVersions[r] >= n)

\* An eviction that reached the channel removes its client.
EvictionCompletes ==
  \A c \in ClientIDs : (c \in clients /\ c \in Elems(unregister)) ~> (c \notin clients)

\* A registered client whose connection ends while its read pump runs is removed.
GoneClientIsRemoved ==
  \A c \in ClientIDs :
    (c \in clients /\ reader[c] = "on" /\ ~connOpen[c]) ~> (c \notin clients)

\* Leavers are removed, those the node evicts and those that leave by themselves.
LeaversAreRemoved == EvictionCompletes /\ GoneClientIsRemoved

\* A removed client whose pumps were started is disconnected, after the events still
\* queued for it were written or lost to an error.
RemovedClientIsDisconnected ==
  \A c \in ClientIDs : (closed[c] /\ handler[c] = "done") ~> ~connOpen[c]
=============================================================================
