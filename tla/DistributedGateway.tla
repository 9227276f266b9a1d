------------------------- MODULE DistributedGateway -------------------------
(***************************************************************************)
(* Gateway nodes of api_gateway/distributed_gateway.py over one control     *)
(* plane and one event bus: admission, sessions, room subscriptions, and the*)
(* broadcast of an event to the queues of the room's sessions on every node.*)
(*                                                                          *)
(* Time is counted in ticks, Token of which earn one token of the           *)
(* gatekeeper; its bucket is counted in ticks, too. Nothing in the code     *)
(* refreshes last_heartbeat: a session ends when more than Timeout has      *)
(* passed since it began, whatever its client does.                         *)
(***************************************************************************)
EXTENDS Integers, Sequences, FiniteSets, VectorClock, BackpressureQueue

CONSTANTS
  Nodes,       \* gateway nodes
  Users,
  Rooms,
  Entrances,   \* who connects where: set of <<node, user, room>>
  Casts,       \* the calls of broadcast_to_room, in the order in which they begin:
               \* sequence of [node, room, priority]
  MaxConns,    \* max_connections of a node
  Rate,        \* max_conn_rate, which is also the bucket's size in tokens
  Token,       \* ticks it takes to earn a token
  Timeout,     \* the 30 seconds of the zombie check
  QueueMax,    \* max_items of a session's queue
  MaxSessions, \* bound: how many connections are admitted
  MaxTime      \* bound: how far the clock runs

ASSUME GatewayAssumption ==
  /\ MaxConns \in Nat /\ Rate \in Nat /\ Token \in Nat \ {0} /\ Timeout \in Nat /\ QueueMax \in Nat \ {0}
  /\ MaxSessions \in Nat /\ MaxTime \in Nat
  /\ Entrances \subseteq Nodes \X Users \X Rooms
  /\ Casts \in Seq([node : Nodes, room : Rooms, priority : Priorities])

VARIABLES
  now,       \* time.time()
  gate,      \* node -> its gatekeeper: conns, tokens, refilled
  active,    \* node -> user -> the session _active_connections names, or 0
  rooms,     \* node -> _room_subscriptions
  sessions,  \* every session ever admitted, in order
  handlers,  \* room -> the nodes whose _on_room_event is subscribed, in order
  versions,  \* room -> version in the control plane
  casts,     \* the broadcasts begun so far: node, room, priority, version, clock
  log,       \* the broadcasts published so far, in order
  pending    \* node -> those its handler has still to run for, in order

busVars == <<handlers, versions, casts, log>>
vars == <<now, gate, active, rooms, sessions, busVars, pending>>

\* A session is in its subscribe call, runs, was lost with a failing subscribe call, or
\* has ended. It keeps what waits in its queue and what was sent, how many messages its
\* queue dropped, and what had been published when it began to run.
Phases == {"subscribing", "live", "lost", "ended"}
Held == {"subscribing", "live", "lost"}

Received(s) == sessions[s].sent \o sessions[s].queue
Elements(seq) == {seq[i] : i \in DOMAIN seq}

TypeOK ==
  /\ now \in 0..MaxTime
  /\ \A n \in Nodes :
       /\ gate[n].conns \in 0..MaxConns /\ gate[n].tokens \in 0..(Rate * Token)
       /\ gate[n].refilled \in 0..now
       /\ active[n] \in [Users -> 0..Len(sessions)]
       /\ rooms[n] \subseteq Rooms /\ Elements(pending[n]) \subseteq DOMAIN casts
  /\ \A s \in DOMAIN sessions :
       sessions[s].phase \in Phases /\ Len(sessions[s].queue) <= QueueMax
  /\ versions \in [Rooms -> 0..Len(Casts)]
  /\ Elements(log) \subseteq DOMAIN casts

Init ==
  /\ now = 0
  /\ gate = [n \in Nodes |-> [conns |-> 0, tokens |-> Rate * Token, refilled |-> 0]]
  /\ active = [n \in Nodes |-> [u \in Users |-> 0]]
  /\ rooms = [n \in Nodes |-> {}]
  /\ sessions = <<>>
  /\ handlers = [r \in Rooms |-> <<>>]
  /\ versions = [r \in Rooms |-> 0]
  /\ casts = <<>> /\ log = <<>>
  /\ pending = [n \in Nodes |-> <<>>]

-----------------------------------------------------------------------------
(* Sessions                                                                  *)

Least2(a, b) == IF a < b THEN a ELSE b

\* Slip: the time of the last refill stays where it was.
RefilledAgain(g) == [g EXCEPT !.tokens = Least2(Rate * Token, @ + now - g.refilled)]

\* try_admit: the bucket is refilled for the time since it was last looked at.
Refilled(g) == [g EXCEPT !.tokens = Least2(Rate * Token, @ + now - g.refilled), !.refilled = now]

NewSession(node, user, room, phase) ==
  [node |-> node, user |-> user, room |-> room, phase |-> phase, since |-> now,
   queue |-> <<>>, sent |-> <<>>, dropped |-> 0, start |-> Len(log)]

HasRoom(node) == gate[node].conns < MaxConns

\* A connection is admitted and registered. Where the room is not subscribed yet, the
\* session first waits for the bus.
Connect(node, user, room) ==
  LET g == Refilled(gate[node])
  IN /\ Len(sessions) < MaxSessions
     /\ HasRoom(node) /\ g.tokens >= Token
     /\ gate' = [gate EXCEPT ![node] = [g EXCEPT !.tokens = @ - Token, !.conns = @ + 1]]
     /\ sessions' = Append(sessions, NewSession(node, user, room,
                       IF room \in rooms[node] THEN "live" ELSE "subscribing"))
     /\ active' = [active EXCEPT ![node][user] = Len(sessions) + 1]
     /\ UNCHANGED <<now, rooms, busVars, pending>>

\* No token: the connection is refused, the refill stays.
Refuse(node) ==
  LET g == Refilled(gate[node])
  IN /\ HasRoom(node) /\ g.tokens < Token /\ g # gate[node]
     /\ gate' = [gate EXCEPT ![node] = g]
     /\ UNCHANGED <<now, active, rooms, sessions, busVars, pending>>

\* Slip: a bus that keeps two subscriptions of the same handler apart.
AddedTwice(seq, node) == Append(seq, node)

\* The bus keeps the handlers of a topic in a set: subscribing twice adds one.
Added(seq, node) == IF node \in Elements(seq) THEN seq ELSE Append(seq, node)

\* The subscribe call of a session is answered and the session begins to run. Two
\* sessions of a new room may both be here.
Subscribed(s) ==
  LET node == sessions[s].node  room == sessions[s].room
  IN /\ sessions[s].phase = "subscribing"
     /\ handlers' = [handlers EXCEPT ![room] = Added(@, node)]
     /\ rooms' = [rooms EXCEPT ![node] = @ \cup {room}]
     /\ sessions' = [sessions EXCEPT ![s].phase = "live", ![s].start = Len(log)]
     /\ UNCHANGED <<now, gate, active, versions, casts, log, pending>>

\* Slip: the room counts as subscribed whether the bus accepted it or not.
SubscribeFailsUnnoticed(s) ==
  /\ sessions[s].phase = "subscribing"
  /\ sessions' = [sessions EXCEPT ![s].phase = "live", ![s].start = Len(log)]
  /\ rooms' = [rooms EXCEPT ![sessions[s].node] = @ \cup {sessions[s].room}]
  /\ UNCHANGED <<now, gate, active, busVars, pending>>

\* The call fails, or the connection is cancelled in it: the exception leaves
\* handle_connection before its try statement, so neither the registration nor the slot
\* of the gatekeeper is taken back.
SubscribeFails(s) ==
  /\ sessions[s].phase = "subscribing"
  /\ sessions' = [sessions EXCEPT ![s].phase = "lost"]
  /\ UNCHANGED <<now, gate, active, rooms, busVars, pending>>

\* The loop takes the queue empty before it suspends: nothing in it awaits the client.
SendQueue(s) ==
  /\ sessions[s].phase = "live" /\ now - sessions[s].since <= Timeout
  /\ sessions[s].queue # <<>>
  /\ sessions' = [sessions EXCEPT ![s].sent = Received(s), ![s].queue = <<>>]
  /\ UNCHANGED <<now, gate, active, rooms, busVars, pending>>

\* The finally clause: whatever session is registered for the user is removed.
End(s) ==
  LET node == sessions[s].node  user == sessions[s].user
  IN /\ sessions' = [sessions EXCEPT ![s].phase = "ended"]
     /\ active' = [active EXCEPT ![node][user] = 0]
     /\ gate' = [gate EXCEPT ![node].conns = IF @ = 0 THEN 0 ELSE @ - 1]
     /\ UNCHANGED <<now, rooms, busVars, pending>>

\* The session is taken for a zombie, or its task is cancelled while it sleeps.
Expire(s) == sessions[s].phase = "live" /\ now - sessions[s].since > Timeout /\ End(s)
Disconnect(s) == sessions[s].phase = "live" /\ sessions[s].queue = <<>> /\ End(s)

-----------------------------------------------------------------------------
(* Broadcasts                                                                *)

\* increment_room_version is answered: the event has its version and a clock that names
\* the node alone.
TakeVersion ==
  /\ Len(casts) < Len(Casts)
  /\ LET call == Casts[Len(casts) + 1]
         version == versions[call.room] + 1
         clock == [n \in {call.node} |-> version]
     IN /\ versions' = [versions EXCEPT ![call.room] = version]
        /\ casts' = Append(casts, [node |-> call.node, room |-> call.room, clock |-> clock,
                                   version |-> version, priority |-> call.priority])
  /\ UNCHANGED <<now, gate, active, rooms, sessions, handlers, log, pending>>

\* publish: every subscribed handler gets a task. Broadcasts that have their versions
\* come here in any order.
Publish(c) ==
  LET copies(n) == Cardinality({i \in DOMAIN handlers[casts[c].room] :
                                  handlers[casts[c].room][i] = n})
  IN /\ c \notin Elements(log)
     /\ log' = Append(log, c)
     /\ pending' = [n \in Nodes |-> pending[n] \o [i \in 1..copies(n) |-> c]]
     /\ UNCHANGED <<now, gate, active, rooms, sessions, handlers, versions, casts>>

IsFor(s, node, room) ==
  /\ sessions[s].node = node /\ sessions[s].room = room
  /\ active[node][sessions[s].user] = s

\* _on_room_event: the event goes to the queue of every registered session of the room,
\* those included whose handle_connection is gone or has not begun to run.
Deliver(node) ==
  /\ pending[node] # <<>>
  /\ LET c == Head(pending[node])
         message == [cast |-> c, priority |-> casts[c].priority]
     IN sessions' = [s \in DOMAIN sessions |->
          IF IsFor(s, node, casts[c].room)
          THEN [sessions[s] EXCEPT
                  !.queue = PushDeque(@, message, QueueMax),
                  !.dropped = @ + (IF Len(sessions[s].queue) = QueueMax THEN 1 ELSE 0)]
          ELSE sessions[s]]
  /\ pending' = [pending EXCEPT ![node] = Tail(@)]
  /\ UNCHANGED <<now, gate, active, rooms, busVars>>

Tick ==
  /\ now < MaxTime
  /\ now' = now + 1
  /\ UNCHANGED <<gate, active, rooms, sessions, busVars, pending>>

Next ==
  \/ \E e \in Entrances : Connect(e[1], e[2], e[3])
  \/ \E n \in Nodes : Refuse(n) \/ Deliver(n)
  \/ \E s \in DOMAIN sessions :
       Subscribed(s) \/ SubscribeFails(s) \/ SendQueue(s) \/ Expire(s) \/ Disconnect(s)
  \/ \E c \in DOMAIN casts : Publish(c)
  \/ TakeVersion \/ Tick

Spec == Init /\ [][Next]_vars

-----------------------------------------------------------------------------
(* Properties                                                                *)

\* A node counts one connection for every session that is subscribing, running or lost
\* with its subscribe call, two sessions of one user included: no slot is given back
\* twice and none is kept by a session that ran (handle_connection, release).
SlotsAccounted ==
  \A n \in Nodes :
    gate[n].conns = Cardinality({s \in DOMAIN sessions :
                                   sessions[s].node = n /\ sessions[s].phase \in Held})

\* A node admits no more than its burst and what time has earned since it started,
\* however refusals and refills fall together (try_admit).
RateIsKept ==
  \A n \in Nodes :
    Token * Cardinality({s \in DOMAIN sessions : sessions[s].node = n}) + gate[n].tokens
      <= Token * Rate + gate[n].refilled

\* What a session gets are events of its room, each once and in the order in which the bus
\* published them, whatever its queue had to drop in between and however many sessions
\* subscribed the room at once (_ensure_room_subscription, _fanout_event).
PublishedBefore(c, d) ==
  \E i, j \in DOMAIN log : i < j /\ log[i] = c /\ log[j] = d
RoomOrderKept ==
  \A s \in DOMAIN sessions : \A i, j \in DOMAIN Received(s) :
    /\ casts[Received(s)[i].cast].room = sessions[s].room
    /\ i < j => PublishedBefore(Received(s)[i].cast, Received(s)[j].cast)

\* A running session whose user has no other session on the node gets every event its
\* room publishes from then on: it is sent, queued, on its way, or one of those its
\* queue dropped (_room_subscriptions says the truth about the bus).
Alone(s) == \A t \in DOMAIN sessions \ {s} :
  sessions[t].node # sessions[s].node \/ sessions[t].user # sessions[s].user
RoomReachesSession ==
  \A s \in DOMAIN sessions :
    sessions[s].phase = "live" /\ Alone(s)
    => LET due == {log[i] : i \in {j \in DOMAIN log :
                     j > sessions[s].start /\ casts[log[j]].room = sessions[s].room}}
           got == {Received(s)[i].cast : i \in DOMAIN Received(s)}
       IN Cardinality(due \ (got \cup Elements(pending[sessions[s].node])))
            <= sessions[s].dropped

\* A queue loses a state message only when it holds nothing else (_trim_if_needed).
StateOutlivesTheRest ==
  [][\A s \in DOMAIN sessions :
       (\E i \in DOMAIN Received(s) :
          /\ Received(s)[i].priority = "state"
          /\ Received(s)[i] \notin Elements(Received(s)'))
       => \A i \in DOMAIN sessions'[s].queue : sessions'[s].queue[i].priority = "state"]_vars

\* The deque of this gateway and the list of ws_scaling.py keep the same messages in
\* the same order, from every queue a session can have.
TwinsAgree ==
  \A s \in DOMAIN sessions : \A p \in Priorities :
    LET message == [cast |-> 0, priority |-> p]
    IN PushDeque(sessions[s].queue, message, QueueMax)
         = PushList(sessions[s].queue, message, QueueMax)

\* The clocks of two broadcasts of one room are ordered as their versions are when they
\* come from one node, and concurrent when they do not: no order is claimed that the
\* room's versions contradict (broadcast_to_room, VectorClock.compare).
ClocksFollowVersions ==
  \A c, d \in DOMAIN casts :
    c # d /\ casts[c].room = casts[d].room
    => Compare(casts[c].clock, casts[d].clock)
         = IF casts[c].node # casts[d].node THEN Concurrent
           ELSE IF casts[c].version < casts[d].version THEN -1 ELSE 1

\* The gatekeeper counts right: a slot for every session and no admission over the rate.
GatekeeperAccounts == SlotsAccounted /\ RateIsKept

\* The queues of the sessions hold what both copies of the algorithm would.
QueuesAreSound == TypeOK /\ TwinsAgree

=============================================================================
