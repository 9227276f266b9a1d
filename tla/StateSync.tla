----------------------------- MODULE StateSync ------------------------------
(***************************************************************************)
(* A state-sync room of the API gateway (api_gateway/main.py): the handlers *)
(* of its WebSockets share one state, a list of clients and a lock. A patch *)
(* is applied and sent to every client under the lock; the sends are        *)
(* gathered, and the first that fails ends the wait and raises in the       *)
(* handler of the client that made the patch. The sends already begun go on.*)
(* A patch that is no mapping raises as it is applied, after a part of it   *)
(* changed the state, and is sent to nobody.                                *)
(*                                                                          *)
(* Messages of one socket arrive in the order in which their sends began.   *)
(* Which exception a send to a lost socket raises is up to the server:      *)
(* WebSocketDisconnect, which the handler catches, or another one.          *)
(***************************************************************************)
EXTENDS Integers, Sequences

CONSTANTS
  Clients,   \* WebSocket connections to the room
  Keys,      \* keys of the room's shared and user state
  Patches    \* client -> the keys each of its patches sets, in order

NoOne == "no one"

ASSUME StateSyncAssumption == Patches \in [Clients -> Seq(SUBSET Keys)] /\ NoOne \notin Clients

VARIABLES
  shared,    \* the room's state: key -> number of the patch that set it, 0 if none did
  applied,   \* how many patches were applied, the whole of them or a part
  told,      \* history: the number of the last patch that was sent to the room
  clients,   \* room.clients
  lock,      \* the handler that holds room.lock, or NoOne
  waiters,   \* the handlers that wait for it, first come first served
  phase,     \* client -> where its handler is
  made,      \* client -> how many of its patches were received
  socket,    \* client -> "open", or "closed" once either side is gone
  sends,     \* client -> sends to it under way: what is sent, and for which patch
  seen       \* client -> the last state it received, or Nothing

vars == <<shared, applied, told, clients, lock, waiters, phase, made, socket, sends, seen>>

Nothing == [k \in Keys |-> -1]

\* "crashed": an exception other than WebSocketDisconnect left the handler.
Phases == {"out", "joining", "snapshot", "ready", "patching", "sending", "leaving",
           "gone", "crashed"}

Elements(seq) == {seq[i] : i \in DOMAIN seq}

\* list.remove, where there is something to remove.
Without(seq, c) ==
  LET at == CHOOSE i \in DOMAIN seq : seq[i] = c
  IN IF c \in Elements(seq) THEN SubSeq(seq, 1, at - 1) \o SubSeq(seq, at + 1, Len(seq)) ELSE seq

TypeOK ==
  /\ shared \in [Keys -> 0..applied] /\ told \in 0..applied
  /\ Elements(clients) \subseteq Clients
  /\ \A i, j \in DOMAIN clients : clients[i] = clients[j] => i = j
  /\ lock \in Clients \cup {NoOne}
  /\ Elements(waiters) = {c \in Clients : phase[c] \in {"joining", "patching", "leaving"}}
  /\ phase \in [Clients -> Phases]
  /\ \A c \in Clients : lock = c <=> phase[c] = "sending"
  /\ socket \in [Clients -> {"open", "closed"}]

Init ==
  /\ shared = [k \in Keys |-> 0] /\ applied = 0 /\ told = 0
  /\ clients = <<>> /\ lock = NoOne /\ waiters = <<>>
  /\ phase = [c \in Clients |-> "out"] /\ made = [c \in Clients |-> 0]
  /\ socket = [c \in Clients |-> "open"]
  /\ sends = [c \in Clients |-> <<>>]
  /\ seen = [c \in Clients |-> Nothing]

-----------------------------------------------------------------------------
(* Coming to the lock                                                        *)

Wait(c, for) ==
  /\ phase' = [phase EXCEPT ![c] = for]
  /\ waiters' = Append(waiters, c)

HasLock(c) == lock = NoOne /\ waiters # <<>> /\ Head(waiters) = c

\* The socket is accepted.
Connect(c) ==
  /\ phase[c] = "out"
  /\ Wait(c, "joining")
  /\ UNCHANGED <<shared, applied, told, clients, lock, made, socket, sends, seen>>

\* An exception the handler does not catch: it ends, and its client stays in the list.
Crash(c) ==
  /\ phase' = [phase EXCEPT ![c] = "crashed"]
  /\ socket' = [socket EXCEPT ![c] = "closed"]

\* receive_json: a patch, or nothing more as the socket is closed. A message of another
\* type is passed over.
Receive(c) ==
  /\ phase[c] = "ready"
  /\ \/ /\ made[c] < Len(Patches[c])
        /\ made' = [made EXCEPT ![c] = @ + 1]
        /\ Wait(c, "patching")
     \/ socket[c] = "closed" /\ Wait(c, "leaving") /\ UNCHANGED made
  /\ UNCHANGED <<shared, applied, told, clients, lock, socket, sends, seen>>

\* receive_json raises for what is no JSON, and payload.get for what is no object.
Unreadable(c) ==
  /\ phase[c] = "ready" /\ Crash(c)
  /\ UNCHANGED <<shared, applied, told, clients, lock, waiters, made, sends, seen>>

-----------------------------------------------------------------------------
(* With the lock                                                             *)

Send(what, for) == [state |-> what, patch |-> for]

\* The client is in the list; its handler goes on without the lock, and without a
\* pause, to send it the state.
Enter(c) ==
  /\ phase[c] = "joining" /\ HasLock(c)
  /\ clients' = Append(clients, c) /\ waiters' = Tail(waiters)
  /\ phase' = [phase EXCEPT ![c] = "snapshot"]
  /\ sends' = [sends EXCEPT ![c] = Append(@, Send(shared, 0))]
  /\ UNCHANGED <<shared, applied, told, lock, made, socket, seen>>

Audience(c) == Elements(clients)

\* Slip: the delta becomes the state.
Replaced(keys, patch) == [k \in Keys |-> IF k \in keys THEN patch ELSE 0]

\* dict.update: the keys of the delta are set, the others stay.
Updated(keys, patch) == [k \in Keys |-> IF k \in keys THEN patch ELSE shared[k]]

\* apply_delta, and a send to every client begun at once.
Patch(c) ==
  /\ phase[c] = "patching" /\ HasLock(c)
  /\ applied' = applied + 1 /\ told' = applied + 1
  /\ shared' = Updated(Patches[c][made[c]], applied + 1)
  /\ sends' = [x \in Clients |-> IF x \in Audience(c)
                                 THEN Append(sends[x], Send(shared', applied + 1))
                                 ELSE sends[x]]
  /\ lock' = c /\ waiters' = Tail(waiters)
  /\ phase' = [phase EXCEPT ![c] = "sending"]
  /\ UNCHANGED <<clients, made, socket, seen>>

\* apply_delta raises for a delta or a user_delta that is no mapping: none of it, a part
\* of it or the whole delta changed the state, nothing is sent, and the lock is released
\* on the way out of the handler.
PatchRaises(c) ==
  /\ phase[c] = "patching" /\ HasLock(c)
  /\ applied' = applied + 1
  /\ \E part \in SUBSET Patches[c][made[c]] : shared' = Updated(part, applied + 1)
  /\ waiters' = Tail(waiters) /\ Crash(c)
  /\ UNCHANGED <<told, clients, lock, made, sends, seen>>

\* Every send of the patch arrived.
GatherReturns(c) ==
  /\ phase[c] = "sending"
  /\ \A x \in Clients : \A i \in DOMAIN sends[x] : sends[x][i].patch # applied
  /\ phase' = [phase EXCEPT ![c] = "ready"] /\ lock' = NoOne
  /\ UNCHANGED <<shared, applied, told, clients, waiters, made, socket, sends, seen>>

\* A client that left is taken out of the list.
Leave(c) ==
  /\ phase[c] = "leaving" /\ HasLock(c)
  /\ clients' = Without(clients, c) /\ waiters' = Tail(waiters)
  /\ phase' = [phase EXCEPT ![c] = "gone"]
  /\ socket' = [socket EXCEPT ![c] = "closed"]
  /\ UNCHANGED <<shared, applied, told, lock, made, sends, seen>>

-----------------------------------------------------------------------------
(* Sends                                                                     *)

PeerCloses(c) ==
  /\ phase[c] \notin {"out", "gone", "crashed"} /\ socket[c] = "open"
  /\ socket' = [socket EXCEPT ![c] = "closed"]
  /\ UNCHANGED <<shared, applied, told, clients, lock, waiters, phase, made, sends, seen>>

\* The first send under way arrives, and a handler that awaited its snapshot goes on.
Arrives(c) ==
  /\ sends[c] # <<>> /\ socket[c] = "open"
  /\ seen' = [seen EXCEPT ![c] = Head(sends[c]).state]
  /\ sends' = [sends EXCEPT ![c] = Tail(@)]
  /\ phase' = [phase EXCEPT ![c] = IF @ = "snapshot" /\ Head(sends[c]).patch = 0
                                   THEN "ready" ELSE @]
  /\ UNCHANGED <<shared, applied, told, clients, lock, waiters, made, socket>>

\* The handler whose wait a failing send to c ends: its own for a snapshot, the
\* patch's for one the lock is still held for.
Hit(c) ==
  LET patch == Head(sends[c]).patch
  IN IF patch = 0 THEN {c} ELSE {x \in Clients : lock = x /\ patch = applied}

\* Slip: the lock is released on the way out of the loop body alone.
RaiseKeepingLock(h, kind) ==
  /\ UNCHANGED lock
  /\ IF kind = "disconnect"
     THEN Wait(h, "leaving") /\ UNCHANGED socket
     ELSE Crash(h) /\ UNCHANGED waiters

\* Slip: nothing is removed.
RaiseWithoutRemoval(h, kind) ==
  /\ lock' = IF lock = h THEN NoOne ELSE lock
  /\ phase' = [phase EXCEPT ![h] = IF kind = "disconnect" THEN "gone" ELSE "crashed"]
  /\ socket' = [socket EXCEPT ![h] = "closed"]
  /\ UNCHANGED waiters

\* The exception leaves the lock's block. A WebSocketDisconnect sends the handler to
\* the removal of its own client, whoever was disconnected; any other ends it, and
\* its client stays in the list.
Raise(h, kind) ==
  /\ lock' = IF lock = h THEN NoOne ELSE lock
  /\ IF kind = "disconnect"
     THEN Wait(h, "leaving") /\ UNCHANGED socket
     ELSE Crash(h) /\ UNCHANGED waiters

Fails(c) ==
  /\ sends[c] # <<>> /\ socket[c] = "closed"
  /\ sends' = [sends EXCEPT ![c] = Tail(@)]
  /\ \/ Hit(c) = {} /\ UNCHANGED <<lock, phase, waiters, socket>>
     \/ \E h \in Hit(c), kind \in {"disconnect", "other"} : Raise(h, kind)
  /\ UNCHANGED <<shared, applied, told, clients, made, seen>>

Next ==
  \E c \in Clients :
    \/ Connect(c) \/ Receive(c) \/ Unreadable(c) \/ Enter(c) \/ Patch(c) \/ PatchRaises(c)
    \/ GatherReturns(c) \/ Leave(c) \/ PeerCloses(c) \/ Arrives(c) \/ Fails(c)

\* Handlers that can go on do, and a send to an open socket arrives.
Fairness ==
  \A c \in Clients :
    /\ WF_vars(Receive(c)) /\ WF_vars(Enter(c)) /\ WF_vars(Patch(c) \/ PatchRaises(c))
    /\ WF_vars(GatherReturns(c)) /\ WF_vars(Leave(c)) /\ WF_vars(Arrives(c) \/ Fails(c))

Spec == Init /\ [][Next]_vars /\ Fairness

-----------------------------------------------------------------------------
(* Properties                                                                *)

\* A state that lacks nothing of the room's but what patches that raised changed since
\* the last patch that was sent.
Current(state) == \A k \in Keys : state[k] # shared[k] => shared[k] > told

\* A client of the room that nothing is being sent to has the room's state, up to what
\* patches that raised changed since the last one that was sent, and that one made good
\* what raised before it: the client misses no patch between its snapshot and its place
\* in the list, nor when a send to somebody else fails (state_sync, asyncio.gather).
MembersAgree ==
  \A c \in Elements(clients) : socket[c] = "open" /\ sends[c] = <<>> => Current(seen[c])

\* What a client sees never goes back: no key returns to an earlier patch, though the
\* sends of a patch that failed are still under way when the next one begins.
NothingUndone ==
  [][\A c \in Clients, k \in Keys : seen'[c][k] >= seen[c][k]]_vars

\* Only a handler that ended with an exception it does not catch leaves its client in
\* the list; whoever left, or was made to leave, is out of it.
OnlyCrashedLinger ==
  \A c \in Elements(clients) : phase[c] # "gone" /\ (phase[c] = "crashed" => socket[c] = "closed")

\* Whoever waits for the room's lock gets it: patches are served and leavers leave,
\* whatever sends fail on the way.
LockComesRound ==
  \A c \in Clients :
    phase[c] \in {"joining", "patching", "leaving"}
      ~> phase[c] \notin {"joining", "patching", "leaving"}

\* The room's list and the clients that are in it agree, and idle members lack only what
\* patches that raised left unsent.
RoomIsWhole == TypeOK /\ MembersAgree /\ OnlyCrashedLinger

=============================================================================
