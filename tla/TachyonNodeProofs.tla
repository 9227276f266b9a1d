---------------------- MODULE TachyonNodeProofs ----------------------
(***************************************************************************)
(* TLAPS proofs about TachyonNode, for any number of clients, sessions and *)
(* rooms, any buffer sizes and any bound on the number of messages.        *)
(***************************************************************************)
EXTENDS TachyonNode, SequenceTheorems, TLAPS

-----------------------------------------------------------------------------
(* The inductive invariant, in named parts.                                *)

\* Where a handler is and what it has filled in go together: nothing before Accept,
\* a room afterwards, a replay only for a connection that resumes.
HandlerInv ==
  \A c \in ClientIDs :
    /\ handler[c] = "new" <=> room[c] = NoRoom
    /\ handler[c] \in {"fetch", "replay", "panicked"} => resumeFrom[c] > 0
    /\ handler[c] # "new" => \/ resumeFrom[c] = 0
                             \/ resumeFrom[c] < roomVersions[room[c]]
    /\ handler[c] \in {"new", "register"} => queued[c] = <<>>
    /\ handler[c] \in {"new", "register", "fetch"} => replay[c] = {}
    /\ reader[c] # "off" => handler[c] = "done"

\* A client is registered once: it is in the register channel at most once, and is
\* then neither registered nor removed; a registered client's channel is open.
MembershipInv ==
  /\ \A i, j \in DOMAIN register : register[i] = register[j] => i = j
  /\ \A c \in Elems(register) :
       c \notin clients /\ ~closed[c] /\ handler[c] \notin {"new", "register"}
  /\ \A c \in clients : ~closed[c] /\ handler[c] \notin {"new", "register"}
  /\ \A c \in ClientIDs : handler[c] \in {"new", "register"} => ~closed[c]

\* Run only sends to members of the room it is fanning out to, the newest version.
FanoutInv ==
  /\ current = Idle => targets = {}
  /\ current # Idle => /\ targets \subseteq rooms[current.room]
                       /\ current.version = roomVersions[current.room]
                       /\ current.version > 0

\* What the handler still has to replay was recorded, and is news to the client.
ReplayInv ==
  \A c \in ClientIDs : \A v \in replay[c] :
    resumeFrom[c] < v /\ v <= roomVersions[room[c]]

\* Until a client has been sent the event being fanned out, that event is newer than
\* all it was sent.
NewestPending ==
  \A c \in targets : resumeFrom[c] = 0 =>
    \A e \in Elems(queued[c]) : e.version < current.version

IInv ==
  /\ TypeOK
  /\ HistoryIsLogSuffix
  /\ RegistryConsistent
  /\ RunNeverPanics
  /\ FeedIsOwnRoomsNews
  /\ LiveOrder
  /\ HandlerInv
  /\ MembershipInv
  /\ FanoutInv
  /\ ReplayInv
  /\ NewestPending

-----------------------------------------------------------------------------
(* Type correctness.                                                       *)

USE DEF registry, roomLog, connVars, sendVars, pumpVars, runVars

LEMMA TrimIsASeq ==
  ASSUME NEW s \in Seq(Nat)
  PROVE  LastRetained(s) \in Seq(Nat)
<1> DEFINE m == IF Len(s) > ReplayBufferPerRoom THEN Len(s) - ReplayBufferPerRoom + 1 ELSE 1
<1>1. Len(s) \in Nat /\ DOMAIN s = 1 .. Len(s) /\ ReplayBufferPerRoom \in Nat \ {0}
  BY LenProperties, CapacityAssumption
<1>2. m \in Int /\ m >= 1
  BY <1>1
<1>3. \A i \in m .. Len(s) : s[i] \in Nat
  BY <1>1, <1>2, ElementOfSeq
<1>4. SubSeq(s, m, Len(s)) \in Seq(Nat)
  BY <1>1, <1>2, <1>3, SubSeqProperties
<1> QED
  BY <1>4 DEF LastRetained

\* Receiving from, and sending to, a channel.
LEMMA ReceiveType ==
  ASSUME NEW S, NEW s \in Seq(S), s # <<>>
  PROVE  /\ Head(s) \in S
         /\ Tail(s) \in Seq(S)
         /\ Len(Tail(s)) <= Len(s)
BY HeadTailProperties, LenProperties

LEMMA SendTo ==
  ASSUME NEW S, NEW s \in Seq(S), NEW e \in S, NEW n \in Nat, Len(s) < n
  PROVE  /\ Append(s, e) \in Seq(S)
         /\ Len(Append(s, e)) <= n
BY AppendProperties, LenProperties

LEMMA FetchIsNat ==
  ASSUME LogType, NEW r \in Rooms, NEW from \in Nat
  PROVE  ReplayEvents(r, from) \in SUBSET Nat
<1>1. roomHistory[r] \in Seq(Nat)
  BY DEF LogType
<1> QED
  BY <1>1, ElementOfSeq, LenProperties DEF ReplayEvents, Elems

\* Queueing an event of the right type keeps the send channels well-typed.
LEMMA EnqueueType ==
  ASSUME SendType, NEW c \in ClientIDs, NEW e \in Event, Enqueue(c, e),
         UNCHANGED <<taken, closed>>
  PROVE  SendType'
<1>1. queued[c] \in Seq(Event) /\ taken[c] \in Nat /\ taken[c] <= Len(queued[c])
  BY DEF SendType
<1>2. Append(queued[c], e) \in Seq(Event) /\ Len(Append(queued[c], e)) = Len(queued[c]) + 1
  BY <1>1, AppendProperties
<1>3. Len(queued[c]) \in Nat
  BY <1>1, LenProperties
<1>4. queued' \in [ClientIDs -> Seq(Event)]
  BY <1>2 DEF SendType, Enqueue
<1>5. \A d \in ClientIDs : taken'[d] <= Len(queued'[d])
  BY <1>1, <1>2, <1>3 DEF SendType, Enqueue
<1> QED
  BY <1>4, <1>5 DEF SendType

\* A part of the state that a step leaves alone keeps its type.
LEMMA UnchangedTypes ==
  /\ RegistryType /\ UNCHANGED registry => RegistryType'
  /\ ChannelType /\ UNCHANGED <<register, unregister, broadcast>> => ChannelType'
  /\ LogType /\ UNCHANGED roomLog => LogType'
  /\ ConnType /\ UNCHANGED <<stickySessions, connVars>> => ConnType'
  /\ SendType /\ UNCHANGED sendVars => SendType'
  /\ PumpType /\ UNCHANGED pumpVars => PumpType'
  /\ RunType /\ UNCHANGED runVars => RunType'
BY DEF RegistryType, ChannelType, LogType, ConnType, SendType, PumpType, RunType

\* No step of any goroutine takes a variable out of its type. The queues get events of
\* Run's current message and of accepted connections only, hence the two other parts.
LEMMA TypeOKStep == TypeOK /\ HandlerInv /\ FanoutInv /\ [Next]_vars => TypeOK'
<1> SUFFICES ASSUME TypeOK, HandlerInv, FanoutInv, [Next]_vars PROVE TypeOK'
  OBVIOUS
<1> USE DEF TypeOK
<1>1. ASSUME NEW c \in ClientIDs, NEW s \in Sessions, NEW r \in Rooms, NEW k \in 0..MaxVersion,
             Accept(c, s, r, k)
      PROVE  TypeOK'
  <2>1. ConnType'
    BY <1>1, ShardAssumption, CapacityAssumption DEF ConnType, Accept, PlanReconnect, StickyContract, Contract
  <2>2. PumpType'
    BY <1>1 DEF PumpType, Accept
  <2> QED
    BY <1>1, <2>1, <2>2, UnchangedTypes DEF Accept
<1>2. ASSUME NEW c \in ClientIDs, Register(c)
      PROVE  TypeOK'
  <2>1. ChannelType'
    BY <1>2, CapacityAssumption DEF ChannelType, Register
  <2>2. ConnType'
    BY <1>2 DEF ConnType, Register, StartPumps
  <2>3. PumpType'
    BY <1>2 DEF PumpType, Register, StartPumps
  <2> QED
    BY <1>2, <2>1, <2>2, <2>3, UnchangedTypes DEF Register
<1>3. ASSUME NEW c \in ClientIDs, FetchReplay(c)
      PROVE  TypeOK'
  <2>1. ConnType'
    BY <1>3, FetchIsNat DEF ConnType, FetchReplay, HandlerInv
  <2> QED
    BY <1>3, <2>1, UnchangedTypes DEF FetchReplay
<1>4. ASSUME NEW c \in ClientIDs, EnqueueReplay(c)
      PROVE  TypeOK'
  <2>1. ConnType'
    BY <1>4 DEF ConnType, EnqueueReplay, StartPumps
  <2>2. SendType'
    <3>1. room[c] \in Rooms /\ replay[c] \subseteq Nat
      BY <1>4 DEF EnqueueReplay, HandlerInv, ConnType
    <3>2. CASE UNCHANGED queued
      BY <1>4, <3>2, UnchangedTypes DEF EnqueueReplay
    <3>3. ASSUME NEW v \in replay[c], Enqueue(c, [room |-> room[c], version |-> v])
          PROVE  SendType'
      <4>1. [room |-> room[c], version |-> v] \in Event
        BY <3>1 DEF Event
      <4> QED
        BY <1>4, <3>3, <4>1, EnqueueType DEF EnqueueReplay
    <3> QED
      BY <1>4, <3>2, <3>3 DEF EnqueueReplay
  <2>3. PumpType'
    BY <1>4 DEF PumpType, EnqueueReplay, StartPumps
  <2> QED
    BY <1>4, <2>1, <2>2, <2>3, UnchangedTypes DEF EnqueueReplay
<1>5. ASSUME NEW c \in ClientIDs, ReadPumpMessage(c)
      PROVE  TypeOK'
  <2>1. ChannelType'
    <3>1. room[c] \in Rooms
      BY <1>5 DEF ReadPumpMessage, HandlerInv, ConnType
    <3> QED
      BY <1>5, <3>1, CapacityAssumption, SendTo DEF ChannelType, ReadPumpMessage, PushBroadcast
  <2> QED
    BY <1>5, <2>1, UnchangedTypes DEF ReadPumpMessage
<1>6. ASSUME NEW c \in ClientIDs, ReadPumpExit(c)
      PROVE  TypeOK'
  <2>1. ChannelType'
    BY <1>6, CapacityAssumption DEF ChannelType, ReadPumpExit
  <2>2. PumpType'
    BY <1>6 DEF PumpType, ReadPumpExit
  <2> QED
    BY <1>6, <2>1, <2>2, UnchangedTypes DEF ReadPumpExit
<1>7. ASSUME NEW c \in ClientIDs, WritePumpMessage(c)
      PROVE  TypeOK'
  <2>1. SendType'
    BY <1>7 DEF SendType, WritePumpMessage
  <2> QED
    BY <1>7, <2>1, UnchangedTypes DEF WritePumpMessage
<1>8. ASSUME NEW c \in ClientIDs, WritePumpClosed(c)
      PROVE  TypeOK'
  <2>1. PumpType'
    BY <1>8 DEF PumpType, WritePumpClosed, CloseWriter
  <2> QED
    BY <1>8, <2>1, UnchangedTypes DEF WritePumpClosed
<1>9. ASSUME NEW c \in ClientIDs, WritePumpFail(c)
      PROVE  TypeOK'
  <2>1. SendType'
    <3>1. CASE UNCHANGED taken
      BY <1>9, <3>1, UnchangedTypes DEF WritePumpFail
    <3>2. CASE taken[c] < Len(queued[c]) /\ taken' = [taken EXCEPT ![c] = @ + 1]
      <4>1. Len(queued[c]) \in Nat
        BY LenProperties DEF SendType
      <4> QED
        BY <1>9, <3>2, <4>1 DEF SendType, WritePumpFail
    <3> QED
      BY <1>9, <3>1, <3>2 DEF WritePumpFail
  <2>2. PumpType'
    BY <1>9 DEF PumpType, WritePumpFail, CloseWriter
  <2> QED
    BY <1>9, <2>1, <2>2, UnchangedTypes DEF WritePumpFail
<1>10. ASSUME NEW r \in Rooms, HandleAIEvent(r)
      PROVE  TypeOK'
  <2>1. ChannelType'
    BY <1>10, CapacityAssumption DEF ChannelType, HandleAIEvent, PushBroadcast
  <2> QED
    BY <1>10, <2>1, UnchangedTypes DEF HandleAIEvent
<1>11. CASE RunRegister
  <2>1. RegistryType'
    <3>1. Head(register) \in ClientIDs
      BY <1>11, ReceiveType DEF RunRegister, ChannelType
    <3> QED
      BY <1>11, <3>1 DEF RegistryType, RunRegister
  <2>2. ChannelType'
    <3>1. Tail(register) \in Seq(ClientIDs) /\ Len(Tail(register)) <= RegisterBuffer
      <4>1. register \in Seq(ClientIDs) /\ Len(register) <= RegisterBuffer /\ register # <<>>
        BY <1>11 DEF RunRegister, ChannelType
      <4> QED
        BY <4>1, ReceiveType, LenProperties, CapacityAssumption
    <3> QED
      BY <1>11, <3>1 DEF ChannelType, RunRegister
  <2> QED
    BY <1>11, <2>1, <2>2, UnchangedTypes DEF RunRegister
<1>12. CASE RunUnregister
  <2>1. RegistryType'
    BY <1>12 DEF RegistryType, RunUnregister, RemoveClient, ChannelType
  <2>2. ChannelType'
    <3>1. Tail(unregister) \in Seq(ClientIDs) /\ Len(Tail(unregister)) <= UnregisterBuffer
      <4>1. unregister \in Seq(ClientIDs) /\ Len(unregister) <= UnregisterBuffer /\ unregister # <<>>
        BY <1>12 DEF RunUnregister, ChannelType
      <4> QED
        BY <4>1, ReceiveType, LenProperties, CapacityAssumption
    <3> QED
      BY <1>12, <3>1 DEF ChannelType, RunUnregister
  <2>3. SendType'
    BY <1>12 DEF SendType, RunUnregister, RemoveClient
  <2>4. RunType'
    BY <1>12 DEF RunType, RunUnregister, RemoveClient, ChannelType, SendType
  <2> QED
    BY <1>12, <2>1, <2>2, <2>3, <2>4, UnchangedTypes DEF RunUnregister
<1>13. CASE RunBroadcast
  <2>1. ChannelType'
    <3>1. Tail(broadcast) \in Seq(Rooms) /\ Len(Tail(broadcast)) <= BroadcastBuffer
      <4>1. broadcast \in Seq(Rooms) /\ Len(broadcast) <= BroadcastBuffer /\ broadcast # <<>>
        BY <1>13 DEF RunBroadcast, ChannelType
      <4> QED
        BY <4>1, ReceiveType, LenProperties, CapacityAssumption
    <3> QED
      BY <1>13, <3>1 DEF ChannelType, RunBroadcast
  <2>2. LogType'
    <3> DEFINE r == Head(broadcast)
    <3>1. r \in Rooms
      BY <1>13, ReceiveType DEF RunBroadcast, ChannelType
    <3>2. roomVersions[r] + 1 \in Nat
      BY <3>1 DEF LogType
    <3>3. Append(roomHistory[r], roomVersions[r] + 1) \in Seq(Nat)
      BY <3>1, <3>2, AppendProperties DEF LogType
    <3>4. LastRetained(Append(roomHistory[r], roomVersions[r] + 1)) \in Seq(Nat)
      BY <3>3, TrimIsASeq
    <3> QED
      BY <1>13, <3>1, <3>2, <3>4 DEF LogType, RunBroadcast
  <2>3. RunType'
    BY <1>13 DEF RunType, RunBroadcast, Event, ChannelType, LogType, RegistryType
  <2> QED
    BY <1>13, <2>1, <2>2, <2>3, UnchangedTypes DEF RunBroadcast
<1>14. ASSUME NEW c \in ClientIDs, RunFanout(c)
      PROVE  TypeOK'
  <2>1. ChannelType'
    <3>1. CASE UNCHANGED unregister
      BY <1>14, <3>1 DEF ChannelType, RunFanout
    <3>2. CASE EvictSlow(c)
      BY <1>14, <3>2, SendTo, CapacityAssumption DEF ChannelType, RunFanout, EvictSlow
    <3> QED
      BY <1>14, <3>1, <3>2 DEF RunFanout
  <2>2. SendType'
    <3>1. current \in Event
      BY <1>14 DEF RunFanout, FanoutInv, RunType
    <3> QED
      BY <1>14, <3>1, UnchangedTypes, EnqueueType DEF RunFanout
  <2>3. RunType'
    BY <1>14 DEF RunType, RunFanout
  <2> QED
    BY <1>14, <2>1, <2>2, <2>3, UnchangedTypes DEF RunFanout
<1>15. CASE RunPublish
  <2>1. RunType'
    BY <1>15 DEF RunType, RunPublish, Idle, Event
  <2> QED
    BY <1>15, <2>1, UnchangedTypes DEF RunPublish
<1>16. CASE UNCHANGED vars
  BY <1>16, UnchangedTypes DEF vars
<1> QED
  BY <1>1, <1>2, <1>3, <1>4, <1>5, <1>6, <1>7, <1>8, <1>9, <1>10, <1>11, <1>12, <1>13, <1>14, <1>15, <1>16 DEF Next, Handler, Pumps, Run

-----------------------------------------------------------------------------
(* What the channel operations do to the set of elements of a sequence.    *)

LEMMA ElemsAppend ==
  ASSUME NEW S, NEW s \in Seq(S), NEW e \in S
  PROVE  Elems(Append(s, e)) = Elems(s) \cup {e}
<1>1. /\ Len(s) \in Nat /\ DOMAIN s = 1..Len(s)
      /\ Append(s, e) \in Seq(S) /\ Len(Append(s, e)) = Len(s) + 1
      /\ \A i \in 1..Len(s) : Append(s, e)[i] = s[i]
      /\ Append(s, e)[Len(s) + 1] = e
  BY LenProperties, AppendProperties
<1>2. DOMAIN Append(s, e) = 1..Len(s) + 1
  BY <1>1, LenProperties
<1> QED
  BY <1>1, <1>2 DEF Elems

LEMMA ElemsTail ==
  ASSUME NEW S, NEW s \in Seq(S), s # <<>>
  PROVE  /\ Head(s) \in Elems(s)
         /\ Elems(Tail(s)) \subseteq Elems(s)
         /\ (\A i, j \in DOMAIN s : s[i] = s[j] => i = j) =>
              /\ Head(s) \notin Elems(Tail(s))
              /\ \A i, j \in DOMAIN Tail(s) : Tail(s)[i] = Tail(s)[j] => i = j
<1>1. /\ Len(s) \in Nat \ {0} /\ DOMAIN s = 1..Len(s)
      /\ Tail(s) \in Seq(S) /\ Len(Tail(s)) = Len(s) - 1
      /\ \A i \in 1..Len(Tail(s)) : Tail(s)[i] = s[i + 1]
      /\ Head(s) = s[1]
  BY LenProperties, HeadTailProperties, EmptySeq
<1>2. DOMAIN Tail(s) = 1..Len(s) - 1
  BY <1>1, LenProperties
<1>3. Head(s) \in Elems(s) /\ Elems(Tail(s)) \subseteq Elems(s)
  BY <1>1, <1>2 DEF Elems
<1>4. ASSUME \A i, j \in DOMAIN s : s[i] = s[j] => i = j
      PROVE  /\ Head(s) \notin Elems(Tail(s))
             /\ \A i, j \in DOMAIN Tail(s) : Tail(s)[i] = Tail(s)[j] => i = j
  BY <1>1, <1>2, <1>4 DEF Elems
<1> QED
  BY <1>3, <1>4

-----------------------------------------------------------------------------
(* Each part of the invariant is preserved.                                *)

LEMMA HandlerStep == IInv /\ [Next]_vars => HandlerInv'
<1> SUFFICES ASSUME IInv, [Next]_vars PROVE HandlerInv'
  OBVIOUS
<1> USE DEF IInv, TypeOK
<1>1. ASSUME UNCHANGED <<handler, room, resumeFrom, replay, roomVersions, queued, reader>>
      PROVE  HandlerInv'
  BY <1>1 DEF HandlerInv
<1>2. ASSUME NEW c \in ClientIDs, NEW s \in Sessions, NEW r \in Rooms, NEW k \in 0..MaxVersion,
             Accept(c, s, r, k)
      PROVE  HandlerInv'
  BY <1>2, RoomsAssumption, CapacityAssumption
  DEF HandlerInv, Accept, PlanReconnect, ConnType, LogType, PumpType
<1>3. ASSUME NEW c \in ClientIDs, Register(c)
      PROVE  HandlerInv'
  BY <1>3 DEF HandlerInv, Register, StartPumps, ConnType, PumpType
<1>4. ASSUME NEW c \in ClientIDs, FetchReplay(c)
      PROVE  HandlerInv'
  BY <1>4 DEF HandlerInv, FetchReplay, ConnType
<1>5. ASSUME NEW c \in ClientIDs, EnqueueReplay(c)
      PROVE  HandlerInv'
  <2>1. /\ handler' = [handler EXCEPT ![c] = handler'[c]]
        /\ handler[c] = "replay"
        /\ \/ handler'[c] \in {"replay", "panicked"} /\ UNCHANGED reader
           \/ handler'[c] = "done" /\ reader' = [reader EXCEPT ![c] = "on"]
    BY <1>5 DEF EnqueueReplay, StartPumps, ConnType
  <2>2. /\ queued' = [queued EXCEPT ![c] = queued'[c]]
        /\ replay' = [replay EXCEPT ![c] = replay'[c]]
    BY <1>5 DEF EnqueueReplay, Enqueue, ConnType, SendType
  <2>3. UNCHANGED <<room, resumeFrom, roomVersions>>
    BY <1>5 DEF EnqueueReplay
  <2> QED
    BY <2>1, <2>2, <2>3 DEF HandlerInv, ConnType, SendType, PumpType
<1>6. ASSUME NEW c \in ClientIDs, ReadPumpExit(c)
      PROVE  HandlerInv'
  BY <1>6 DEF HandlerInv, ReadPumpExit, PumpType
<1>7. CASE RunBroadcast
  <2>1. Head(broadcast) \in Rooms
    BY <1>7, ReceiveType DEF RunBroadcast, ChannelType
  <2>2. \A r \in Rooms : roomVersions[r] \in Nat /\ roomVersions'[r] \in Nat /\ roomVersions[r] <= roomVersions'[r]
    BY <1>7, <2>1 DEF RunBroadcast, LogType
  <2> QED
    BY <1>7, <2>2 DEF HandlerInv, RunBroadcast, ConnType
<1>8. ASSUME NEW c \in ClientIDs, RunFanout(c)
      PROVE  HandlerInv'
  <2>1. handler[c] \notin {"new", "register"}
    BY <1>8 DEF RunFanout, FanoutInv, RegistryConsistent, MembershipInv, RunType, Event
  <2> QED
    BY <1>8, <2>1 DEF HandlerInv, RunFanout, Enqueue, SendType
<1> QED
  BY <1>1, <1>2, <1>3, <1>4, <1>5, <1>6, <1>7, <1>8
  DEF Next, Handler, Pumps, Run, vars, ReadPumpMessage, HandleAIEvent, PushBroadcast,
      WritePumpMessage, WritePumpClosed, WritePumpFail, CloseWriter, RunRegister,
      RunUnregister, RunPublish

LEMMA MembershipStep == IInv /\ [Next]_vars => MembershipInv'
<1> SUFFICES ASSUME IInv, [Next]_vars PROVE MembershipInv'
  OBVIOUS
<1> USE DEF IInv, TypeOK
<1>0. Elems(register) \subseteq ClientIDs
  BY ElementOfSeq, LenProperties DEF ChannelType, Elems
<1>1. ASSUME UNCHANGED <<register, clients, closed, handler>>
      PROVE  MembershipInv'
  BY <1>1 DEF MembershipInv, Elems
<1>2. ASSUME NEW c \in ClientIDs, NEW s \in Sessions, NEW r \in Rooms, NEW k \in 0..MaxVersion,
             Accept(c, s, r, k)
      PROVE  MembershipInv'
  BY <1>2 DEF MembershipInv, Accept, ConnType, Elems
<1>3. ASSUME NEW c \in ClientIDs, Register(c)
      PROVE  MembershipInv'
  <2>1. /\ register \in Seq(ClientIDs) /\ register' = Append(register, c)
        /\ UNCHANGED <<clients, closed>>
        /\ handler' = [handler EXCEPT ![c] = handler'[c]]
        /\ handler'[c] \notin {"new", "register"} /\ handler[c] = "register"
    BY <1>3 DEF Register, StartPumps, ConnType, ChannelType
  <2>2. Elems(register') = Elems(register) \cup {c}
    BY <2>1, ElemsAppend
  <2>3. c \notin Elems(register) /\ c \notin clients /\ ~closed[c]
    BY <2>1 DEF MembershipInv
  <2>4. \A i, j \in DOMAIN register' : register'[i] = register'[j] => i = j
    <3>1. /\ Len(register) \in Nat /\ DOMAIN register = 1..Len(register)
          /\ DOMAIN register' = 1..Len(register) + 1
          /\ \A i \in 1..Len(register) : register'[i] = register[i]
          /\ register'[Len(register) + 1] = c
      BY <2>1, AppendProperties, LenProperties
    <3>2. \A i \in 1..Len(register) : register'[i] # c
      BY <3>1, <2>3 DEF Elems
    <3> QED
      BY <3>1, <3>2 DEF MembershipInv
  <2> QED
    BY <1>0, <2>1, <2>2, <2>3, <2>4 DEF MembershipInv, ConnType, RegistryType
<1>4. ASSUME NEW c \in ClientIDs, FetchReplay(c)
      PROVE  MembershipInv'
  BY <1>4 DEF MembershipInv, FetchReplay, ConnType, Elems
<1>5. ASSUME NEW c \in ClientIDs, EnqueueReplay(c)
      PROVE  MembershipInv'
  <2>1. /\ handler' = [handler EXCEPT ![c] = handler'[c]]
        /\ handler[c] = "replay" /\ handler'[c] \notin {"new", "register"}
        /\ UNCHANGED <<register, clients, closed>>
    BY <1>5 DEF EnqueueReplay, StartPumps, ConnType
  <2> QED
    BY <1>0, <2>1 DEF MembershipInv, ConnType, RegistryType, Elems
<1>6. CASE RunRegister
  <2>1. /\ register \in Seq(ClientIDs) /\ register # <<>> /\ register' = Tail(register)
        /\ clients' = clients \cup {Head(register)}
        /\ UNCHANGED <<closed, handler>>
    BY <1>6 DEF RunRegister, ChannelType
  <2>2. /\ Head(register) \in Elems(register)
        /\ Elems(register') \subseteq Elems(register)
        /\ Head(register) \notin Elems(register')
        /\ \A i, j \in DOMAIN register' : register'[i] = register'[j] => i = j
    BY <2>1, ElemsTail DEF MembershipInv
  <2> QED
    BY <2>1, <2>2 DEF MembershipInv
<1>7. CASE RunUnregister
  <2>1. CASE UNCHANGED <<clients, closed>>
    BY <1>7, <2>1, <1>1 DEF RunUnregister
  <2>2. CASE /\ Head(unregister) \in clients
             /\ clients' = clients \ {Head(unregister)}
             /\ closed' = [closed EXCEPT ![Head(unregister)] = TRUE]
    <3>1. UNCHANGED <<register, handler>>
      BY <1>7 DEF RunUnregister
    <3> QED
      BY <2>2, <3>1 DEF MembershipInv, SendType, RegistryType, Elems
  <2> QED
    BY <1>7, <2>1, <2>2 DEF RunUnregister, RemoveClient
<1> QED
  BY <1>1, <1>2, <1>3, <1>4, <1>5, <1>6, <1>7
  DEF Next, Handler, Pumps, Run, vars, ReadPumpMessage, HandleAIEvent, PushBroadcast,
      ReadPumpExit, WritePumpMessage, WritePumpClosed, WritePumpFail, CloseWriter,
      RunBroadcast, RunFanout, RunPublish

LEMMA RegistryStep == IInv /\ [Next]_vars => RegistryConsistent'
<1> SUFFICES ASSUME IInv, [Next]_vars PROVE RegistryConsistent'
  OBVIOUS
<1> USE DEF IInv, TypeOK
<1>1. ASSUME UNCHANGED <<clients, rooms, room>>
      PROVE  RegistryConsistent'
  BY <1>1 DEF RegistryConsistent
<1>2. ASSUME NEW c \in ClientIDs, NEW s \in Sessions, NEW r \in Rooms, NEW k \in 0..MaxVersion,
             Accept(c, s, r, k)
      PROVE  RegistryConsistent'
  <2>1. c \notin clients
    BY <1>2 DEF Accept, MembershipInv
  <2> QED
    BY <1>2, <2>1 DEF RegistryConsistent, Accept, ConnType
<1>3. CASE RunRegister
  <2>1. Head(register) \in ClientIDs /\ room[Head(register)] \in Rooms
    <3>1. register \in Seq(ClientIDs) /\ register # <<>>
      BY <1>3 DEF RunRegister, ChannelType
    <3>2. Head(register) \in ClientIDs /\ Head(register) \in Elems(register)
      BY <3>1, ReceiveType, ElemsTail
    <3> QED
      BY <3>2 DEF MembershipInv, HandlerInv, ConnType
  <2> QED
    BY <1>3, <2>1 DEF RegistryConsistent, RunRegister, RegistryType
<1>4. CASE RunUnregister
  <2>1. CASE UNCHANGED <<clients, rooms>>
    BY <1>4, <2>1, <1>1 DEF RunUnregister
  <2>2. CASE /\ Head(unregister) \in clients
             /\ clients' = clients \ {Head(unregister)}
             /\ rooms' = [rooms EXCEPT ![room[Head(unregister)]] = @ \ {Head(unregister)}]
    BY <1>4, <2>2 DEF RegistryConsistent, RunUnregister, RegistryType
  <2> QED
    BY <1>4, <2>1, <2>2 DEF RunUnregister, RemoveClient
<1> QED
  BY <1>1, <1>2, <1>3, <1>4
  DEF Next, Handler, Pumps, Run, vars, Register, StartPumps, FetchReplay, EnqueueReplay,
      ReadPumpMessage, HandleAIEvent, PushBroadcast, ReadPumpExit, WritePumpMessage,
      WritePumpClosed, WritePumpFail, CloseWriter, RunBroadcast, RunFanout, RunPublish

LEMMA PanicStep == IInv /\ [Next]_vars => RunNeverPanics'
<1> SUFFICES ASSUME IInv, [Next]_vars PROVE RunNeverPanics'
  OBVIOUS
<1> USE DEF IInv, TypeOK
<1>1. CASE RunUnregister
  BY <1>1 DEF RunNeverPanics, RunUnregister, RemoveClient, MembershipInv
<1>2. ASSUME NEW c \in ClientIDs, RunFanout(c)
      PROVE  RunNeverPanics'
  <2>1. ~closed[c]
    BY <1>2 DEF RunFanout, FanoutInv, RegistryConsistent, MembershipInv, RunType, Event
  <2> QED
    BY <1>2, <2>1 DEF RunNeverPanics, RunFanout
<1> QED
  BY <1>1, <1>2
  DEF Next, Handler, Pumps, Run, vars, RunNeverPanics, Accept, Register, FetchReplay,
      EnqueueReplay, ReadPumpMessage, HandleAIEvent, ReadPumpExit, WritePumpMessage,
      WritePumpClosed, WritePumpFail, RunRegister, RunBroadcast, RunPublish

LEMMA FanoutStep == IInv /\ [Next]_vars => FanoutInv'
<1> SUFFICES ASSUME IInv, [Next]_vars PROVE FanoutInv'
  OBVIOUS
<1> USE DEF IInv, TypeOK
<1>1. ASSUME UNCHANGED <<current, targets, rooms, roomVersions>>
      PROVE  FanoutInv'
  BY <1>1 DEF FanoutInv
<1>2. ASSUME AtSelect, UNCHANGED <<current, targets>>
      PROVE  FanoutInv'
  BY <1>2 DEF FanoutInv, AtSelect
<1>3. CASE RunBroadcast
  <2>1. Head(broadcast) \in Rooms
    BY <1>3, ReceiveType DEF RunBroadcast, ChannelType
  <2> QED
    BY <1>3, <2>1 DEF FanoutInv, RunBroadcast, LogType, Idle
<1>4. ASSUME NEW c \in ClientIDs, RunFanout(c)
      PROVE  FanoutInv'
  BY <1>4 DEF FanoutInv, RunFanout
<1>5. CASE RunPublish
  BY <1>5 DEF FanoutInv, RunPublish
<1> QED
  BY <1>1, <1>2, <1>3, <1>4, <1>5
  DEF Next, Handler, Pumps, Run, vars, Accept, Register, FetchReplay, EnqueueReplay,
      ReadPumpMessage, HandleAIEvent, ReadPumpExit, WritePumpMessage, WritePumpClosed,
      WritePumpFail, RunRegister, RunUnregister

\* Trimming keeps a consecutive run of versions that ends with the newest one.
LEMMA RecordKeepsSuffix ==
  ASSUME NEW h \in Seq(Nat), NEW v \in Nat,
         Len(h) = (IF v < ReplayBufferPerRoom THEN v ELSE ReplayBufferPerRoom),
         \A i \in DOMAIN h : h[i] = v - Len(h) + i
  PROVE  LET t == LastRetained(Append(h, v + 1)) IN
           /\ Len(t) = (IF v + 1 < ReplayBufferPerRoom THEN v + 1 ELSE ReplayBufferPerRoom)
           /\ \A i \in DOMAIN t : t[i] = v + 1 - Len(t) + i
<1> DEFINE a == Append(h, v + 1)
           m == IF Len(a) > ReplayBufferPerRoom THEN Len(a) - ReplayBufferPerRoom + 1 ELSE 1
           t == SubSeq(a, m, Len(a))
<1>1. /\ Len(h) \in Nat /\ DOMAIN h = 1..Len(h) /\ ReplayBufferPerRoom \in Nat \ {0}
      /\ a \in Seq(Nat) /\ Len(a) = Len(h) + 1
      /\ \A i \in 1..Len(h) : a[i] = h[i]
      /\ a[Len(h) + 1] = v + 1
  BY LenProperties, AppendProperties, CapacityAssumption
<1>2. \A i \in 1..Len(a) : a[i] = v + 1 - Len(a) + i
  <2> SUFFICES ASSUME NEW i \in 1..Len(a) PROVE a[i] = v + 1 - Len(a) + i
    OBVIOUS
  <2>1. CASE i \in 1..Len(h)
    BY <1>1, <2>1, SMTT(30)
  <2>2. CASE i = Len(h) + 1
    BY <1>1, <2>2, SMTT(30)
  <2> QED
    BY <1>1, <2>1, <2>2
<1>3. /\ m \in Int /\ m >= 1 /\ m <= Len(a)
      /\ m = IF Len(a) > ReplayBufferPerRoom THEN Len(a) - ReplayBufferPerRoom + 1 ELSE 1
  BY <1>1
<1> HIDE DEF a, m
<1>4. \A i \in m .. Len(a) : a[i] \in Nat
  BY <1>1, <1>3, ElementOfSeq
<1>5. /\ t \in Seq(Nat) /\ Len(t) = Len(a) - m + 1
      /\ \A i \in 1 .. Len(a) - m + 1 : t[i] = a[m + i - 1]
  BY <1>1, <1>3, <1>4, SubSeqProperties
<1>6. DOMAIN t = 1..Len(t)
  BY <1>5, LenProperties
<1> HIDE DEF t
<1>7. Len(t) = (IF v + 1 < ReplayBufferPerRoom THEN v + 1 ELSE ReplayBufferPerRoom)
  BY <1>1, <1>3, <1>5
<1>8. \A i \in DOMAIN t : t[i] = v + 1 - Len(t) + i
  <2> SUFFICES ASSUME NEW i \in DOMAIN t PROVE t[i] = v + 1 - Len(t) + i
    OBVIOUS
  <2>1. i \in 1 .. Len(a) - m + 1 /\ Len(a) \in Nat
    BY <1>1, <1>5, <1>6
  <2>2. t[i] = a[m + i - 1] /\ m + i - 1 \in 1..Len(a)
    BY <1>3, <1>5, <2>1, SMTT(30)
  <2>3. a[m + i - 1] = v + 1 - Len(a) + (m + i - 1)
    BY <1>2, <2>2
  <2>4. Len(t) = Len(a) - m + 1 /\ m \in Int /\ i \in Int
    BY <1>3, <1>5, <2>1
  <2> HIDE DEF a, m, t
  <2> QED
    BY <2>1, <2>2, <2>3, <2>4
<1> QED
  BY <1>7, <1>8 DEF LastRetained, a, m, t

LEMMA HistoryStep == IInv /\ [Next]_vars => HistoryIsLogSuffix'
<1> SUFFICES ASSUME IInv, [Next]_vars PROVE HistoryIsLogSuffix'
  OBVIOUS
<1> USE DEF IInv, TypeOK
<1>1. ASSUME UNCHANGED roomLog
      PROVE  HistoryIsLogSuffix'
  BY <1>1 DEF HistoryIsLogSuffix
<1>2. CASE RunBroadcast
  <2> DEFINE r == Head(broadcast)
             t == LastRetained(Append(roomHistory[r], roomVersions[r] + 1))
  <2>1. r \in Rooms
    BY <1>2, ReceiveType DEF RunBroadcast, ChannelType
  <2>2. /\ roomVersions' = [roomVersions EXCEPT ![r] = roomVersions[r] + 1]
        /\ roomHistory' = [roomHistory EXCEPT ![r] = t]
    BY <1>2 DEF RunBroadcast
  <2>3. roomHistory[r] \in Seq(Nat) /\ roomVersions[r] \in Nat
    BY <2>1 DEF LogType
  <2>4. /\ Len(t) = (IF roomVersions[r] + 1 < ReplayBufferPerRoom
                     THEN roomVersions[r] + 1 ELSE ReplayBufferPerRoom)
        /\ \A i \in DOMAIN t : t[i] = roomVersions[r] + 1 - Len(t) + i
    BY <2>1, <2>3, RecordKeepsSuffix DEF HistoryIsLogSuffix
  <2> HIDE DEF r, t
  <2>5. ASSUME NEW q \in Rooms
        PROVE  /\ Len(roomHistory'[q]) =
                    IF roomVersions'[q] < ReplayBufferPerRoom THEN roomVersions'[q]
                    ELSE ReplayBufferPerRoom
               /\ \A i \in DOMAIN roomHistory'[q] :
                    roomHistory'[q][i] = roomVersions'[q] - Len(roomHistory'[q]) + i
    <3>1. CASE q = r
      BY <2>1, <2>2, <2>4, <3>1 DEF LogType
    <3>2. CASE q # r
      BY <2>1, <2>2, <3>2 DEF LogType, HistoryIsLogSuffix
    <3> QED
      BY <3>1, <3>2
  <2> QED
    BY <2>5 DEF HistoryIsLogSuffix
<1> QED
  BY <1>1, <1>2
  DEF Next, Handler, Pumps, Run, vars, Accept, Register, FetchReplay, EnqueueReplay,
      ReadPumpMessage, HandleAIEvent, ReadPumpExit, WritePumpMessage, WritePumpClosed,
      WritePumpFail, RunRegister, RunUnregister, RunFanout, RunPublish

\* What getReplayEvents returns was recorded and is newer than what the client knows.
LEMMA FetchedIsNews ==
  ASSUME LogType, HistoryIsLogSuffix, NEW r \in Rooms, NEW from \in Nat,
         NEW v \in ReplayEvents(r, from)
  PROVE  from < v /\ v <= roomVersions[r] /\ v \in Nat
<1>1. /\ roomHistory[r] \in Seq(Nat) /\ roomVersions[r] \in Nat
      /\ DOMAIN roomHistory[r] = 1..Len(roomHistory[r]) /\ Len(roomHistory[r]) \in Nat
  BY LenProperties DEF LogType
<1>2. PICK i \in DOMAIN roomHistory[r] : v = roomHistory[r][i] /\ v > from
  BY DEF ReplayEvents, Elems
<1>3. v = roomVersions[r] - Len(roomHistory[r]) + i
  BY <1>2 DEF HistoryIsLogSuffix
<1>4. v \in Nat
  BY <1>1, <1>2, ElementOfSeq
<1> QED
  BY <1>1, <1>2, <1>3, <1>4

\* Versions only grow, and they grow in the one room Run takes a message for.
LEMMA VersionsGrow ==
  ASSUME IInv, [Next]_vars
  PROVE  \A r \in Rooms : roomVersions[r] \in Nat /\ roomVersions'[r] \in Nat
                          /\ roomVersions[r] <= roomVersions'[r]
<1> USE DEF IInv, TypeOK
<1>1. CASE RunBroadcast
  <2>1. Head(broadcast) \in Rooms
    BY <1>1, ReceiveType DEF RunBroadcast, ChannelType
  <2> QED
    BY <1>1, <2>1 DEF RunBroadcast, LogType
<1>2. CASE UNCHANGED roomVersions
  BY <1>2 DEF LogType
<1> QED
  BY <1>1, <1>2
  DEF Next, Handler, Pumps, Run, vars, Accept, Register, FetchReplay, EnqueueReplay,
      ReadPumpMessage, HandleAIEvent, ReadPumpExit, WritePumpMessage, WritePumpClosed,
      WritePumpFail, RunRegister, RunUnregister, RunFanout, RunPublish

LEMMA ReplayStep == IInv /\ [Next]_vars => ReplayInv'
<1> SUFFICES ASSUME IInv, [Next]_vars PROVE ReplayInv'
  OBVIOUS
<1> USE DEF IInv, TypeOK
<1>1. ASSUME UNCHANGED <<resumeFrom, room>>,
             \A c \in ClientIDs : replay'[c] \subseteq replay[c]
      PROVE  ReplayInv'
  <2> SUFFICES ASSUME NEW c \in ClientIDs, NEW v \in replay'[c]
               PROVE  resumeFrom'[c] < v /\ v <= roomVersions'[room'[c]]
    BY DEF ReplayInv
  <2>1. v \in replay[c] /\ v \in Nat
    BY <1>1 DEF ConnType
  <2>2. room[c] \in Rooms
    BY <2>1 DEF HandlerInv, ConnType
  <2>3. resumeFrom[c] < v /\ v <= roomVersions[room[c]]
    BY <2>1 DEF ReplayInv
  <2> QED
    BY <1>1, <2>1, <2>2, <2>3, VersionsGrow
<1>2. ASSUME NEW c \in ClientIDs, NEW s \in Sessions, NEW r \in Rooms, NEW k \in 0..MaxVersion,
             Accept(c, s, r, k)
      PROVE  ReplayInv'
  <2>1. replay[c] = {}
    BY <1>2 DEF Accept, HandlerInv
  <2> QED
    BY <1>2, <2>1 DEF ReplayInv, Accept, ConnType
<1>3. ASSUME NEW c \in ClientIDs, FetchReplay(c)
      PROVE  ReplayInv'
  <2>1. room[c] \in Rooms /\ resumeFrom[c] \in Nat
    BY <1>3 DEF FetchReplay, HandlerInv, ConnType
  <2>2. \A v \in ReplayEvents(room[c], resumeFrom[c]) :
          resumeFrom[c] < v /\ v <= roomVersions[room[c]]
    BY <2>1, FetchedIsNews
  <2> QED
    BY <1>3, <2>2 DEF ReplayInv, FetchReplay, ConnType
<1>4. ASSUME NEW c \in ClientIDs, EnqueueReplay(c)
      PROVE  ReplayInv'
  BY <1>1, <1>4 DEF EnqueueReplay, ConnType
<1> QED
  BY <1>1, <1>2, <1>3, <1>4
  DEF Next, Handler, Pumps, Run, vars, Register, ReadPumpMessage, HandleAIEvent,
      ReadPumpExit, WritePumpMessage, WritePumpClosed, WritePumpFail, RunRegister,
      RunUnregister, RunBroadcast, RunFanout, RunPublish

\* The events queued for a client are those queued before, plus at most one: the
\* oldest of its replay, or the event Run is fanning out to it.
LEMMA QueueGrowth ==
  ASSUME IInv, [Next]_vars, NEW c \in ClientIDs
  PROVE  \/ queued'[c] = queued[c]
         \/ /\ room[c] \in Rooms /\ handler[c] = "replay"
            /\ \E v \in replay[c] :
                 queued'[c] = Append(queued[c], [room |-> room[c], version |-> v])
            /\ UNCHANGED <<room, resumeFrom, roomVersions, targets, current>>
         \/ /\ c \in targets /\ current \in Event /\ current.room = room[c]
            /\ targets' = targets \ {c}
            /\ queued'[c] = Append(queued[c], current)
            /\ UNCHANGED <<room, resumeFrom, roomVersions, current>>
<1> USE DEF IInv, TypeOK
<1>1. ASSUME NEW d \in ClientIDs, EnqueueReplay(d)
      PROVE  \/ queued'[c] = queued[c]
             \/ /\ room[c] \in Rooms /\ handler[c] = "replay"
                /\ \E v \in replay[c] :
                     queued'[c] = Append(queued[c], [room |-> room[c], version |-> v])
                /\ UNCHANGED <<room, resumeFrom, roomVersions, targets, current>>
  <2>1. CASE UNCHANGED queued
    BY <2>1
  <2>2. ASSUME NEW v \in replay[d], Enqueue(d, [room |-> room[d], version |-> v])
        PROVE  queued'[c] = queued[c] \/
                 (c = d /\ queued'[c] = Append(queued[c], [room |-> room[c], version |-> v]))
    BY <2>2 DEF Enqueue, SendType
  <2>3. /\ handler[d] = "replay" /\ room[d] \in Rooms
        /\ UNCHANGED <<room, resumeFrom, roomVersions, targets, current>>
    BY <1>1 DEF EnqueueReplay, HandlerInv, ConnType
  <2> QED
    BY <1>1, <2>1, <2>2, <2>3 DEF EnqueueReplay
<1>2. ASSUME NEW d \in ClientIDs, RunFanout(d)
      PROVE  \/ queued'[c] = queued[c]
             \/ /\ c \in targets /\ current \in Event /\ current.room = room[c]
                /\ targets' = targets \ {c}
                /\ queued'[c] = Append(queued[c], current)
                /\ UNCHANGED <<room, resumeFrom, roomVersions, current>>
  <2>1. current \in Event /\ current.room = room[d]
    BY <1>2 DEF RunFanout, FanoutInv, RunType, RegistryConsistent, Event
  <2> QED
    BY <1>2, <2>1 DEF RunFanout, Enqueue, SendType
<1>3. CASE UNCHANGED queued
  BY <1>3
<1> QED
  BY <1>1, <1>2, <1>3
  DEF Next, Handler, Pumps, Run, vars, Accept, Register, FetchReplay,
      ReadPumpMessage, HandleAIEvent, ReadPumpExit, WritePumpMessage, WritePumpClosed,
      WritePumpFail, RunRegister, RunUnregister, RunBroadcast, RunPublish

\* Accept is the only writer of room and resumeFrom, and it runs once per connection.
LEMMA ConnectionKept ==
  ASSUME IInv, [Next]_vars, NEW c \in ClientIDs, handler[c] # "new"
  PROVE  room'[c] = room[c] /\ resumeFrom'[c] = resumeFrom[c]
<1>1. ASSUME NEW d \in ClientIDs, NEW s \in Sessions, NEW r \in Rooms, NEW k \in 0..MaxVersion,
             Accept(d, s, r, k)
      PROVE  room'[c] = room[c] /\ resumeFrom'[c] = resumeFrom[c]
  BY <1>1 DEF Accept, IInv, TypeOK, ConnType
<1>2. CASE UNCHANGED <<room, resumeFrom>>
  BY <1>2
<1> QED
  BY <1>1, <1>2
  DEF Next, Handler, Pumps, Run, vars, Register, FetchReplay, EnqueueReplay,
      ReadPumpMessage, HandleAIEvent, ReadPumpExit, WritePumpMessage, WritePumpClosed,
      WritePumpFail, RunRegister, RunUnregister, RunBroadcast, RunFanout, RunPublish

LEMMA FeedStep == IInv /\ [Next]_vars => FeedIsOwnRoomsNews'
<1> SUFFICES ASSUME IInv, [Next]_vars,
                    NEW c \in ClientIDs, NEW e \in Elems(queued'[c])
             PROVE  /\ e.room = room'[c]
                    /\ resumeFrom'[c] < e.version /\ e.version <= roomVersions'[e.room]
  BY DEF FeedIsOwnRoomsNews
<1> USE DEF IInv, TypeOK
<1>1. queued[c] \in Seq(Event) /\ Elems(<<>>) = {}
  BY DEF SendType, Elems
<1>2. ASSUME e \in Elems(queued[c])
      PROVE  /\ e.room = room'[c]
             /\ resumeFrom'[c] < e.version /\ e.version <= roomVersions'[e.room]
  <2>1. e \in Event
    BY <1>1, <1>2, ElementOfSeq, LenProperties DEF Elems
  <2>2. handler[c] # "new"
    BY <1>1, <1>2 DEF HandlerInv
  <2>3. room'[c] = room[c] /\ resumeFrom'[c] = resumeFrom[c]
    BY <2>2, ConnectionKept
  <2>4. /\ e.room = room[c]
        /\ resumeFrom[c] < e.version /\ e.version <= roomVersions[e.room]
    BY <1>2 DEF FeedIsOwnRoomsNews
  <2>5. /\ e.room \in Rooms /\ e.version \in Nat
        /\ roomVersions[e.room] \in Nat /\ roomVersions'[e.room] \in Nat
        /\ roomVersions[e.room] <= roomVersions'[e.room]
    BY <2>1, VersionsGrow DEF Event
  <2> QED
    BY <2>3, <2>4, <2>5
<1>3. CASE queued'[c] = queued[c]
  BY <1>2, <1>3
<1>4. ASSUME room[c] \in Rooms, NEW v \in replay[c],
             queued'[c] = Append(queued[c], [room |-> room[c], version |-> v]),
             UNCHANGED <<room, resumeFrom, roomVersions>>
      PROVE  /\ e.room = room'[c]
             /\ resumeFrom'[c] < e.version /\ e.version <= roomVersions'[e.room]
  <2> DEFINE n == [room |-> room[c], version |-> v]
  <2>1. n \in Event
    BY <1>4 DEF Event, ConnType
  <2>2. Elems(queued'[c]) = Elems(queued[c]) \cup {n}
    BY <1>1, <1>4, <2>1, ElemsAppend
  <2>3. resumeFrom[c] < v /\ v <= roomVersions[room[c]]
    BY <1>4 DEF ReplayInv
  <2> QED
    BY <1>2, <1>4, <2>2, <2>3
<1>5. ASSUME c \in targets, current \in Event, current.room = room[c],
             queued'[c] = Append(queued[c], current),
             UNCHANGED <<room, resumeFrom, roomVersions>>
      PROVE  /\ e.room = room'[c]
             /\ resumeFrom'[c] < e.version /\ e.version <= roomVersions'[e.room]
  <2>1. Elems(queued'[c]) = Elems(queued[c]) \cup {current}
    BY <1>1, <1>5, ElemsAppend
  <2>2. current.version = roomVersions[room[c]] /\ current.version > 0
    BY <1>5 DEF FanoutInv
  <2>3. handler[c] # "new"
    BY <1>5 DEF FanoutInv, RegistryConsistent, MembershipInv, Event
  <2>4. resumeFrom[c] < current.version
    BY <1>5, <2>2, <2>3 DEF HandlerInv
  <2>5. roomVersions[room[c]] \in Nat
    BY <1>5 DEF Event, LogType
  <2> QED
    BY <1>2, <1>5, <2>1, <2>2, <2>4, <2>5
<1> QED
  BY <1>3, <1>4, <1>5, QueueGrowth

\* Appending a version greater than all the others keeps a queue strictly ascending.
LEMMA AppendAscending ==
  ASSUME NEW q \in Seq(Event), NEW e \in Event,
         \A i, j \in DOMAIN q : i < j => q[i].version < q[j].version,
         \A x \in Elems(q) : x.version < e.version
  PROVE  LET p == Append(q, e) IN
           \A i, j \in DOMAIN p : i < j => p[i].version < p[j].version
<1> DEFINE p == Append(q, e)
<1>1. /\ Len(q) \in Nat /\ DOMAIN q = 1..Len(q)
      /\ DOMAIN p = 1..Len(q) + 1
      /\ \A i \in 1..Len(q) : p[i] = q[i]
      /\ p[Len(q) + 1] = e
  BY LenProperties, AppendProperties
<1>2. \A i \in 1..Len(q) : q[i].version < e.version
  BY <1>1 DEF Elems
<1> HIDE DEF p
<1> SUFFICES ASSUME NEW i \in DOMAIN p, NEW j \in DOMAIN p, i < j
             PROVE  p[i].version < p[j].version
  BY DEF p
<1>3. i \in 1..Len(q)
  BY <1>1
<1>4. CASE j = Len(q) + 1
  BY <1>1, <1>2, <1>3, <1>4
<1>5. CASE j \in 1..Len(q)
  BY <1>1, <1>3, <1>5
<1> QED
  BY <1>1, <1>4, <1>5

LEMMA OrderStep == IInv /\ [Next]_vars => LiveOrder'
<1> SUFFICES ASSUME IInv, [Next]_vars, NEW c \in ClientIDs, resumeFrom'[c] = 0
             PROVE  \A i, j \in DOMAIN queued'[c] :
                      i < j => queued'[c][i].version < queued'[c][j].version
  BY DEF LiveOrder
<1> USE DEF IInv, TypeOK
<1>1. CASE queued'[c] = queued[c]
  <2>1. CASE handler[c] = "new"
    BY <1>1, <2>1 DEF HandlerInv
  <2>2. CASE handler[c] # "new"
    BY <1>1, <2>2, ConnectionKept DEF LiveOrder
  <2> QED
    BY <2>1, <2>2
<1>2. CASE handler[c] = "replay" /\ UNCHANGED resumeFrom
  BY <1>2 DEF HandlerInv
<1>3. ASSUME c \in targets, current \in Event, queued'[c] = Append(queued[c], current),
             UNCHANGED resumeFrom
      PROVE  \A i, j \in DOMAIN queued'[c] :
               i < j => queued'[c][i].version < queued'[c][j].version
  <2>1. queued[c] \in Seq(Event)
    BY DEF SendType
  <2>2. \A i, j \in DOMAIN queued[c] : i < j => queued[c][i].version < queued[c][j].version
    BY <1>3 DEF LiveOrder
  <2>3. \A x \in Elems(queued[c]) : x.version < current.version
    BY <1>3 DEF NewestPending
  <2> QED
    BY <1>3, <2>1, <2>2, <2>3, AppendAscending
<1> QED
  BY <1>1, <1>2, <1>3, QueueGrowth

LEMMA PendingStep == IInv /\ [Next]_vars => NewestPending'
<1> SUFFICES ASSUME IInv, [Next]_vars, NEW c \in targets', resumeFrom'[c] = 0,
                    NEW e \in Elems(queued'[c])
             PROVE  e.version < current'.version
  BY DEF NewestPending
<1> USE DEF IInv, TypeOK
<1>1. CASE RunBroadcast
  <2> DEFINE r == Head(broadcast)
  <2>1. r \in Rooms
    BY <1>1, ReceiveType DEF RunBroadcast, ChannelType
  <2>2. /\ targets' = rooms[r] /\ current'.version = roomVersions[r] + 1
        /\ UNCHANGED queued
    BY <1>1 DEF RunBroadcast
  <2>3. c \in ClientIDs /\ room[c] = r
    BY <2>1, <2>2 DEF RegistryConsistent, RegistryType
  <2>4. e.room = r /\ e.version <= roomVersions[r]
    BY <2>2, <2>3 DEF FeedIsOwnRoomsNews
  <2>5. e \in Event /\ roomVersions[r] \in Nat
    BY <2>1, <2>2, <2>3, ElementOfSeq, LenProperties DEF SendType, Elems, LogType
  <2> HIDE DEF r
  <2> QED
    BY <2>2, <2>4, <2>5 DEF Event
<1>2. CASE UNCHANGED <<targets, current>> \/ RunPublish \/ \E d \in ClientIDs : RunFanout(d)
  <2>1. c \in targets /\ current' = current
    BY <1>2 DEF RunPublish, RunFanout
  <2>2. c \in ClientIDs /\ handler[c] # "new"
    BY <2>1 DEF RunType, FanoutInv, RegistryConsistent, MembershipInv, Event
  <2>3. resumeFrom[c] = 0
    BY <2>2, ConnectionKept
  <2>4. handler[c] # "replay"
    BY <2>2, <2>3 DEF HandlerInv
  <2>5. queued'[c] = queued[c]
    BY <2>2, <2>4, QueueGrowth
  <2> QED
    BY <2>1, <2>3, <2>5 DEF NewestPending
<1> QED
  BY <1>1, <1>2
  DEF Next, Handler, Pumps, Run, vars, Accept, Register, FetchReplay, EnqueueReplay,
      ReadPumpMessage, HandleAIEvent, ReadPumpExit, WritePumpMessage, WritePumpClosed,
      WritePumpFail, RunRegister, RunUnregister

-----------------------------------------------------------------------------
(* The theorems.                                                           *)

LEMMA IInvInit == Init => IInv
<1> SUFFICES ASSUME Init PROVE IInv
  OBVIOUS
<1> USE DEF Init
<1>1. TypeOK
  <2>1. RegistryType /\ ChannelType /\ LogType
    BY CapacityAssumption DEF RegistryType, ChannelType, LogType
  <2>2. ConnType
    BY ShardAssumption DEF ConnType, Contract, NoContract
  <2>3. SendType
    BY EmptySeq DEF SendType
  <2>4. PumpType /\ RunType
    BY DEF PumpType, RunType
  <2> QED
    BY <2>1, <2>2, <2>3, <2>4 DEF TypeOK
<1>2. HistoryIsLogSuffix
  BY CapacityAssumption DEF HistoryIsLogSuffix
<1>3. RegistryConsistent /\ RunNeverPanics
  BY DEF RegistryConsistent, RunNeverPanics
<1>4. FeedIsOwnRoomsNews /\ LiveOrder /\ ReplayInv /\ NewestPending
  BY DEF FeedIsOwnRoomsNews, LiveOrder, ReplayInv, NewestPending, Elems
<1>5. HandlerInv /\ MembershipInv /\ FanoutInv
  BY DEF HandlerInv, MembershipInv, FanoutInv, Elems
<1> QED
  BY <1>1, <1>2, <1>3, <1>4, <1>5 DEF IInv

\* The inductive invariant: its parts hold together in every reachable state of the
\* node, whatever the order in which handlers, pumps and Run take their steps.
THEOREM Invariance == Spec => []IInv
<1>1. IInv /\ [Next]_vars => IInv'
  BY TypeOKStep, HistoryStep, RegistryStep, PanicStep, FeedStep, OrderStep, HandlerStep,
     MembershipStep, FanoutStep, ReplayStep, PendingStep DEF IInv
<1> QED
  BY IInvInit, <1>1, PTL DEF Spec

\* No step takes a variable out of its type; in particular the channels never hold
\* more than their capacity, and a pump never takes what was not queued.
THEOREM TypeCorrect == Spec => []TypeOK
BY Invariance, PTL DEF IInv

\* recordRoomEvent keeps, for any buffer size, exactly the newest versions in order.
THEOREM ReplayBufferIsExact == Spec => []HistoryIsLogSuffix
BY Invariance, PTL DEF IInv

\* addClient and removeClient keep the two registries in step.
THEOREM RegistriesAgree == Spec => []RegistryConsistent
BY Invariance, PTL DEF IInv

\* No order of registrations, evictions, disconnects and replays makes Run send on a
\* closed channel or close one twice: the node stays up.
THEOREM RunStaysUp == Spec => []RunNeverPanics
BY Invariance, PTL DEF IInv

\* Clients are sent recorded events of their own room that they did not claim to know.
THEOREM FeedIsSound == Spec => []FeedIsOwnRoomsNews
BY Invariance, PTL DEF IInv

\* A connection that does not resume never sees an event twice or out of order.
THEOREM LiveFeedIsOrdered == Spec => []LiveOrder
BY Invariance, PTL DEF IInv

LEMMA RemovalStep ==
  ASSUME IInv, [Next]_vars, NEW c \in ClientIDs, closed[c]
  PROVE  closed'[c] /\ queued'[c] = queued[c] /\ c \notin clients'
<1> USE DEF IInv, TypeOK
<1>1. c \notin clients /\ c \notin Elems(register)
  BY DEF MembershipInv
<1>2. CASE RunRegister
  <2>1. Head(register) \in Elems(register)
    BY <1>2, ElemsTail DEF RunRegister, ChannelType
  <2> QED
    BY <1>1, <1>2, <2>1 DEF RunRegister
<1>3. CASE RunUnregister
  BY <1>1, <1>3 DEF RunUnregister, RemoveClient, SendType
<1>4. ASSUME NEW d \in ClientIDs, EnqueueReplay(d)
      PROVE  closed'[c] /\ queued'[c] = queued[c] /\ c \notin clients'
  <2>1. UNCHANGED <<closed, clients>>
    BY <1>4 DEF EnqueueReplay
  <2>2. CASE UNCHANGED queued
    BY <1>1, <2>1, <2>2
  <2>3. ASSUME ~closed[d], NEW v \in replay[d], Enqueue(d, [room |-> room[d], version |-> v])
        PROVE  queued'[c] = queued[c]
    BY <2>3 DEF Enqueue, SendType
  <2> QED
    BY <1>1, <1>4, <2>1, <2>2, <2>3 DEF EnqueueReplay
<1>5. ASSUME NEW d \in ClientIDs, RunFanout(d)
      PROVE  closed'[c] /\ queued'[c] = queued[c] /\ c \notin clients'
  BY <1>1, <1>5 DEF RunFanout, Enqueue, SendType
<1>6. CASE UNCHANGED <<closed, clients, queued>>
  BY <1>1, <1>6
<1> QED
  BY <1>2, <1>3, <1>4, <1>5, <1>6
  DEF Next, Handler, Pumps, Run, vars, Accept, Register, FetchReplay,
      ReadPumpMessage, HandleAIEvent, ReadPumpExit, WritePumpMessage, WritePumpClosed,
      WritePumpFail, RunBroadcast, RunPublish

\* A removed client is never registered, fed or reopened again.
THEOREM RemovalIsForever == Spec => RemovalIsFinal
<1>1. IInv /\ [Next]_vars =>
        [\A c \in ClientIDs : closed[c] =>
           closed'[c] /\ queued'[c] = queued[c] /\ c \notin clients']_vars
  BY RemovalStep
<1> QED
  BY <1>1, Invariance, PTL DEF Spec, RemovalIsFinal

-----------------------------------------------------------------------------
(* Shards.                                                                 *)

\* A contract names the shard its room hashes to, and so does a connection.
ShardInv ==
  /\ \A s \in Sessions : stickySessions[s].room \in Rooms =>
       stickySessions[s].shard = ShardOf[stickySessions[s].room]
  /\ \A c \in ClientIDs : shard[c] = IF room[c] \in Rooms THEN ShardOf[room[c]] ELSE 0

LEMMA ShardStep == IInv /\ ShardInv /\ [Next]_vars => ShardInv'
<1> SUFFICES ASSUME IInv, ShardInv, [Next]_vars PROVE ShardInv'
  OBVIOUS
<1>1. ASSUME NEW c \in ClientIDs, NEW s \in Sessions, NEW r \in Rooms, NEW k \in 0..MaxVersion,
             Accept(c, s, r, k)
      PROVE  ShardInv'
  <2>1. StickyContract(s, r).room = r /\ StickyContract(s, r).shard = ShardOf[r]
    BY DEF StickyContract, ShardInv
  <2>2. /\ stickySessions' = [stickySessions EXCEPT ![s] = StickyContract(s, r)]
        /\ room' = [room EXCEPT ![c] = r]
        /\ shard' = [shard EXCEPT ![c] = StickyContract(s, r).shard]
    BY <1>1 DEF Accept
  <2> HIDE DEF StickyContract
  <2> QED
    BY <2>1, <2>2 DEF ShardInv, IInv, TypeOK, ConnType
<1>2. CASE UNCHANGED <<stickySessions, room, shard>>
  BY <1>2 DEF ShardInv
<1> QED
  BY <1>1, <1>2
  DEF Next, Handler, Pumps, Run, vars, Register, FetchReplay, EnqueueReplay,
      ReadPumpMessage, HandleAIEvent, ReadPumpExit, WritePumpMessage, WritePumpClosed,
      WritePumpFail, RunRegister, RunUnregister, RunBroadcast, RunFanout, RunPublish

\* Sticky contracts never split a room over two shards, whatever sessions do.
THEOREM OneShardPerRoom == Spec => []RoomOnOneShard
<1>1. Init => ShardInv
  BY RoomsAssumption DEF Init, ShardInv, NoContract
<1>2. IInv /\ ShardInv => RoomOnOneShard
  BY DEF ShardInv, RoomOnOneShard, IInv, TypeOK, ConnType
<1> QED
  BY <1>1, <1>2, ShardStep, Invariance, PTL DEF Spec

-----------------------------------------------------------------------------
(* The bus.                                                                *)

\* An event is recorded exactly when its version is one of its room's.
LEMMA RecordedEvents ==
  ASSUME TypeOK, NEW e \in Event
  PROVE  e \in Recorded <=> e.version > 0 /\ e.version <= roomVersions[e.room]
BY DEF Recorded, Event, TypeOK, LogType

LEMMA IdleIsNoEvent == Idle \notin Recorded
BY RoomsAssumption DEF Idle, Recorded

\* Recording an event adds it and nothing else; the bus is then one event behind, until
\* Run publishes it.
LEMMA BusStep == IInv /\ IInv' /\ BusMatchesLog /\ [Next]_vars => BusMatchesLog'
<1> SUFFICES ASSUME IInv, IInv', BusMatchesLog, [Next]_vars PROVE BusMatchesLog'
  OBVIOUS
<1> USE DEF IInv
<1>1. CASE RunBroadcast
  <2> DEFINE r == Head(broadcast)
  <2>1. r \in Rooms /\ roomVersions[r] \in Nat
    BY <1>1, ReceiveType DEF RunBroadcast, TypeOK, ChannelType, LogType
  <2>2. /\ roomVersions' = [roomVersions EXCEPT ![r] = roomVersions[r] + 1]
        /\ current' = [room |-> r, version |-> roomVersions[r] + 1]
        /\ published' = published /\ current = Idle
    BY <1>1 DEF RunBroadcast, AtSelect
  <2>3. Recorded' \ {current'} = Recorded
    <3>1. ASSUME NEW q \in Rooms, NEW v \in Nat, v > 0
          PROVE  /\ v <= roomVersions'[q] /\ [room |-> q, version |-> v] # current'
                     <=> v <= roomVersions[q]
      BY <2>1, <2>2, <3>1 DEF TypeOK, LogType
    <3>2. \A e : e \in Recorded => \E q \in Rooms, v \in Nat :
                    v > 0 /\ v <= roomVersions[q] /\ e = [room |-> q, version |-> v]
      BY DEF Recorded, TypeOK, LogType
    <3>3. \A e : e \in Recorded' => \E q \in Rooms, v \in Nat :
                    v > 0 /\ v <= roomVersions'[q] /\ e = [room |-> q, version |-> v]
      BY DEF Recorded, TypeOK, LogType
    <3>4. \A q \in Rooms, v \in Nat : v > 0 =>
            /\ v <= roomVersions[q] => [room |-> q, version |-> v] \in Recorded
            /\ v <= roomVersions'[q] => [room |-> q, version |-> v] \in Recorded'
      BY DEF Recorded, TypeOK, LogType
    <3> HIDE DEF Recorded
    <3> QED
      BY <3>1, <3>2, <3>3, <3>4
  <2> QED
    BY <2>2, <2>3, IdleIsNoEvent DEF BusMatchesLog
<1>2. CASE RunPublish
  <2>1. /\ current \in Event /\ current.version > 0
        /\ current.version = roomVersions[current.room]
    BY <1>2 DEF RunPublish, TypeOK, RunType, FanoutInv
  <2>2. roomVersions[current.room] \in Nat
    BY <2>1 DEF Event, TypeOK, LogType
  <2>3. current \in Recorded
    BY <2>1, <2>2, RecordedEvents
  <2>4. Recorded' = Recorded /\ current' = Idle
    BY <1>2 DEF RunPublish, Recorded
  <2>5. BusOutcomes = {"ok"} => published' = published \cup {current}
    BY <1>2 DEF RunPublish
  <2>6. published' \subseteq published \cup {current}
    BY <1>2 DEF RunPublish
  <2> QED
    BY <2>3, <2>4, <2>5, <2>6, IdleIsNoEvent DEF BusMatchesLog
<1>3. CASE UNCHANGED <<roomVersions, current, published>>
  BY <1>3 DEF BusMatchesLog, Recorded
<1> QED
  BY <1>1, <1>2, <1>3
  DEF Next, Handler, Pumps, Run, vars, Accept, Register, FetchReplay, EnqueueReplay,
      ReadPumpMessage, HandleAIEvent, ReadPumpExit, WritePumpMessage, WritePumpClosed,
      WritePumpFail, RunRegister, RunUnregister, RunFanout

\* The replay buffers and the bus agree with the log, and so with each other: a bus that
\* answers has every event fanned out, one that fails has none that was not recorded.
THEOREM LogsStayExact == Spec => []LogsAgree
<1>1. Init => BusMatchesLog
  BY DEF Init, BusMatchesLog, Recorded
<1>2. IInv => HistoryIsLogSuffix
  BY DEF IInv
<1> QED
  BY <1>1, <1>2, BusStep, Invariance, PTL DEF Spec, LogsAgree

\* The registries are right and the process lives.
THEOREM NodeStaysSound == Spec => []NodeIsSound
BY TypeCorrect, RegistriesAgree, OneShardPerRoom, RunStaysUp, PTL DEF NodeIsSound

\* Feeds have events of their own room, in order unless the connection resumes.
THEOREM FeedsStayOrdered == Spec => []FeedsAreOrdered
BY FeedIsSound, LiveFeedIsOrdered, PTL DEF FeedsAreOrdered

-----------------------------------------------------------------------------
(* Backpressure.                                                           *)

\* A step that evicts a slow client finds room in the unregister channel.
EvictionFindsRoom ==
  \A c \in ClientIDs :
    RunFanout(c) /\ ~SendHasRoom(c) => Len(unregister) < UnregisterBuffer

\* Nothing is queued for a connection that does not resume before it is registered.
SilentUntilRegistered ==
  \A c \in ClientIDs \ clients : resumeFrom[c] = 0 /\ ~closed[c] => queued[c] = <<>>

\* A registered client that is not about to be removed was sent, from its first event
\* on, every event but the one Run may still owe it.
NothingSkipped ==
  \A c \in clients :
    /\ resumeFrom[c] = 0 /\ c \notin Elems(unregister) /\ queued[c] # <<>>
    => Len(queued[c]) + (IF c \in targets THEN 1 ELSE 0)
         = roomVersions[room[c]] - queued[c][1].version + 1

LossInv == SilentUntilRegistered /\ NothingSkipped

\* A client that Run may still send to has not left.
LEMMA TargetsListen ==
  ASSUME IInv, NEW c \in targets
  PROVE  c \in ClientIDs /\ c \in clients /\ ~closed[c] /\ room[c] \in Rooms
BY DEF IInv, TypeOK, RunType, ConnType, FanoutInv, RegistryConsistent, MembershipInv,
       HandlerInv, Event

\* What an append does to the length and the first element of a queue.
LEMMA FirstOfAppend ==
  ASSUME NEW q \in Seq(Event), NEW e \in Event
  PROVE  /\ Append(q, e) # <<>> /\ Len(Append(q, e)) = Len(q) + 1 /\ Len(q) \in Nat
         /\ q = <<>> => Append(q, e)[1] = e /\ Len(q) = 0
         /\ q # <<>> => Append(q, e)[1] = q[1] /\ q[1] \in Event
<1>1. /\ Append(q, e) \in Seq(Event) /\ Len(Append(q, e)) = Len(q) + 1
      /\ Append(q, e)[Len(q) + 1] = e
      /\ \A i \in 1..Len(q) : Append(q, e)[i] = q[i]
  BY AppendProperties
<1>2. Len(q) \in Nat /\ (q = <<>> <=> Len(q) = 0)
  BY LenProperties, EmptySeq
<1>3. Append(q, e) # <<>>
  BY <1>1, <1>2, EmptySeq
<1>4. q # <<>> => 1 \in 1..Len(q) /\ q[1] \in Event
  BY <1>2, ElementOfSeq
<1> QED
  BY <1>1, <1>2, <1>3, <1>4

LEMMA FirstOfQueue ==
  ASSUME NEW q \in Seq(Event), q # <<>>
  PROVE  q[1] \in Event
<1>1. Len(q) \in Nat /\ Len(q) # 0
  BY LenProperties, EmptySeq
<1> QED
  BY <1>1, ElementOfSeq

\* Whoever is in a channel is taken from it next or stays in it.
LEMMA ElemsOfTail ==
  ASSUME NEW S, NEW s \in Seq(S), s # <<>>
  PROVE  Elems(s) \subseteq Elems(Tail(s)) \cup {Head(s)}
<1>1. /\ Len(s) \in Nat \ {0} /\ DOMAIN s = 1..Len(s)
      /\ Tail(s) \in Seq(S) /\ Len(Tail(s)) = Len(s) - 1
      /\ \A i \in 1..Len(Tail(s)) : Tail(s)[i] = s[i + 1]
      /\ Head(s) = s[1]
  BY LenProperties, HeadTailProperties, EmptySeq
<1>2. DOMAIN Tail(s) = 1..(Len(s) - 1)
  BY <1>1, LenProperties
<1>3. ASSUME NEW i \in 1..Len(s), i # 1 PROVE s[i] \in Elems(Tail(s))
  <2>1. i - 1 \in 1..(Len(s) - 1) /\ s[i] = Tail(s)[i - 1]
    BY <1>1, <1>3
  <2> QED
    BY <1>2, <2>1 DEF Elems
<1> QED
  BY <1>1, <1>3 DEF Elems

LEMMA SilentStep == IInv /\ SilentUntilRegistered /\ [Next]_vars => SilentUntilRegistered'
<1> SUFFICES ASSUME IInv, SilentUntilRegistered, [Next]_vars,
                    NEW c \in ClientIDs \ clients', resumeFrom'[c] = 0, ~closed'[c]
             PROVE  queued'[c] = <<>>
  BY DEF SilentUntilRegistered
<1> USE DEF IInv, TypeOK
<1>1. CASE handler[c] = "new"
  <2>1. queued[c] = <<>> /\ c \notin clients
    BY <1>1 DEF HandlerInv, MembershipInv
  <2>2. c \notin targets
    BY <2>1, TargetsListen
  <2> QED
    BY <1>1, <2>1, <2>2, QueueGrowth
<1>2. CASE handler[c] # "new"
  <2>1. resumeFrom[c] = 0
    BY <1>2, ConnectionKept
  <2>2. handler[c] # "replay"
    BY <2>1 DEF HandlerInv
  <2>3. c \notin clients /\ ~closed[c]
    <3>1. CASE RunUnregister
      BY <3>1 DEF RunUnregister, RemoveClient, SendType, MembershipInv
    <3>2. CASE RunRegister
      BY <3>2 DEF RunRegister
    <3>3. CASE UNCHANGED <<clients, closed>>
      BY <3>3
    <3> QED
      BY <3>1, <3>2, <3>3
      DEF Next, Handler, Pumps, Run, vars, Accept, Register, FetchReplay, EnqueueReplay,
          ReadPumpMessage, HandleAIEvent, ReadPumpExit, WritePumpMessage, WritePumpClosed,
          WritePumpFail, RunBroadcast, RunFanout, RunPublish
  <2>4. c \notin targets
    BY <2>3, TargetsListen
  <2> QED
    BY <2>1, <2>2, <2>3, <2>4, QueueGrowth DEF SilentUntilRegistered
<1> QED
  BY <1>1, <1>2

LEMMA SkipStep ==
  ASSUME IInv, LossInv, [EvictionFindsRoom]_vars, [Next]_vars
  PROVE  NothingSkipped'
<1> SUFFICES ASSUME NEW c \in clients', resumeFrom'[c] = 0, c \notin Elems(unregister'),
                    queued'[c] # <<>>
             PROVE  Len(queued'[c]) + (IF c \in targets' THEN 1 ELSE 0)
                      = roomVersions'[room'[c]] - queued'[c][1].version + 1
  BY DEF NothingSkipped
<1> USE DEF IInv, TypeOK, LossInv
<1> DEFINE Whole == Len(queued[c]) + (IF c \in targets THEN 1 ELSE 0)
                      = roomVersions[room[c]] - queued[c][1].version + 1
<1>1. ASSUME c \in clients, c \notin Elems(unregister), queued[c] # <<>>
      PROVE  Whole
  <2>1. handler[c] # "new" /\ c \in ClientIDs
    BY <1>1 DEF MembershipInv, RegistryType
  <2>2. resumeFrom[c] = 0
    BY <2>1, ConnectionKept
  <2> QED
    BY <1>1, <2>2 DEF NothingSkipped
<1> HIDE DEF Whole
<1>2. CASE RunRegister
  <2> DEFINE h == Head(register)
  <2>1. h \in ClientIDs /\ h \in Elems(register)
    BY <1>2, ReceiveType, ElemsTail DEF RunRegister, ChannelType
  <2>2. /\ clients' = clients \cup {h}
        /\ UNCHANGED <<queued, unregister, targets, roomVersions, room, resumeFrom>>
    BY <1>2 DEF RunRegister
  <2>3. h \notin clients /\ ~closed[h]
    BY <2>1 DEF MembershipInv
  <2>4. c # h
    BY <2>1, <2>2, <2>3 DEF SilentUntilRegistered
  <2> QED
    BY <1>1, <2>2, <2>4 DEF Whole
<1>3. CASE RunUnregister
  <2> DEFINE h == Head(unregister)
  <2>1. /\ unregister \in Seq(ClientIDs) /\ unregister # <<>> /\ unregister' = Tail(unregister)
        /\ UNCHANGED <<queued, targets, roomVersions, room, resumeFrom>>
    BY <1>3 DEF RunUnregister, ChannelType
  <2>2. c \in clients /\ c # h
    BY <1>3 DEF RunUnregister, RemoveClient
  <2>3. Elems(unregister) \subseteq Elems(Tail(unregister)) \cup {h}
    BY <2>1, ElemsOfTail
  <2> QED
    BY <1>1, <2>1, <2>2, <2>3 DEF Whole
<1>4. CASE RunBroadcast
  <2> DEFINE r == Head(broadcast)
  <2>1. r \in Rooms
    BY <1>4, ReceiveType DEF RunBroadcast, ChannelType
  <2>2. /\ targets = {} /\ targets' = rooms[r]
        /\ roomVersions' = [roomVersions EXCEPT ![r] = roomVersions[r] + 1]
        /\ UNCHANGED <<queued, clients, unregister, room, resumeFrom>>
    BY <1>4 DEF RunBroadcast, AtSelect, FanoutInv
  <2>3. c \in clients /\ c \in ClientIDs /\ room[c] \in Rooms
    BY <2>2 DEF RegistryType, MembershipInv, HandlerInv, ConnType
  <2>4. Whole
    BY <1>1, <2>2, <2>3
  <2>5. c \in targets' <=> room[c] = r
    BY <2>1, <2>2, <2>3 DEF RegistryConsistent
  <2>6. /\ queued[c] \in Seq(Event) /\ roomVersions[room[c]] \in Nat
        /\ roomVersions'[room[c]] = IF room[c] = r THEN roomVersions[room[c]] + 1
                                    ELSE roomVersions[room[c]]
    BY <2>1, <2>2, <2>3 DEF SendType, LogType
  <2>7. Len(queued[c]) \in Nat /\ queued[c][1].version \in Nat
    <3>1. queued[c] # <<>> /\ Len(queued[c]) \in Nat
      BY <2>2, <2>6, LenProperties
    <3>2. queued[c][1] \in Event
      BY <2>6, <3>1, FirstOfQueue
    <3> QED
      BY <3>1, <3>2 DEF Event
  <2>8. Len(queued[c]) = roomVersions[room[c]] - queued[c][1].version + 1
    BY <2>2, <2>4, <2>7 DEF Whole
  <2>9. Len(queued[c]) + (IF c \in targets' THEN 1 ELSE 0)
          = roomVersions'[room[c]] - queued[c][1].version + 1
    <3> DEFINE first == queued[c][1].version
               behind == roomVersions[room[c]]
    <3>1. Len(queued[c]) \in Nat /\ first \in Nat /\ behind \in Nat
      BY <2>6, <2>7
    <3>2. Len(queued[c]) = behind - first + 1
      BY <2>8
    <3>3. CASE room[c] = r
      <4>1. c \in targets' /\ roomVersions'[room[c]] = behind + 1
        BY <2>5, <2>6, <3>3
      <4>2. Len(queued[c]) + 1 = (behind + 1) - first + 1
        <5> HIDE DEF first, behind
        <5> QED
          BY ONLY <3>1, <3>2
      <4> QED
        BY <4>1, <4>2
    <3>4. CASE room[c] # r
      <4>1. c \notin targets' /\ roomVersions'[room[c]] = behind
        BY <2>5, <2>6, <3>4
      <4>2. Len(queued[c]) + 0 = behind - first + 1
        BY ONLY <3>1, <3>2
      <4> QED
        BY <4>1, <4>2
    <3> QED
      BY <3>3, <3>4
  <2> QED
    BY <2>2, <2>9
<1>5. ASSUME NEW d \in ClientIDs, RunFanout(d)
      PROVE  Len(queued'[c]) + (IF c \in targets' THEN 1 ELSE 0)
               = roomVersions'[room'[c]] - queued'[c][1].version + 1
  <2>1. /\ c \in clients /\ d \in targets /\ targets' = targets \ {d}
        /\ UNCHANGED <<clients, roomVersions, room, resumeFrom>>
    BY <1>5 DEF RunFanout
  <2>2. d \in clients /\ ~closed[d] /\ c \in ClientIDs
    BY <2>1, TargetsListen DEF RegistryType
  <2>3. CASE c # d
    <3>1. queued'[c] = queued[c]
      BY <1>5, <2>2, <2>3 DEF RunFanout, Enqueue, SendType
    <3>2. Elems(unregister) \subseteq Elems(unregister')
      <4>1. unregister \in Seq(ClientIDs) /\ d \in ClientIDs
        BY DEF ChannelType
      <4>2. Elems(unregister) \subseteq Elems(Append(unregister, d))
        BY <4>1, ElemsAppend
      <4> QED
        BY <1>5, <4>2 DEF RunFanout, EvictSlow
    <3> QED
      BY <1>1, <2>1, <2>3, <3>1, <3>2 DEF Whole
  <2>4. CASE c = d
    <3>1. SendHasRoom(d)
      <4> SUFFICES ASSUME ~SendHasRoom(d) PROVE FALSE
        OBVIOUS
      <4>1. unregister \in Seq(ClientIDs) /\ d \in ClientIDs
        BY DEF ChannelType
      <4>2. d \in Elems(Append(unregister, d))
        BY <4>1, ElemsAppend
      <4>3. EvictionFindsRoom
        <5>1. targets' # targets
          BY <2>1
        <5> QED
          BY <5>1 DEF vars
      <4>4. Len(unregister) < UnregisterBuffer
        BY <1>5, <4>3 DEF EvictionFindsRoom
      <4>5. unregister' = Append(unregister, d)
        BY <1>5, <2>2, <4>4 DEF RunFanout, EvictSlow
      <4> QED
        BY <2>4, <4>2, <4>5
    <3>2. queued' = [queued EXCEPT ![d] = Append(queued[d], current)] /\ unregister' = unregister
      BY <1>5, <2>2, <3>1 DEF RunFanout, Enqueue
    <3>3. queued'[c] = Append(queued[c], current) /\ queued[c] \in Seq(Event)
      BY <2>2, <2>4, <3>2 DEF SendType
    <3>4. /\ current \in Event /\ current.room = room[c]
          /\ current.version = roomVersions[room[c]] /\ current.version \in Nat
      BY <1>5, <2>1, <2>4 DEF FanoutInv, RunType, RegistryConsistent, Event
    <3>5. CASE queued[c] = <<>>
      BY <2>1, <2>4, <3>3, <3>4, <3>5, FirstOfAppend
    <3>6. CASE queued[c] # <<>>
      <4>1. Whole /\ c \in targets
        BY <1>1, <2>1, <2>4, <3>2, <3>6
      <4>2. /\ Len(queued'[c]) = Len(queued[c]) + 1 /\ queued'[c][1] = queued[c][1]
            /\ Len(queued[c]) \in Nat
        BY <3>3, <3>4, <3>6, FirstOfAppend
      <4> QED
        BY <2>1, <2>4, <4>1, <4>2 DEF Whole
    <3> QED
      BY <3>5, <3>6
  <2> QED
    BY <2>3, <2>4
<1>6. CASE /\ UNCHANGED <<clients, targets, roomVersions>>
           /\ Elems(unregister) \subseteq Elems(unregister')
  <2>1. c \in clients /\ c \in ClientIDs /\ handler[c] # "new"
    BY <1>6 DEF RegistryType, MembershipInv
  <2>2. resumeFrom[c] = 0 /\ room'[c] = room[c]
    BY <2>1, ConnectionKept
  <2>3. handler[c] # "replay"
    BY <2>1, <2>2 DEF HandlerInv
  <2>4. queued'[c] = queued[c]
    BY <1>6, <2>1, <2>3, QueueGrowth
  <2> QED
    BY <1>1, <1>6, <2>1, <2>2, <2>4 DEF Whole
<1>7. ASSUME NEW d \in ClientIDs, ReadPumpExit(d)
      PROVE  Elems(unregister) \subseteq Elems(unregister')
  BY <1>7, ElemsAppend DEF ReadPumpExit, ChannelType
<1> QED
  BY <1>2, <1>3, <1>4, <1>5, <1>6, <1>7
  DEF Next, Handler, Pumps, Run, vars, Accept, Register, FetchReplay, EnqueueReplay,
      ReadPumpMessage, HandleAIEvent, ReadPumpExit, WritePumpMessage, WritePumpClosed,
      WritePumpFail, RunPublish

\* As long as every eviction finds room in the unregister channel (broadcastToRoom forgets
\* one that does not), a live client that lost an event to backpressure is on its way out,
\* however slowly Run serves that channel.
THEOREM LossEvicts == Spec /\ [][EvictionFindsRoom]_vars => []LossLeadsToEviction
<1>1. Init => LossInv
  BY DEF Init, LossInv, SilentUntilRegistered, NothingSkipped
<1>2. IInv /\ LossInv /\ [EvictionFindsRoom]_vars /\ [Next]_vars => LossInv'
  BY SilentStep, SkipStep DEF LossInv
<1>3. IInv /\ LossInv => LossLeadsToEviction
  <2> SUFFICES ASSUME IInv, LossInv, NEW c \in clients, resumeFrom[c] = 0, LostEvent(c),
                      c \notin Elems(unregister)
               PROVE  FALSE
    BY DEF LossLeadsToEviction
  <2>1. c \in ClientIDs /\ queued[c] \in Seq(Event) /\ queued[c] # <<>> /\ c \notin targets
    BY DEF IInv, TypeOK, RegistryType, SendType, LostEvent
  <2>2. Len(queued[c]) + 0 = roomVersions[room[c]] - queued[c][1].version + 1
    BY <2>1 DEF LossInv, NothingSkipped
  <2>3. Len(queued[c]) \in Nat
    BY <2>1, LenProperties
  <2> QED
    BY <2>1, <2>2, <2>3 DEF LostEvent
<1> QED
  BY <1>1, <1>2, <1>3, Invariance, PTL DEF Spec

-----------------------------------------------------------------------------
(* The node implements RoomFeed.                                           *)

LEMMA RefinementStep == IInv /\ [Next]_vars => [Promise!FeedNext]_(Promise!feedVars)
<1> SUFFICES ASSUME IInv, [Next]_vars
             PROVE  Promise!FeedNext \/ UNCHANGED <<roomVersions, room, Audience, queued>>
  BY DEF Promise!feedVars
<1> USE DEF IInv, TypeOK
<1>1. ASSUME UNCHANGED <<clients, closed>> PROVE UNCHANGED Audience
  BY <1>1 DEF Audience
<1>2. ASSUME NEW c \in ClientIDs, NEW s \in Sessions, NEW r \in Rooms, NEW k \in 0..MaxVersion,
             Accept(c, s, r, k)
      PROVE  Promise!FeedNext
  <2>1. Promise!Attach(c, r)
    BY <1>1, <1>2 DEF Accept, HandlerInv, Promise!Attach
  <2> QED
    BY <2>1 DEF Promise!FeedNext
<1>3. ASSUME NEW c \in ClientIDs, EnqueueReplay(c)
      PROVE  Promise!FeedNext \/ UNCHANGED <<roomVersions, room, Audience, queued>>
  <2>1. UNCHANGED <<roomVersions, room, Audience>>
    BY <1>1, <1>3 DEF EnqueueReplay
  <2>2. CASE UNCHANGED queued
    BY <2>1, <2>2
  <2>3. ASSUME ~closed[c], NEW v \in replay[c], Enqueue(c, [room |-> room[c], version |-> v])
        PROVE  Promise!FeedNext
    <3>1. room[c] \in Rooms /\ v \in Nat /\ resumeFrom[c] \in Nat
      BY <1>3 DEF EnqueueReplay, HandlerInv, ConnType
    <3>2. v >= 1 /\ v <= roomVersions[room[c]] /\ roomVersions[room[c]] \in Nat
      BY <3>1 DEF ReplayInv, LogType
    <3>3. Audience[c] # "left"
      BY <2>3 DEF Audience
    <3>4. Promise!Feed(c, room[c], v)
      BY <2>1, <2>3, <3>2, <3>3 DEF Enqueue, Promise!Feed
    <3> QED
      BY <3>1, <3>2, <3>4 DEF Promise!FeedNext
  <2> QED
    BY <1>3, <2>2, <2>3 DEF EnqueueReplay
<1>4. CASE RunRegister
  <2> DEFINE c == Head(register)
  <2>1. c \in ClientIDs /\ c \in Elems(register)
    BY <1>4, ReceiveType, ElemsTail DEF RunRegister, ChannelType
  <2>2. c \notin clients /\ ~closed[c] /\ room[c] # NoRoom
    BY <2>1 DEF MembershipInv, HandlerInv
  <2>3. Audience' = [Audience EXCEPT ![c] = "listening"]
    BY <1>4, <2>1, <2>2 DEF RunRegister, Audience
  <2>4. Audience[c] = "waiting"
    BY <2>1, <2>2 DEF Audience
  <2>5. Promise!Enter(c)
    BY <1>4, <2>2, <2>3, <2>4 DEF RunRegister, Promise!Enter
  <2> QED
    BY <2>1, <2>5 DEF Promise!FeedNext
<1>5. CASE RunUnregister
  <2> DEFINE c == Head(unregister)
  <2>1. c \in ClientIDs
    BY <1>5, ReceiveType DEF RunUnregister, ChannelType
  <2>2. CASE c \notin clients
    BY <1>1, <1>5, <2>2 DEF RunUnregister, RemoveClient
  <2>3. CASE c \in clients
    <3>1. Audience' = [Audience EXCEPT ![c] = "left"]
      BY <1>5, <2>1, <2>3 DEF RunUnregister, RemoveClient, Audience, SendType
    <3>2. Audience[c] = "listening"
      BY <2>1, <2>3 DEF Audience, MembershipInv
    <3>3. Promise!Leave(c)
      BY <1>5, <3>1, <3>2 DEF RunUnregister, Promise!Leave
    <3> QED
      BY <2>1, <3>3 DEF Promise!FeedNext
  <2> QED
    BY <2>2, <2>3
<1>6. CASE RunBroadcast
  <2> DEFINE r == Head(broadcast)
  <2>1. r \in Rooms
    BY <1>6, ReceiveType DEF RunBroadcast, ChannelType
  <2>2. Promise!Append1(r)
    BY <1>1, <1>6 DEF RunBroadcast, Promise!Append1
  <2> QED
    BY <2>1, <2>2 DEF Promise!FeedNext
<1>7. ASSUME NEW c \in ClientIDs, RunFanout(c)
      PROVE  Promise!FeedNext \/ UNCHANGED <<roomVersions, room, Audience, queued>>
  <2>1. UNCHANGED <<roomVersions, room, Audience>>
    BY <1>1, <1>7 DEF RunFanout
  <2>2. CASE UNCHANGED queued
    BY <2>1, <2>2
  <2>3. CASE ~closed[c] /\ Enqueue(c, current)
    <3>1. c \in clients /\ room[c] \in Rooms /\ Audience[c] # "left"
      BY <1>7, <2>3, TargetsListen DEF RunFanout, Audience
    <3>2. /\ current \in Event /\ current.room = room[c]
          /\ current.version = roomVersions[room[c]] /\ current.version > 0
      BY <1>7 DEF RunFanout, FanoutInv, RunType, RegistryConsistent, Event
    <3>3. current = [room |-> room[c], version |-> current.version]
      BY <3>2 DEF Event
    <3>4. roomVersions[room[c]] \in Nat
      BY <3>1 DEF LogType
    <3>5. queued' = [queued EXCEPT ![c] =
                       Append(@, [room |-> room[c], version |-> current.version])]
      BY <2>3, <3>3 DEF Enqueue
    <3>6. current.version >= 1 /\ current.version <= roomVersions[room[c]]
      BY <3>2, <3>4
    <3>7. Promise!Feed(c, room[c], current.version)
      BY <2>1, <3>1, <3>5, <3>6 DEF Promise!Feed
    <3> QED
      BY <3>1, <3>2, <3>4, <3>6, <3>7 DEF Promise!FeedNext, Event
  <2> QED
    BY <1>7, <2>2, <2>3 DEF RunFanout
<1> QED
  BY <1>1, <1>2, <1>3, <1>4, <1>5, <1>6, <1>7
  DEF Next, Handler, Pumps, Run, vars, Register, FetchReplay, ReadPumpMessage,
      HandleAIEvent, ReadPumpExit, WritePumpMessage, WritePumpClosed, WritePumpFail,
      RunPublish

\* Every behaviour of the node is, seen through Audience, a behaviour of RoomFeed.
THEOREM NodeImplementsRoomFeed == Spec => ImplementsRoomFeed
<1>1. Init => Promise!FeedInit
  BY DEF Init, Promise!FeedInit, Audience
<1> QED
  BY <1>1, RefinementStep, Invariance, PTL DEF Spec, ImplementsRoomFeed, Promise!FeedSpec
=============================================================================
