--------------------------- MODULE RoomStreamProofs -------------------------
(***************************************************************************)
(* What the room stream gateway promises, for any number of processes,     *)
(* clients and rooms and any limits of the streams: conflict events and    *)
(* answers name what is stored, replays skip nothing, and the rooms that   *)
(* one process serves in order record every stale edit.                    *)
(***************************************************************************)
EXTENDS RoomStream, TLAPS, FiniteSetTheorems, SequenceTheorems, WellFoundedInduction

Thoughts  == {[type |-> "thought"]}
EditWork  == [type : {"edit"}, input : Inputs, conflictId : Nat,
              conflict : {<<>>} \cup (Nat \X Nat), stale : BOOLEAN]
Event     == Thoughts \cup EditWork
Sent      == [sent : Nat, event : Event]
LogEntry  == Thoughts \cup [type : {"conflict"}, winner : Nat, base : Nat]
               \cup [type : {"edit"}, input : Inputs, stale : BOOLEAN, conflictId : Nat]
Reply     == [status : {"accepted"}, id : Nat, conflict : Nat]

Types ==
  /\ stream \in [Rooms -> Seq(LogEntry)] /\ trimmed \in [Rooms -> Nat]
  /\ latest \in [Processes -> [Rooms -> Nat]]
  /\ phase \in [Sessions -> Phases] /\ link \in [Sessions -> Link \cup {NoLink}]
  /\ work \in [Sessions -> {NoWork} \cup Event \cup Sent]
  /\ reply \in [Sessions -> {NoReply} \cup Reply]
  /\ cursor \in [Sessions -> [Rooms -> Nat]]
  /\ keeper \in [Rooms -> Processes \cup {"none", "many"}]
  /\ \A s \in Sessions : phase[s] = "off" <=> link[s] = NoLink

Bounds ==
  \A room \in Rooms : /\ trimmed[room] <= Last(room)
                      /\ \A p \in Processes : latest[p][room] <= Last(room)

\* An edit that waits to be stored: the conflict event that it names is there.
ReadyEdit(w, log) ==
  w \in Event /\ (w.type = "edit" =>
    w.conflictId \in 0..Len(log) /\ (w.conflictId # 0 => log[w.conflictId].type = "conflict"))

\* An edit whose conflict event waits to be stored: its winner is there.
ClashingEdit(w, log) ==
  /\ w \in EditWork /\ w.conflictId = 0
  /\ w.conflict \in Nat \X Nat
  /\ w.conflict[1] \in 1..Len(log) /\ w.conflict[2] # w.conflict[1]

WorkFits(p, w, log) ==
  /\ p = "conflict" => ClashingEdit(w, log)
  /\ p = "append" => ReadyEdit(w, log)
  /\ p = "conflictSent" => /\ w \in Sent /\ ClashingEdit(w.event, log)
                           /\ w.sent \in 1..Len(log) /\ log[w.sent].type = "conflict"
  /\ p = "appendSent" => /\ w \in Sent /\ ReadyEdit(w.event, log)
                         /\ w.sent \in 1..Len(log) /\ log[w.sent] = Entry(w.event)
                         /\ w.event.type = "edit" => w.event.conflictId < w.sent
  /\ p \in {"off", "idle"} => w = NoWork

WorkInv == \A s \in Sessions : WorkFits(phase[s], work[s], stream[Room(s)])

\* A client that was answered is idle, and the answer names what is there.
ReplyFits(p, r, log) ==
  r.status = "accepted" =>
    /\ p = "idle" /\ r.id \in 0..Len(log) /\ r.conflict \in 0..Len(log)
    /\ r.id # 0 => log[r.id].type # "conflict"
    /\ r.conflict # 0 => log[r.conflict].type = "conflict"
    /\ r.id # 0 /\ r.conflict # 0 => r.conflict < r.id /\ log[r.id].conflictId = r.conflict

ReplyInv == \A s \in Sessions : ReplyFits(phase[s], reply[s], stream[Room(s)])

\* The edit under work in a room that is served in order: known is what its process remembers,
\* last the newest entry.
InOrder(p, w, known, last) ==
  /\ p \in {"conflict", "append"} => known = last
  /\ p \in {"conflictSent", "appendSent"} => w.sent = last
  /\ p = "conflict" => w.stale
  /\ p = "conflictSent" => w.event.stale
  /\ p = "append" /\ w.type = "edit" => (w.conflictId # 0 <=> w.stale)

BusyIn(room) == {s \in Sessions : phase[s] \in Busy /\ Room(s) = room}

Marked(log) == \A i \in 1..Len(log) : log[i].type = "edit" => (log[i].conflictId # 0 <=> log[i].stale)

KeptInOrder(room) ==
  /\ Marked(stream[room])
  /\ keeper[room] = "none" => Last(room) = 0 /\ BusyIn(room) = {}
  /\ keeper[room] # "none" =>
       /\ \A s, q \in BusyIn(room) : s = q
       /\ BusyIn(room) = {} => latest[keeper[room]][room] = Last(room)
       /\ \A s \in BusyIn(room) :
            /\ Home(s) = keeper[room]
            /\ InOrder(phase[s], work[s], latest[keeper[room]][room], Last(room))

OrderInv == \A room \in Rooms : keeper[room] # "many" => KeptInOrder(room)

NothingMissed == missed = [s \in Sessions |-> [room \in Rooms |-> {}]]

IInv == /\ Types /\ Bounds /\ WorkInv /\ ReplyInv
        /\ ConflictsNameTheirRoom /\ OrderInv /\ NothingMissed

-----------------------------------------------------------------------------
(* Sequences and sets of ids                                                 *)

LEMMA LogGrowth ==
  ASSUME NEW log \in Seq(LogEntry), NEW e \in LogEntry
  PROVE  /\ Append(log, e) \in Seq(LogEntry) /\ Len(log) \in Nat
         /\ Len(Append(log, e)) = Len(log) + 1 /\ Append(log, e)[Len(log) + 1] = e
         /\ \A i \in 1..Len(log) : Append(log, e)[i] = log[i]
BY AppendProperties, LenProperties

\* What was under work and what was answered stays right when a log grows.
LEMMA LogsKeep ==
  ASSUME NEW log \in Seq(LogEntry), NEW e \in LogEntry, NEW p, NEW w
  PROVE  /\ WorkFits(p, w, log) => WorkFits(p, w, Append(log, e))
         /\ ReplyFits(p, w, log) => ReplyFits(p, w, Append(log, e))
<1> DEFINE n == Len(log)
           more == Append(log, e)
<1>1. n \in Nat /\ Len(more) = n + 1 /\ \A i \in 1..n : more[i] = log[i]
  BY LogGrowth
<1>2. \A x : ReadyEdit(x, log) => ReadyEdit(x, more)
  <2> HIDE DEF more
  <2> QED
    BY <1>1 DEF ReadyEdit
<1>3. \A x : ClashingEdit(x, log) => ClashingEdit(x, more)
  <2> HIDE DEF more
  <2> QED
    BY <1>1 DEF ClashingEdit
<1>4. WorkFits(p, w, log) => WorkFits(p, w, more)
  <2> HIDE DEF more
  <2> QED
    BY <1>1, <1>2, <1>3 DEF WorkFits
<1>5. ReplyFits(p, w, log) => ReplyFits(p, w, more)
  <2> HIDE DEF more
  <2> QED
    BY <1>1 DEF ReplyFits
<1> QED
  BY <1>4, <1>5

\* A set of naturals below a bound has a greatest element.
LEMMA NewestExists ==
  ASSUME NEW n \in Nat, NEW ids, ids \subseteq 0..n, ids # {}
  PROVE  Newest(ids) \in ids /\ \A j \in ids : j <= Newest(ids)
<1> DEFINE back == {k \in 0..n : n - k \in ids}
<1>1. back \subseteq Nat /\ back # {}
  <2>1. PICK i \in ids : TRUE
    OBVIOUS
  <2>2. n - i \in 0..n /\ n - (n - i) = i
    OBVIOUS
  <2>3. n - i \in back
    BY <2>2
  <2>4. back \subseteq Nat
    OBVIOUS
  <2> QED
    BY <2>3, <2>4
<1>2. PICK x \in back : \A y \in back : ~ (<<y, x>> \in OpToRel(<, Nat))
  <2> HIDE DEF back
  <2> QED
    BY <1>1, NatLessThanWellFounded, WFMin
<1>3. \A y \in back : x <= y
  <2> SUFFICES ASSUME NEW y \in back, ~ (x <= y) PROVE FALSE
    OBVIOUS
  <2>1. x \in Nat /\ y \in Nat /\ y < x
    BY <1>1
  <2>2. <<y, x>> \in OpToRel(<, Nat)
    BY <2>1 DEF OpToRel
  <2> QED
    BY <1>2, <2>2
<1>4. \A j \in ids : j <= n - x
  <2> SUFFICES ASSUME NEW j \in ids PROVE j <= n - x
    OBVIOUS
  <2>1. n - j \in 0..n /\ n - (n - j) = j
    OBVIOUS
  <2>2. x <= n - j
    BY <1>3, <2>1
  <2> QED
    BY <2>1, <2>2
<1>5. n - x \in ids
  OBVIOUS
<1>6. \E i \in ids : \A j \in ids : j <= i
  BY <1>4, <1>5
<1> QED
  BY <1>6 DEF Newest

-----------------------------------------------------------------------------
LEMMA InitInv == Init => IInv
<1> SUFFICES ASSUME Init PROVE IInv
  OBVIOUS
<1>1. Types
  BY StreamAssumption DEF Init, Types, Phases
<1>2. Bounds
  BY DEF Init, Bounds, Last
<1>3. WorkInv /\ ReplyInv
  BY DEF Init, WorkInv, ReplyInv, WorkFits, ReplyFits, NoReply
<1>4. ConflictsNameTheirRoom
  BY DEF Init, ConflictsNameTheirRoom, Last
<1>5. OrderInv
  BY DEF Init, OrderInv, KeptInOrder, Marked, BusyIn, Busy, Last
<1>6. NothingMissed
  BY DEF Init, NothingMissed
<1> QED
  BY <1>1, <1>2, <1>3, <1>4, <1>5, <1>6 DEF IInv

-----------------------------------------------------------------------------
(* Replays                                                                   *)

\* A batch is an initial part of what is left after start, so nothing before its newest id is
\* left out.
LEMMA BatchIsInitial ==
  ASSUME Types, Bounds, NEW room \in Rooms, NEW start \in Nat,
         NEW batch \in {Batch(room, start), {}},
         NEW i \in (start + 1)..Newest(batch \cup {start}), i > trimmed[room]
  PROVE  i \in batch
<1> DEFINE ids == {k \in 1..Last(room) : k > start /\ k > trimmed[room]}
           before(k) == {j \in ids : j < k}
           m == Newest(batch \cup {start})
<1>1. Last(room) \in Nat
  BY LenProperties DEF Types, Last
<1>2. batch \subseteq ids
  BY DEF Batch
<1>3. m \in batch \cup {start} /\ \A j \in batch \cup {start} : j <= m
  <2>1. \A j \in batch \cup {start} : j \in 0..(Last(room) + start)
    BY <1>1, <1>2
  <2> QED
    BY <1>1, <2>1, NewestExists
<1>4. m \in batch
  BY <1>3
<1>5. batch = Batch(room, start)
  BY <1>4
<1>6. m \in ids /\ Cardinality(before(m)) < ReplayLimit
  BY <1>4, <1>5 DEF Batch
<1>7. i \in ids
  BY <1>1, <1>6 DEF Types
<1>8. before(i) \subseteq before(m) /\ IsFiniteSet(before(m))
  <2>1. IsFiniteSet(1..Last(room))
    BY <1>1, FS_Interval
  <2>2. before(m) \subseteq 1..Last(room) /\ before(i) \subseteq before(m)
    BY <1>1, <1>6, <1>7
  <2> QED
    BY <2>1, <2>2, FS_Subset
<1>9. Cardinality(before(i)) < ReplayLimit
  <2>1. /\ Cardinality(before(i)) <= Cardinality(before(m))
        /\ Cardinality(before(i)) \in Nat /\ Cardinality(before(m)) \in Nat
    BY <1>8, FS_Subset, FS_CardinalityType
  <2> QED
    BY <1>6, <2>1, StreamAssumption
<1> QED
  BY <1>5, <1>7, <1>9 DEF Batch

\* A client that resumes after what it has seen jumps over nothing.
LEMMA ConnectPreserves ==
  ASSUME IInv, NEW s \in Sessions, NEW target \in Link, Connect(s, target)
  PROVE  IInv'
<1> DEFINE room == target.room
           seen == cursor[s][room]
<1>1. /\ phase[s] = "off" /\ room \in Rooms /\ target.process \in Processes /\ target # NoLink
      /\ seen \in Nat
  BY StreamAssumption DEF Connect, Link, NoLink, IInv, Types
<1>2. /\ phase' = [phase EXCEPT ![s] = "idle"] /\ link' = [link EXCEPT ![s] = target]
      /\ UNCHANGED <<stream, trimmed, latest, work, reply, keeper>>
  BY DEF Connect
<1>3. PICK batch \in {Batch(room, seen), {}} :
        /\ cursor' = [cursor EXCEPT ![s][room] = Newest(batch \cup {seen})]
        /\ missed' = [missed EXCEPT ![s][room] =
             @ \cup {i \in (seen + 1)..Newest(batch \cup {seen}) :
                       i > trimmed[room] /\ i \notin batch}]
  BY <1>1, Zenon DEF Connect
<1>4. Newest(batch \cup {seen}) \in Nat
  <2>1. Last(room) \in Nat
    BY <1>1, LenProperties DEF IInv, Types, Last
  <2>2. batch \cup {seen} \subseteq 0..(Last(room) + seen)
    <3>1. Batch(room, seen) \subseteq 1..Last(room)
      BY DEF Batch
    <3>2. batch \subseteq 1..Last(room)
      BY <3>1
    <3>3. \A m, n \in Nat : 1..m \subseteq 0..(m + n) /\ n \in 0..(m + n)
      OBVIOUS
    <3> HIDE DEF room, seen
    <3>4. 1..Last(room) \subseteq 0..(Last(room) + seen) /\ seen \in 0..(Last(room) + seen)
      BY <1>1, <2>1, <3>3
    <3> QED
      BY <3>2, <3>4
  <2>3. Newest(batch \cup {seen}) \in batch \cup {seen}
    BY <1>1, <2>1, <2>2, NewestExists
  <2> QED
    BY <1>1, <2>1, <2>2, <2>3
<1>5. Types'
  BY <1>1, <1>2, <1>3, <1>4 DEF IInv, Types, Phases
<1>6. Bounds' /\ ConflictsNameTheirRoom'
  BY <1>2 DEF IInv, Bounds, ConflictsNameTheirRoom, Last
<1>7. work[s] = NoWork /\ reply[s].status # "accepted"
  BY <1>1 DEF IInv, WorkInv, WorkFits, ReplyInv, ReplyFits
<1>8. \A q \in Sessions : q # s => phase'[q] = phase[q] /\ link'[q] = link[q]
  BY <1>2 DEF IInv, Types
<1>9. phase'[s] = "idle" /\ link'[s] = target
  BY <1>2 DEF IInv, Types
<1>10. WorkInv'
  <2> SUFFICES ASSUME NEW q \in Sessions
               PROVE  WorkFits(phase'[q], work[q], stream[Room(q)'])
    BY <1>2 DEF WorkInv
  <2>1. CASE q = s
    BY <1>7, <1>9, <2>1 DEF WorkFits
  <2>2. CASE q # s
    BY <1>8, <2>2 DEF IInv, WorkInv, Room
  <2> QED
    BY <2>1, <2>2
<1>11. ReplyInv'
  <2> SUFFICES ASSUME NEW q \in Sessions
               PROVE  ReplyFits(phase'[q], reply[q], stream[Room(q)'])
    BY <1>2 DEF ReplyInv
  <2>1. CASE q = s
    BY <1>7, <2>1 DEF ReplyFits
  <2>2. CASE q # s
    BY <1>8, <2>2 DEF IInv, ReplyInv, Room
  <2> QED
    BY <2>1, <2>2
<1>12. OrderInv'
  <2>1. \A q \in Sessions : /\ phase'[q] \in Busy <=> phase[q] \in Busy
                            /\ phase[q] \in Busy => phase'[q] = phase[q] /\ link'[q] = link[q]
    BY <1>1, <1>8, <1>9 DEF Busy
  <2>2. \A r : BusyIn(r)' = BusyIn(r)
    BY <2>1 DEF BusyIn, Room
  <2>3. \A r : \A q \in BusyIn(r) : phase'[q] = phase[q] /\ Home(q)' = Home(q)
    BY <2>1 DEF BusyIn, Home
  <2> QED
    BY <1>2, <2>2, <2>3 DEF IInv, OrderInv, KeptInOrder, Last
<1>13. NothingMissed'
  <2>1. \A i \in (seen + 1)..Newest(batch \cup {seen}) : i > trimmed[room] => i \in batch
    BY <1>1, BatchIsInitial DEF IInv
  <2>2. {i \in (seen + 1)..Newest(batch \cup {seen}) : i > trimmed[room] /\ i \notin batch} = {}
    BY <2>1
  <2>3. missed' = [missed EXCEPT ![s][room] = @ \cup {}]
    BY <1>3, <2>2
  <2> QED
    BY <1>1, <2>3 DEF IInv, NothingMissed
<1> QED
  BY <1>5, <1>6, <1>10, <1>11, <1>12, <1>13 DEF IInv

LEMMA LeavePreserves ==
  ASSUME IInv, NEW s \in Sessions, Leave(s)
  PROVE  IInv'
<1>1. /\ phase[s] = "idle" /\ phase' = [phase EXCEPT ![s] = "off"]
      /\ link' = [link EXCEPT ![s] = NoLink] /\ reply' = [reply EXCEPT ![s] = NoReply]
      /\ UNCHANGED <<stream, trimmed, latest, work, cursor, missed, keeper>>
  BY DEF Leave, history
<1>2. Types'
  BY <1>1 DEF IInv, Types, Phases
<1>3. Bounds' /\ ConflictsNameTheirRoom' /\ NothingMissed'
  BY <1>1 DEF IInv, Bounds, ConflictsNameTheirRoom, NothingMissed, Last
<1>4. \A q \in Sessions : q # s => phase'[q] = phase[q] /\ link'[q] = link[q] /\ reply'[q] = reply[q]
  BY <1>1 DEF IInv, Types
<1>5. phase'[s] = "off" /\ reply'[s] = NoReply /\ work[s] = NoWork
  BY <1>1 DEF IInv, Types, WorkInv, WorkFits
<1>6. WorkInv'
  <2> SUFFICES ASSUME NEW q \in Sessions
               PROVE  WorkFits(phase'[q], work[q], stream[Room(q)'])
    BY <1>1 DEF WorkInv
  <2>1. CASE q = s
    BY <1>5, <2>1 DEF WorkFits
  <2>2. CASE q # s
    BY <1>4, <2>2 DEF IInv, WorkInv, Room
  <2> QED
    BY <2>1, <2>2
<1>7. ReplyInv'
  <2> SUFFICES ASSUME NEW q \in Sessions
               PROVE  ReplyFits(phase'[q], reply'[q], stream[Room(q)'])
    BY <1>1 DEF ReplyInv
  <2>1. CASE q = s
    BY <1>5, <2>1 DEF ReplyFits, NoReply
  <2>2. CASE q # s
    BY <1>4, <2>2 DEF IInv, ReplyInv, Room
  <2> QED
    BY <2>1, <2>2
<1>8. OrderInv'
  <2>1. \A q \in Sessions : /\ phase'[q] \in Busy <=> phase[q] \in Busy
                            /\ phase[q] \in Busy => phase'[q] = phase[q] /\ link'[q] = link[q]
    BY <1>1, <1>4, <1>5 DEF Busy
  <2>2. \A r : BusyIn(r)' = BusyIn(r)
    BY <2>1 DEF BusyIn, Room
  <2>3. \A r : \A q \in BusyIn(r) : phase'[q] = phase[q] /\ Home(q)' = Home(q)
    BY <2>1 DEF BusyIn, Home
  <2> QED
    BY <1>1, <2>2, <2>3 DEF IInv, OrderInv, KeptInOrder, Last
<1> QED
  BY <1>2, <1>3, <1>6, <1>7, <1>8 DEF IInv

\* An idle session takes an edit or a thought to work on.
LEMMA TakeWork ==
  ASSUME IInv, NEW s \in Sessions, phase[s] = "idle",
         NEW p \in {"conflict", "append"}, NEW w \in Event,
         WorkFits(p, w, stream[Room(s)]),
         latest[Home(s)][Room(s)] = Last(Room(s)) => InOrder(p, w, Last(Room(s)), Last(Room(s))),
         phase' = [phase EXCEPT ![s] = p], work' = [work EXCEPT ![s] = w],
         reply' = [reply EXCEPT ![s] = NoReply], NoteKeeper(s),
         UNCHANGED <<stream, trimmed, latest, link, cursor, missed>>
  PROVE  IInv'
<1> DEFINE room == Room(s)
           home == Home(s)
<1>1. room \in Rooms /\ home \in Processes
  BY StreamAssumption DEF IInv, Types, Link, NoLink, Room, Home
<1>2. keeper' = [keeper EXCEPT ![room] =
        IF Free(room) /\ @ \in {"none", home} THEN home ELSE "many"]
  BY DEF NoteKeeper
<1>3. Types'
  BY <1>1, <1>2 DEF IInv, Types, Phases
<1>4. Bounds' /\ ConflictsNameTheirRoom' /\ NothingMissed'
  BY DEF IInv, Bounds, ConflictsNameTheirRoom, NothingMissed, Last
<1>5. \A q \in Sessions : q # s => phase'[q] = phase[q] /\ work'[q] = work[q] /\ reply'[q] = reply[q]
  BY DEF IInv, Types
<1>6. phase'[s] = p /\ work'[s] = w /\ reply'[s] = NoReply
  BY DEF IInv, Types
<1>7. WorkInv'
  BY <1>5, <1>6 DEF IInv, WorkInv, Room
<1>8. ReplyInv'
  <2>1. \A x, log : ReplyFits(x, NoReply, log)
    BY DEF ReplyFits, NoReply
  <2> QED
    BY <1>5, <1>6, <2>1 DEF IInv, ReplyInv, Room
<1>9. OrderInv'
  <2> SUFFICES ASSUME NEW r \in Rooms, keeper'[r] # "many" PROVE KeptInOrder(r)'
    BY DEF OrderInv
  <2>1. s \in BusyIn(r)' <=> r = room
    BY <1>6 DEF BusyIn, Busy, Phases, Room
  <2>2. s \notin BusyIn(r)
    BY DEF BusyIn, Busy
  <2>3. \A q \in Sessions : q # s => (q \in BusyIn(r)' <=> q \in BusyIn(r))
    BY <1>5 DEF BusyIn, Room
  <2>4. CASE r # room
    <3>1. keeper'[r] = keeper[r] /\ KeptInOrder(r)
      BY <1>2, <2>4 DEF IInv, Types, OrderInv
    <3>2. BusyIn(r)' = BusyIn(r)
      BY <2>1, <2>2, <2>3, <2>4 DEF BusyIn
    <3>3. \A q \in BusyIn(r) : phase'[q] = phase[q] /\ work'[q] = work[q] /\ Home(q)' = Home(q)
      BY <1>5, <2>2 DEF BusyIn, Home
    <3> QED
      BY <3>1, <3>2, <3>3 DEF KeptInOrder, Last
  <2>5. CASE r = room
    <3>1. Free(room) /\ keeper[room] \in {"none", home} /\ keeper'[room] = home
      BY <1>1, <1>2, <2>5 DEF IInv, Types
    <3>2. BusyIn(r)' = {s}
      BY <2>1, <2>3, <2>5, <3>1 DEF BusyIn, Free
    <3>3. BusyIn(room) = {}
      BY <3>1 DEF BusyIn, Free
    <3>4. home # "none" /\ home # "many"
      BY <1>1, StreamAssumption
    <3>5. KeptInOrder(room)
      BY <1>1, <3>1, <3>4 DEF IInv, OrderInv
    <3>6. latest[home][room] = Last(room)
      <4>1. CASE keeper[room] = "none"
        <5>1. Last(room) = 0 /\ latest[home][room] <= 0 /\ latest[home][room] \in Nat
          BY <1>1, <3>5, <4>1 DEF KeptInOrder, IInv, Bounds, Types
        <5> QED
          BY <5>1
      <4>2. CASE keeper[room] = home
        BY <3>3, <3>4, <3>5, <4>2 DEF KeptInOrder
      <4> QED
        BY <3>1, <4>1, <4>2
    <3>7. InOrder(p, w, latest[home][room], Last(room))
      BY <3>6
    <3>8. Home(s)' = home /\ Last(r)' = Last(room)
      BY <2>5 DEF Home, Last
    <3> QED
      BY <1>6, <2>5, <3>1, <3>2, <3>4, <3>5, <3>7, <3>8 DEF KeptInOrder
  <2> QED
    BY <2>4, <2>5
<1> QED
  BY <1>3, <1>4, <1>7, <1>8, <1>9 DEF IInv

LEMMA ReceiveEditPreserves ==
  ASSUME IInv, NEW s \in Sessions, ReceiveEdit(s)
  PROVE  IInv'
<1>1. PICK input \in Inputs, base \in Bases(Room(s)) : Reject(s, input) \/ Accept(s, input, base)
  BY DEF ReceiveEdit
<1>2. phase[s] = "idle" /\ UNCHANGED <<stream, trimmed, latest, link, cursor, missed>>
  BY DEF ReceiveEdit
<1>3. CASE Reject(s, input)
  <2>1. /\ reply' = [reply EXCEPT ![s] = NoReply]
        /\ UNCHANGED <<phase, work, keeper>>
    BY <1>3 DEF Reject
  <2>2. Types'
    BY <1>2, <2>1 DEF IInv, Types
  <2>3. ReplyInv'
    <3>1. \A x, log : ReplyFits(x, NoReply, log)
      BY DEF ReplyFits, NoReply
    <3>2. \A q \in Sessions : reply'[q] = IF q = s THEN NoReply ELSE reply[q]
      BY <2>1 DEF IInv, Types
    <3> QED
      BY <1>2, <2>1, <3>1, <3>2 DEF IInv, ReplyInv, Room
  <2> QED
    BY <1>2, <2>1, <2>2, <2>3 DEF IInv, Bounds, WorkInv, ConflictsNameTheirRoom, OrderInv,
      KeptInOrder, BusyIn, NothingMissed, Last, Room, Home
<1>4. CASE Accept(s, input, base)
  <2> DEFINE room  == Room(s)
             known == latest[Home(s)][room]
             stale == Stale(base, s)
             w     == [type |-> "edit", input |-> input, conflictId |-> 0,
                       conflict |-> IF stale THEN <<known, base>> ELSE <<>>,
                       stale |-> base # 0 /\ base # Last(room)]
             p     == IF stale THEN "conflict" ELSE "append"
  <2>1. room \in Rooms /\ Home(s) \in Processes
    BY <1>2, StreamAssumption DEF IInv, Types, Link, NoLink, Room, Home
  <2>2. /\ known \in Nat /\ Last(room) \in Nat /\ known <= Last(room) /\ base \in 0..Last(room)
        /\ stale <=> base # 0 /\ known # 0 /\ base # known
    BY <2>1, LenProperties DEF IInv, Types, Bounds, Last, Bases, Stale
  <2>3. stale \in BOOLEAN
    BY DEF Stale
  <2> HIDE DEF stale, known
  <2>4. w \in EditWork
    BY <2>2, <2>3 DEF EditWork
  <2>5. WorkFits(p, w, stream[room])
    <3>1. CASE stale
      BY <2>2, <2>4, <3>1 DEF WorkFits, ClashingEdit, Last
    <3>2. CASE ~stale
      BY <2>2, <2>4, <3>2 DEF WorkFits, ReadyEdit, Event, Last
    <3> QED
      BY <2>3, <3>1, <3>2
  <2>6. known = Last(room) => InOrder(p, w, Last(room), Last(room))
    BY <2>2, <2>3 DEF InOrder
  <2>7. /\ phase' = [phase EXCEPT ![s] = p] /\ work' = [work EXCEPT ![s] = w]
        /\ reply' = [reply EXCEPT ![s] = NoReply] /\ NoteKeeper(s)
    BY <1>4 DEF Accept, stale, known
  <2>8. p \in {"conflict", "append"} /\ w \in Event
    BY <2>4 DEF Event
  <2> HIDE DEF p, w
  <2> QED
    BY <1>2, <2>5, <2>6, <2>7, <2>8, TakeWork DEF known
<1> QED
  BY <1>1, <1>3, <1>4

LEMMA ReceiveThoughtPreserves ==
  ASSUME IInv, NEW s \in Sessions, ReceiveThought(s)
  PROVE  IInv'
<1> DEFINE w == [type |-> "thought"]
<1>1. /\ phase[s] = "idle" /\ phase' = [phase EXCEPT ![s] = "append"]
      /\ work' = [work EXCEPT ![s] = w] /\ reply' = [reply EXCEPT ![s] = NoReply]
      /\ NoteKeeper(s) /\ UNCHANGED <<stream, trimmed, latest, link, cursor, missed>>
  BY DEF ReceiveThought
<1>2. w \in Event /\ WorkFits("append", w, stream[Room(s)])
  BY DEF Event, Thoughts, WorkFits, ReadyEdit
<1>3. InOrder("append", w, Last(Room(s)), Last(Room(s)))
  BY DEF InOrder
<1> HIDE DEF w
<1> QED
  BY <1>1, <1>2, <1>3, TakeWork

-----------------------------------------------------------------------------
(* Appends                                                                   *)

\* The entry made of a fitting event is an entry of the log.
LEMMA EntryType ==
  /\ \A w \in EditWork : w.conflict \in Nat \X Nat => Conflict(w) \in LogEntry
  /\ \A w \in Event : Entry(w) \in LogEntry /\ (w.type = "edit" => w \in EditWork)
  /\ \A w \in EditWork : w \in Event /\ w.type = "edit"
BY DEF EditWork, Event, Thoughts, Conflict, Entry, LogEntry

LEMMA StorePreserves ==
  ASSUME IInv, NEW s \in Sessions, Store(s)
  PROVE  IInv'
<1> DEFINE room  == Room(s)
           log   == stream[room]
           w     == work[s]
           entry == IF phase[s] = "conflict" THEN Conflict(w) ELSE Entry(w)
           next  == IF phase[s] = "conflict" THEN "conflictSent" ELSE "appendSent"
           job   == [sent |-> Len(log) + 1, event |-> w]
<1>1. /\ phase[s] \in {"conflict", "append"} /\ stream' = [stream EXCEPT ![room] = Append(log, entry)]
      /\ phase' = [phase EXCEPT ![s] = next] /\ UNCHANGED <<latest, link, reply, cursor, missed, keeper>>
  BY DEF Store, history
<1>2. room \in Rooms /\ Home(s) \in Processes
  BY <1>1, StreamAssumption DEF IInv, Types, Link, NoLink, Room, Home
<1>3. log \in Seq(LogEntry) /\ Len(log) \in Nat
  BY <1>2, LenProperties DEF IInv, Types
<1>4. WorkFits(phase[s], w, log)
  BY DEF IInv, WorkInv
<1>5. /\ phase[s] = "conflict" => ClashingEdit(w, log)
      /\ phase[s] = "append" => ReadyEdit(w, log)
      /\ w \in Event
  BY <1>1, <1>4, EntryType DEF WorkFits, ClashingEdit, ReadyEdit
<1>6. entry \in LogEntry
  BY <1>1, <1>5, EntryType DEF ClashingEdit
<1>7. /\ stream'[room] = Append(log, entry) /\ Len(stream'[room]) = Len(log) + 1
      /\ stream'[room][Len(log) + 1] = entry /\ stream'[room] \in Seq(LogEntry)
      /\ \A i \in 1..Len(log) : stream'[room][i] = log[i]
      /\ \A r \in Rooms : r # room => stream'[r] = stream[r]
  <2>1. stream'[room] = Append(log, entry) /\ \A r \in Rooms : r # room => stream'[r] = stream[r]
    BY <1>1, <1>2 DEF IInv, Types
  <2> HIDE DEF entry, log
  <2> QED
    BY <2>1, <1>3, <1>6, LogGrowth
<1>8. work' = [work EXCEPT ![s] = job]
  BY <1>7 DEF Store
<1>9. job \in Sent
  BY <1>3, <1>5 DEF Sent
<1>10. /\ trimmed' \in [Rooms -> Nat]
       /\ \A r \in Rooms : trimmed'[r] <= Len(stream'[r])
  <2>1. PICK n \in trimmed[room]..Len(stream'[room]) : trimmed' = [trimmed EXCEPT ![room] = n]
    BY DEF Store
  <2>2. trimmed[room] \in Nat /\ Len(stream'[room]) \in Nat
    BY <1>2, <1>3, <1>7 DEF IInv, Types
  <2>3. n \in Nat /\ n <= Len(stream'[room])
    BY <2>2
  <2>4. \A r \in Rooms : r # room => trimmed'[r] = trimmed[r]
    BY <2>1 DEF IInv, Types
  <2>5. trimmed'[room] = n /\ trimmed' \in [Rooms -> Nat]
    BY <1>2, <2>1, <2>3 DEF IInv, Types
  <2> QED
    BY <1>7, <2>3, <2>4, <2>5 DEF IInv, Bounds, Last
<1> HIDE DEF entry, job, log, w
<1>11. Types'
  <2>1. stream' \in [Rooms -> Seq(LogEntry)]
    BY <1>1, <1>2, <1>7 DEF IInv, Types
  <2>2. phase' \in [Sessions -> Phases] /\ work' \in [Sessions -> {NoWork} \cup Event \cup Sent]
    BY <1>1, <1>8, <1>9 DEF IInv, Types, Phases
  <2>3. \A q \in Sessions : phase'[q] = "off" <=> link'[q] = NoLink
    BY <1>1 DEF IInv, Types
  <2> QED
    BY <1>1, <1>10, <2>1, <2>2, <2>3 DEF IInv, Types
<1>12. Bounds'
  <2>1. \A r \in Rooms : Len(stream[r]) <= Len(stream'[r]) /\ Len(stream[r]) \in Nat /\ Len(stream'[r]) \in Nat
    <3>1. \A r \in Rooms : Len(stream[r]) \in Nat /\ Len(stream'[r]) \in Nat
      BY <1>11, LenProperties DEF IInv, Types
    <3>2. Len(stream'[room]) = Len(stream[room]) + 1 /\ \A r \in Rooms : r # room => stream'[r] = stream[r]
      BY <1>7 DEF log
    <3> HIDE DEF room
    <3> QED
      BY <1>2, <3>1, <3>2
  <2> QED
    BY <1>1, <1>10, <2>1 DEF IInv, Bounds, Types, Last
<1>13. \A q \in Sessions : q # s => phase'[q] = phase[q] /\ work'[q] = work[q]
  BY <1>1, <1>8 DEF IInv, Types
<1>14. phase'[s] = next /\ work'[s] = job
  BY <1>1, <1>8 DEF IInv, Types
<1>15. \A q \in Sessions : \A p, x :
         /\ WorkFits(p, x, stream[Room(q)]) => WorkFits(p, x, stream'[Room(q)])
         /\ ReplyFits(p, x, stream[Room(q)]) => ReplyFits(p, x, stream'[Room(q)])
  <2> SUFFICES ASSUME NEW q \in Sessions, NEW p, NEW x
               PROVE  /\ WorkFits(p, x, stream[Room(q)]) => WorkFits(p, x, stream'[Room(q)])
                      /\ ReplyFits(p, x, stream[Room(q)]) => ReplyFits(p, x, stream'[Room(q)])
    OBVIOUS
  <2>1. CASE Room(q) = room
    BY <1>3, <1>6, <1>7, <2>1, LogsKeep DEF log
  <2>2. CASE Room(q) # room
    <3>1. stream'[Room(q)] = stream[Room(q)]
      BY <1>1, <2>2 DEF IInv, Types
    <3> QED
      BY <3>1
  <2> QED
    BY <2>1, <2>2
<1>16. WorkFits(next, job, stream'[room])
  <2>1. job.sent = Len(log) + 1 /\ job.event = w /\ job.sent \in 1..Len(stream'[room])
    BY <1>3, <1>7 DEF job
  <2>2. stream'[room][job.sent] = entry
    BY <1>7, <2>1
  <2>3. CASE phase[s] = "conflict"
    <3>1. WorkFits("conflict", w, stream'[room])
      BY <1>4, <1>15, <2>3 DEF log
    <3>2. entry.type = "conflict"
      BY <2>3 DEF entry, Conflict
    <3> QED
      BY <1>9, <2>1, <2>2, <2>3, <3>1, <3>2 DEF WorkFits
  <2>4. CASE phase[s] = "append"
    <3>1. WorkFits("append", w, stream'[room])
      BY <1>4, <1>15, <2>4 DEF log
    <3>2. entry = Entry(w)
      BY <2>4 DEF entry
    <3>3. w.type = "edit" => w.conflictId < Len(log) + 1
      BY <1>3, <1>5, <2>4 DEF ReadyEdit
    <3> QED
      BY <1>9, <2>1, <2>2, <2>4, <3>1, <3>2, <3>3 DEF WorkFits
  <2> QED
    BY <1>1, <2>3, <2>4
<1>17. WorkInv' /\ ReplyInv'
  <2>1. ~ reply[s].status = "accepted"
    BY <1>1 DEF IInv, ReplyInv, ReplyFits
  <2>2. ASSUME NEW q \in Sessions
        PROVE  WorkFits(phase'[q], work'[q], stream'[Room(q)])
    <3>1. CASE q = s
      BY <1>14, <1>16, <3>1
    <3>2. CASE q # s
      BY <1>13, <1>15, <3>2 DEF IInv, WorkInv
    <3> QED
      BY <3>1, <3>2
  <2>3. ASSUME NEW q \in Sessions
        PROVE  ReplyFits(phase'[q], reply[q], stream'[Room(q)])
    <3>1. CASE q = s
      BY <2>1, <3>1 DEF ReplyFits
    <3>2. CASE q # s
      BY <1>13, <1>15, <3>2 DEF IInv, ReplyInv
    <3> QED
      BY <3>1, <3>2
  <2>4. \A q \in Sessions : Room(q)' = Room(q)
    BY <1>1 DEF Room
  <2> QED
    BY <1>1, <2>2, <2>3, <2>4 DEF WorkInv, ReplyInv
<1>18. ConflictsNameTheirRoom'
  <2> SUFFICES ASSUME NEW r \in Rooms, NEW i \in 1..Len(stream'[r]), stream'[r][i].type = "conflict"
               PROVE  /\ stream'[r][i].winner \in 1..(i - 1)
                      /\ stream'[r][i].base # stream'[r][i].winner
    BY DEF ConflictsNameTheirRoom, Last
  <2>1. CASE r = room /\ i = Len(log) + 1
    <3>1. stream'[r][i] = entry
      BY <1>7, <2>1
    <3>2. phase[s] = "conflict"
      <4>1. CASE phase[s] = "append"
        <5>1. Entry(w).type # "conflict"
          BY <1>5 DEF Entry, Event, Thoughts, EditWork
        <5> QED
          BY <2>1, <3>1, <4>1, <5>1 DEF entry
      <4> QED
        BY <1>1, <4>1
    <3>3. entry = Conflict(w) /\ ClashingEdit(w, log)
      BY <1>5, <3>2 DEF entry
    <3> QED
      BY <1>3, <2>1, <3>1, <3>3 DEF ClashingEdit, Conflict
  <2>2. CASE r # room \/ i # Len(log) + 1
    <3>1. i \in 1..Len(stream[r]) /\ stream'[r][i] = stream[r][i]
      BY <1>3, <1>7, <2>2 DEF log
    <3> QED
      BY <3>1 DEF IInv, ConflictsNameTheirRoom, Last
  <2> QED
    BY <2>1, <2>2
<1>19. OrderInv'
  <2> SUFFICES ASSUME NEW r \in Rooms, keeper[r] # "many" PROVE KeptInOrder(r)'
    BY <1>1 DEF OrderInv
  <2>1. KeptInOrder(r)
    BY DEF IInv, OrderInv
  <2>2. BusyIn(r)' = BusyIn(r)
    <3>1. \A q \in Sessions : phase'[q] \in Busy <=> phase[q] \in Busy
      BY <1>1, <1>13, <1>14 DEF Busy, Phases
    <3> QED
      BY <1>1, <3>1 DEF BusyIn, Room
  <2>3. CASE r # room
    <3>1. \A q \in BusyIn(r) : phase'[q] = phase[q] /\ work'[q] = work[q] /\ Home(q)' = Home(q)
      BY <1>1, <1>13, <2>3 DEF BusyIn, Home
    <3>2. stream'[r] = stream[r]
      BY <1>7, <2>3
    <3> QED
      BY <1>1, <2>1, <2>2, <3>1, <3>2 DEF KeptInOrder, Last
  <2>4. CASE r = room
    <3>1. s \in BusyIn(room)
      BY <1>1 DEF BusyIn, Busy, Phases
    <3>2. BusyIn(room) = {s}
      BY <2>1, <2>4, <3>1 DEF KeptInOrder
    <3>3. keeper[room] = Home(s) /\ keeper[room] # "none"
      BY <2>1, <2>4, <3>1 DEF KeptInOrder
    <3>4. InOrder(phase[s], w, latest[keeper[room]][room], Last(room)) /\ Marked(log)
      BY <2>1, <2>4, <3>1, <3>3 DEF KeptInOrder, w, log
    <3>5. InOrder(next, job, latest[keeper[room]][room], Len(stream'[room]))
      BY <1>1, <1>7, <3>4 DEF InOrder, job
    <3>6. Marked(stream'[room])
      <4>1. entry.type = "edit" => (entry.conflictId # 0 <=> entry.stale)
        <5>1. CASE phase[s] = "conflict"
          BY <5>1 DEF entry, Conflict
        <5>2. CASE phase[s] = "append"
          BY <1>5, <3>4, <5>2 DEF entry, Entry, InOrder, Event, Thoughts, EditWork
        <5> QED
          BY <1>1, <5>1, <5>2
      <4> QED
        BY <1>3, <1>7, <3>4, <4>1 DEF Marked
    <3>7. Home(s)' = Home(s)
      BY <1>1 DEF Home
    <3> QED
      BY <1>1, <1>14, <2>2, <2>4, <3>2, <3>3, <3>5, <3>6, <3>7 DEF KeptInOrder, Last
  <2> QED
    BY <2>3, <2>4
<1>20. NothingMissed'
  BY <1>1 DEF IInv, NothingMissed
<1> QED
  BY <1>11, <1>12, <1>17, <1>18, <1>19, <1>20 DEF IInv

\* The edit, once its conflict event has an id.
Named(e, id) == [e EXCEPT !.conflictId = id, !.conflict = <<>>]

\* What a handler does with the answer of an append keeps everything but the order, which depends
\* on what the process remembers.
LEMMA ResumePreserves ==
  ASSUME IInv, NEW s \in Sessions, phase[s] \in Busy,
         NEW e \in Event, NEW id \in 0..Last(Room(s)), NEW clashed \in BOOLEAN,
         clashed => /\ ClashingEdit(e, stream[Room(s)])
                    /\ id # 0 => stream[Room(s)][id].type = "conflict",
         ~clashed => /\ ReadyEdit(e, stream[Room(s)])
                     /\ id # 0 => /\ stream[Room(s)][id] = Entry(e)
                                  /\ e.type = "edit" => e.conflictId < id,
         Resume(s, e, id, clashed),
         latest' \in [Processes -> [Rooms -> Nat]],
         \A p \in Processes, r \in Rooms : latest'[p][r] <= Last(r),
         keeper' \in [Rooms -> Processes \cup {"none", "many"}],
         UNCHANGED <<stream, trimmed, link, cursor, missed>>
  PROVE  /\ Types' /\ Bounds' /\ WorkInv' /\ ReplyInv' /\ ConflictsNameTheirRoom' /\ NothingMissed'
         /\ \A q \in Sessions : q # s => phase'[q] = phase[q] /\ work'[q] = work[q]
         /\ clashed => /\ phase'[s] = "append"
                       /\ work'[s] = Named(e, id)
         /\ ~clashed => phase'[s] = "idle"
<1> DEFINE log == stream[Room(s)]
           w   == Named(e, id)
           r   == Answer(id, IF e.type = "edit" THEN e.conflictId ELSE 0)
<1>1. Room(s) \in Rooms /\ log \in Seq(LogEntry) /\ Len(log) \in Nat
  BY StreamAssumption, LenProperties DEF IInv, Types, Link, NoLink, Room, Busy, Phases
<1>2. id \in Nat /\ id <= Len(log)
  BY <1>1 DEF Last
<1>3. Bounds' /\ ConflictsNameTheirRoom' /\ NothingMissed'
  BY DEF IInv, Bounds, ConflictsNameTheirRoom, NothingMissed, Last
<1>4. ~ reply[s].status = "accepted"
  BY DEF IInv, ReplyInv, ReplyFits, Busy
<1>5. CASE clashed
  <2>1. /\ phase' = [phase EXCEPT ![s] = "append"] /\ work' = [work EXCEPT ![s] = w] /\ reply' = reply
    BY <1>5 DEF Resume, Named
  <2>2. w \in EditWork /\ w.conflictId = id
    BY <1>2, <1>5 DEF ClashingEdit, EditWork, Named
  <2>3. WorkFits("append", w, log)
    BY <1>2, <1>5, <2>2, EntryType DEF WorkFits, ReadyEdit
  <2>4. /\ phase'[s] = "append" /\ work'[s] = w
        /\ \A q \in Sessions : q # s => phase'[q] = phase[q] /\ work'[q] = work[q]
    BY <2>1 DEF IInv, Types
  <2>5. w \in Event
    BY <2>2, EntryType
  <2>6. Types'
    <3> HIDE DEF w
    <3> QED
      BY <2>1, <2>5 DEF IInv, Types, Phases, Busy
  <2>7. WorkInv'
    <3> HIDE DEF w
    <3> QED
      BY <2>3, <2>4 DEF IInv, WorkInv, Room
  <2>8. ReplyInv'
    BY <1>4, <2>1, <2>4 DEF IInv, ReplyInv, ReplyFits, Room
  <2> QED
    BY <1>3, <1>5, <2>4, <2>6, <2>7, <2>8
<1>6. CASE ~clashed
  <2>1. /\ phase' = [phase EXCEPT ![s] = "idle"] /\ work' = [work EXCEPT ![s] = NoWork]
        /\ reply' = [reply EXCEPT ![s] = r]
    BY <1>6 DEF Resume
  <2>2. /\ r.id = id /\ r.conflict = IF e.type = "edit" THEN e.conflictId ELSE 0
        /\ r = [status |-> "accepted", id |-> id, conflict |-> r.conflict]
    BY DEF Answer
  <2>3. /\ r.conflict \in 0..Len(log) /\ r.conflict \in Nat
        /\ r.conflict # 0 => log[r.conflict].type = "conflict" /\ e.type = "edit" /\ r.conflict = e.conflictId
    BY <1>1, <1>6, <2>2 DEF ReadyEdit
  <2>4. r \in Reply
    BY <1>2, <2>2, <2>3 DEF Reply
  <2>5. id # 0 => /\ log[id].type # "conflict"
                  /\ e.type = "edit" => log[id].conflictId = e.conflictId
    BY <1>6 DEF Entry, Event, Thoughts, EditWork
  <2>6. ReplyFits("idle", r, log)
    <3>1. id \in 0..Len(log)
      BY <1>1, <1>2
    <3> HIDE DEF r, log
    <3> QED
      BY <1>6, <2>2, <2>3, <2>5, <3>1 DEF ReplyFits, log
  <2>7. /\ phase'[s] = "idle" /\ work'[s] = NoWork /\ reply'[s] = r
        /\ \A q \in Sessions : q # s => phase'[q] = phase[q] /\ work'[q] = work[q] /\ reply'[q] = reply[q]
    BY <2>1 DEF IInv, Types
  <2> HIDE DEF r
  <2>8. Types'
    BY <2>1, <2>4 DEF IInv, Types, Phases, Busy
  <2>9. WorkInv'
    BY <2>7 DEF IInv, WorkInv, WorkFits, Room
  <2>10. ReplyInv'
    BY <2>6, <2>7 DEF IInv, ReplyInv, Room
  <2> QED
    BY <1>3, <1>6, <2>7, <2>8, <2>9, <2>10
<1> QED
  BY <1>5, <1>6

LEMMA StoredPreserves ==
  ASSUME IInv, NEW s \in Sessions, Stored(s)
  PROVE  IInv'
<1> DEFINE room    == Room(s)
           home    == Home(s)
           w       == work[s]
           clashed == phase[s] = "conflictSent"
<1>1. /\ phase[s] \in {"conflictSent", "appendSent"}
      /\ latest' = [latest EXCEPT ![home][room] = w.sent] /\ Resume(s, w.event, w.sent, clashed)
      /\ UNCHANGED <<stream, trimmed, link, cursor, missed, keeper>>
  BY DEF Stored, history
<1>2. room \in Rooms /\ home \in Processes
  BY <1>1, StreamAssumption DEF IInv, Types, Link, NoLink, Room, Home
<1>3. WorkFits(phase[s], w, stream[room])
  BY DEF IInv, WorkInv
<1>4. Last(room) \in Nat
  BY <1>2, LenProperties DEF IInv, Types, Last
<1>5. w.sent \in 1..Last(room) /\ w.event \in Event
  BY <1>1, <1>3 DEF WorkFits, Sent, Last
<1>6. /\ latest' \in [Processes -> [Rooms -> Nat]]
      /\ \A p \in Processes, r \in Rooms :
           latest'[p][r] = IF p = home /\ r = room THEN w.sent ELSE latest[p][r]
  <2>1. w.sent \in Nat
    BY <1>4, <1>5
  <2> HIDE DEF w
  <2> QED
    BY <1>1, <1>2, <2>1 DEF IInv, Types
<1>7. \A p \in Processes, r \in Rooms : latest'[p][r] <= Last(r)
  BY <1>4, <1>5, <1>6 DEF IInv, Bounds
<1>8. /\ Types' /\ Bounds' /\ WorkInv' /\ ReplyInv' /\ ConflictsNameTheirRoom' /\ NothingMissed'
      /\ \A q \in Sessions : q # s => phase'[q] = phase[q] /\ work'[q] = work[q]
      /\ clashed => /\ phase'[s] = "append"
                    /\ work'[s] = Named(w.event, w.sent)
      /\ ~clashed => phase'[s] = "idle"
  <2>1. clashed => /\ ClashingEdit(w.event, stream[room]) /\ stream[room][w.sent].type = "conflict"
    BY <1>3 DEF WorkFits
  <2>2. ~clashed => /\ ReadyEdit(w.event, stream[room]) /\ stream[room][w.sent] = Entry(w.event)
                    /\ w.event.type = "edit" => w.event.conflictId < w.sent
    BY <1>1, <1>3 DEF WorkFits
  <2>3. w.sent \in 0..Last(room)
    BY <1>4, <1>5
  <2>4. keeper' \in [Rooms -> Processes \cup {"none", "many"}]
    BY <1>1 DEF IInv, Types
  <2>5. phase[s] \in Busy /\ clashed \in BOOLEAN
    BY <1>1 DEF Busy, Phases
  <2> DEFINE id == w.sent
             e  == w.event
  <2>6. /\ clashed => /\ ClashingEdit(e, stream[Room(s)])
                      /\ id # 0 => stream[Room(s)][id].type = "conflict"
        /\ ~clashed => /\ ReadyEdit(e, stream[Room(s)])
                       /\ id # 0 => /\ stream[Room(s)][id] = Entry(e)
                                    /\ e.type = "edit" => e.conflictId < id
    BY <2>1, <2>2
  <2>7. Resume(s, e, id, clashed) /\ UNCHANGED <<stream, trimmed, link, cursor, missed>>
    BY <1>1
  <2> HIDE DEF id, e, w, clashed
  <2>8. id \in 0..Last(Room(s)) /\ e \in Event
    BY <1>5, <2>3 DEF id, e
  <2>9. /\ Types' /\ Bounds' /\ WorkInv' /\ ReplyInv' /\ ConflictsNameTheirRoom' /\ NothingMissed'
        /\ \A q \in Sessions : q # s => phase'[q] = phase[q] /\ work'[q] = work[q]
        /\ clashed => /\ phase'[s] = "append"
                      /\ work'[s] = Named(e, id)
        /\ ~clashed => phase'[s] = "idle"
    BY <1>6, <1>7, <2>4, <2>5, <2>6, <2>7, <2>8, ResumePreserves, Zenon
  <2> QED
    BY <2>9 DEF id, e
<1>9. OrderInv'
  <2> SUFFICES ASSUME NEW r \in Rooms, keeper[r] # "many" PROVE KeptInOrder(r)'
    BY <1>1 DEF OrderInv
  <2>1. KeptInOrder(r)
    BY DEF IInv, OrderInv
  <2>2. \A q \in Sessions : q # s => (q \in BusyIn(r)' <=> q \in BusyIn(r))
    BY <1>1, <1>8 DEF BusyIn, Room
  <2>3. s \in BusyIn(r) <=> r = room
    BY <1>1 DEF BusyIn, Busy, Phases
  <2>4. s \in BusyIn(r)' <=> r = room /\ clashed
    BY <1>1, <1>8 DEF BusyIn, Busy, Phases, Room
  <2>5. \A q \in Sessions : Home(q)' = Home(q)
    BY <1>1 DEF Home
  <2>6. CASE r # room
    <3>1. BusyIn(r)' = BusyIn(r)
      BY <2>2, <2>3, <2>4, <2>6 DEF BusyIn
    <3>2. \A q \in BusyIn(r) : q # s /\ q \in Sessions
      BY <2>3, <2>6 DEF BusyIn
    <3>3. keeper[r] # "none" => latest'[keeper[r]][r] = latest[keeper[r]][r]
      BY <1>6, <2>6 DEF IInv, Types
    <3> QED
      BY <1>1, <1>8, <2>1, <2>5, <3>1, <3>2, <3>3 DEF KeptInOrder, Last
  <2>7. CASE r = room
    <3>1. keeper[r] = home /\ keeper[r] # "none" /\ InOrder(phase[s], w, latest[home][r], Last(r))
      BY <2>1, <2>3, <2>7 DEF KeptInOrder
    <3>2. \A q \in BusyIn(r) : q = s
      BY <2>1, <2>3, <2>7, <3>1 DEF KeptInOrder
    <3>3. latest'[home][r] = Last(r)
      BY <1>1, <1>2, <1>6, <2>7, <3>1 DEF InOrder
    <3>4. \A q \in BusyIn(r)' : q = s /\ clashed
      BY <2>2, <2>4, <3>2 DEF BusyIn
    <3>5. clashed => InOrder(phase'[s], work'[s], Last(r), Last(r))
      <4> SUFFICES ASSUME clashed PROVE InOrder("append", work'[s], Last(r), Last(r))
        BY <1>8
      <4>1. w.event.stale /\ w.event \in EditWork
        BY <1>3, <3>1 DEF InOrder, WorkFits, ClashingEdit
      <4>2. work'[s].conflictId = w.sent /\ work'[s].stale
        BY <1>8, <4>1 DEF EditWork, Named
      <4> QED
        BY <1>4, <1>5, <4>2 DEF InOrder
    <3>6. Last(r)' = Last(r) /\ stream'[r] = stream[r] /\ keeper'[r] = keeper[r]
      BY <1>1 DEF Last
    <3>7. Home(s)' = keeper'[r]
      BY <2>5, <3>1, <3>6
    <3>8. Marked(stream'[r])
      BY <2>1, <3>6 DEF KeptInOrder
    <3>9. keeper'[r] # "none"
      BY <3>1, <3>6
    <3>10. \A p, q \in BusyIn(r)' : p = q
      BY <3>4
    <3>11. BusyIn(r)' = {} => latest'[keeper'[r]][r] = Last(r)'
      BY <3>1, <3>3, <3>6
    <3>12. \A q \in BusyIn(r)' : Home(q)' = keeper'[r]
                                /\ InOrder(phase'[q], work'[q], latest'[keeper'[r]][r], Last(r)')
      <4> HIDE DEF clashed, home
      <4> QED
        BY <3>1, <3>3, <3>4, <3>5, <3>6, <3>7
    <3> QED
      BY <3>8, <3>9, <3>10, <3>11, <3>12 DEF KeptInOrder
  <2> QED
    BY <2>6, <2>7
<1> QED
  BY <1>8, <1>9 DEF IInv

LEMMA UnansweredPreserves ==
  ASSUME IInv, NEW s \in Sessions, Unanswered(s)
  PROVE  IInv'
<1> DEFINE room == Room(s)
           w    == work[s]
<1>1. keeper' = [keeper EXCEPT ![room] = "many"]
      /\ UNCHANGED <<stream, trimmed, latest, link, cursor, missed>>
  BY DEF Unanswered
<1>2. phase[s] \in Busy
  BY DEF Unanswered, Busy, Phases
<1>3. room \in Rooms /\ Last(room) \in Nat
  BY <1>2, StreamAssumption, LenProperties
  DEF IInv, Types, Link, NoLink, Room, Last, Busy, Phases
<1>4. WorkFits(phase[s], w, stream[room])
  BY DEF IInv, WorkInv
<1>5. keeper' \in [Rooms -> Processes \cup {"none", "many"}]
  BY <1>1 DEF IInv, Types
<1>6. PICK e \in Event, clashed \in BOOLEAN :
        /\ Resume(s, e, 0, clashed)
        /\ clashed => ClashingEdit(e, stream[room])
        /\ ~clashed => ReadyEdit(e, stream[room])
  <2>1. CASE phase[s] \in {"conflict", "append"}
    <3>1. Resume(s, w, 0, phase[s] = "conflict")
      BY <2>1 DEF Unanswered
    <3>2. /\ w \in Event /\ (phase[s] = "conflict") \in BOOLEAN
          /\ phase[s] = "conflict" => ClashingEdit(w, stream[room])
          /\ phase[s] # "conflict" => ReadyEdit(w, stream[room])
      BY <1>4, <2>1, EntryType DEF WorkFits, ClashingEdit, ReadyEdit
    <3> QED
      BY <3>1, <3>2
  <2>2. CASE phase[s] \in {"conflictSent", "appendSent"}
    <3>1. Resume(s, w.event, 0, phase[s] = "conflictSent")
      BY <2>2 DEF Unanswered
    <3>2. /\ w.event \in Event /\ (phase[s] = "conflictSent") \in BOOLEAN
          /\ phase[s] = "conflictSent" => ClashingEdit(w.event, stream[room])
          /\ phase[s] # "conflictSent" => ReadyEdit(w.event, stream[room])
      BY <1>4, <2>2 DEF WorkFits, Sent
    <3> QED
      BY <3>1, <3>2
  <2> QED
    BY <2>1, <2>2 DEF Unanswered
<1>7. /\ Types' /\ Bounds' /\ WorkInv' /\ ReplyInv' /\ ConflictsNameTheirRoom' /\ NothingMissed'
      /\ \A q \in Sessions : q # s => phase'[q] = phase[q] /\ work'[q] = work[q]
  <2>1. latest' \in [Processes -> [Rooms -> Nat]] /\ \A p \in Processes, r \in Rooms : latest'[p][r] <= Last(r)
    BY <1>1 DEF IInv, Types, Bounds
  <2>2. 0 \in 0..Last(Room(s))
    BY <1>3
  <2>3. /\ clashed => /\ ClashingEdit(e, stream[Room(s)])
                      /\ 0 # 0 => stream[Room(s)][0].type = "conflict"
        /\ ~clashed => /\ ReadyEdit(e, stream[Room(s)])
                       /\ 0 # 0 => /\ stream[Room(s)][0] = Entry(e)
                                   /\ e.type = "edit" => e.conflictId < 0
    BY <1>6
  <2>4. Resume(s, e, 0, clashed) /\ UNCHANGED <<stream, trimmed, link, cursor, missed>>
    BY <1>1, <1>6
  <2> QED
    BY <1>2, <1>5, <2>1, <2>2, <2>3, <2>4, ResumePreserves, Zenon
<1>8. OrderInv'
  <2> SUFFICES ASSUME NEW r \in Rooms, keeper'[r] # "many" PROVE KeptInOrder(r)'
    BY DEF OrderInv
  <2>1. r # room /\ keeper'[r] = keeper[r]
    BY <1>1, <1>3 DEF IInv, Types
  <2>2. KeptInOrder(r)
    BY <2>1 DEF IInv, OrderInv
  <2>3. BusyIn(r)' = BusyIn(r)
    <3>1. s \notin BusyIn(r) /\ s \notin BusyIn(r)'
      BY <1>1, <2>1 DEF BusyIn, Room
    <3>2. \A q \in Sessions : q # s => (q \in BusyIn(r)' <=> q \in BusyIn(r))
      BY <1>1, <1>7 DEF BusyIn, Room
    <3> QED
      BY <3>1, <3>2 DEF BusyIn
  <2>4. \A q \in BusyIn(r) : phase'[q] = phase[q] /\ work'[q] = work[q] /\ Home(q)' = Home(q)
    BY <1>1, <1>7, <2>1 DEF BusyIn, Room, Home
  <2> QED
    BY <1>1, <2>1, <2>2, <2>3, <2>4 DEF KeptInOrder, Last
<1> QED
  BY <1>7, <1>8 DEF IInv

\* A restart takes a process's sessions with it and disturbs the rooms that it kept.
LEMMA CrashPreserves ==
  ASSUME IInv, NEW p \in Processes, Crash(p)
  PROVE  IInv'
<1> DEFINE lost == {s \in Sessions : link[s] # NoLink /\ Home(s) = p}
<1>1. /\ latest' = [latest EXCEPT ![p] = [room \in Rooms |-> 0]]
      /\ phase' = [s \in Sessions |-> IF s \in lost THEN "off" ELSE phase[s]]
      /\ work' = [s \in Sessions |-> IF s \in lost THEN NoWork ELSE work[s]]
      /\ link' = [s \in Sessions |-> IF s \in lost THEN NoLink ELSE link[s]]
      /\ reply' = [s \in Sessions |-> IF s \in lost THEN NoReply ELSE reply[s]]
      /\ keeper' = [room \in Rooms |-> IF keeper[room] = p THEN "many" ELSE keeper[room]]
      /\ UNCHANGED <<stream, trimmed, cursor, missed>>
  BY DEF Crash
<1> HIDE DEF lost
<1>2. Types'
  BY <1>1 DEF IInv, Types, Phases
<1>3. Bounds'
  <2>1. \A q \in Processes, r \in Rooms : latest'[q][r] = IF q = p THEN 0 ELSE latest[q][r]
    BY <1>1 DEF IInv, Types
  <2>2. \A r \in Rooms : Last(r) \in Nat
    BY LenProperties DEF IInv, Types, Last
  <2> QED
    BY <1>1, <2>1, <2>2 DEF IInv, Bounds, Last
<1>4. ConflictsNameTheirRoom' /\ NothingMissed'
  BY <1>1 DEF IInv, ConflictsNameTheirRoom, NothingMissed, Last
<1>5. WorkInv'
  BY <1>1 DEF IInv, WorkInv, WorkFits, Room
<1>6. ReplyInv'
  BY <1>1 DEF IInv, ReplyInv, ReplyFits, Room, NoReply
<1>7. OrderInv'
  <2> SUFFICES ASSUME NEW r \in Rooms, keeper'[r] # "many" PROVE KeptInOrder(r)'
    BY DEF OrderInv
  <2>1. keeper'[r] = keeper[r] /\ keeper[r] # p /\ keeper[r] # "many"
    BY <1>1
  <2>2. KeptInOrder(r)
    BY <2>1 DEF IInv, OrderInv
  <2>3. \A q \in BusyIn(r) : q \notin lost
    BY <2>1, <2>2 DEF KeptInOrder, lost
  <2>4. \A q \in Sessions : q \notin lost => /\ phase'[q] = phase[q] /\ work'[q] = work[q]
                                             /\ Room(q)' = Room(q) /\ Home(q)' = Home(q)
    BY <1>1 DEF Room, Home
  <2>5. \A q \in lost : phase'[q] \notin Busy
    BY <1>1 DEF lost, Busy
  <2>6. BusyIn(r)' = BusyIn(r)
    BY <2>3, <2>4, <2>5 DEF BusyIn
  <2>7. \A q \in BusyIn(r) : phase'[q] = phase[q] /\ work'[q] = work[q] /\ Home(q)' = Home(q)
    BY <2>3, <2>4 DEF BusyIn
  <2>8. keeper[r] # "none" => latest'[keeper[r]][r] = latest[keeper[r]][r]
    BY <1>1, <2>1 DEF IInv, Types
  <2> QED
    BY <1>1, <2>1, <2>2, <2>6, <2>7, <2>8 DEF KeptInOrder, Last
<1> QED
  BY <1>2, <1>3, <1>4, <1>5, <1>6, <1>7 DEF IInv

-----------------------------------------------------------------------------
(* The theorems                                                              *)

\* The invariant holds of every reachable state.
THEOREM Invariance == Spec => []IInv
<1>1. IInv /\ [Next]_vars => IInv'
  <2> SUFFICES ASSUME IInv, [Next]_vars PROVE IInv'
    OBVIOUS
  <2>1. ASSUME NEW s \in Sessions, Handler(s) PROVE IInv'
    BY <2>1, StorePreserves, StoredPreserves, UnansweredPreserves DEF Handler
  <2>2. CASE UNCHANGED vars
    BY <2>2 DEF vars, session, history, IInv, Types, Bounds, WorkInv, ReplyInv,
      ConflictsNameTheirRoom, OrderInv, KeptInOrder, BusyIn, NothingMissed, Last, Room, Home
  <2> QED
    BY <2>1, <2>2, ConnectPreserves, LeavePreserves, ReceiveEditPreserves,
      ReceiveThoughtPreserves, CrashPreserves DEF Next
<1> QED
  BY InitInv, <1>1, PTL DEF Spec

\* Conflict events and answers name what is stored in their room, whatever calls fail and whatever
\* other sessions append in between.
THEOREM StreamsStaySound == Spec => []StreamsAreSound
<1>1. IInv => TypeOK
  <2> SUFFICES ASSUME IInv PROVE TypeOK
    OBVIOUS
  <2>1. \A r \in Rooms : trimmed[r] \in 0..Last(r) /\ \A p \in Processes : latest[p][r] \in 0..Last(r)
    BY LenProperties DEF IInv, Types, Bounds, Last
  <2>2. \A s \in Sessions : (phase[s] \in Busy) = (work[s] # NoWork)
    <3> SUFFICES ASSUME NEW s \in Sessions PROVE (phase[s] \in Busy) = (work[s] # NoWork)
      OBVIOUS
    <3>1. WorkFits(phase[s], work[s], stream[Room(s)]) /\ phase[s] \in Phases
      BY DEF IInv, WorkInv, Types
    <3>2. NoWork \notin Event /\ NoWork \notin Sent
      <4>1. NoWork \notin Event
        BY DEF NoWork, Event, Thoughts, EditWork
      <4>2. ASSUME NoWork \in Sent PROVE FALSE
        <5>1. "sent" \in DOMAIN NoWork
          BY <4>2 DEF Sent
        <5> QED
          BY <5>1 DEF NoWork
      <4> QED
        BY <4>1, <4>2
    <3>3. phase[s] \in Busy => work[s] \in Event \cup Sent
      BY <3>1, EntryType DEF WorkFits, ClashingEdit, ReadyEdit, Busy, Phases
    <3>4. phase[s] \notin Busy => work[s] = NoWork
      BY <3>1 DEF WorkFits, Busy
    <3> QED
      BY <3>2, <3>3, <3>4 DEF Busy
  <2> QED
    BY <2>1, <2>2 DEF IInv, Types, TypeOK
<1>2. IInv => AnswersNameStoredEvents
  BY DEF IInv, ReplyInv, ReplyFits, AnswersNameStoredEvents
<1>3. IInv => ConflictsNameTheirRoom
  BY DEF IInv
<1> QED
  BY <1>1, <1>2, <1>3, Invariance, PTL DEF StreamsAreSound

\* A client that resumes after what it has seen misses nothing, for any size of the batches.
THEOREM ResumesNeverSkip == Spec => []ResumeNeverSkips
<1>1. IInv => ResumeNeverSkips
  BY DEF IInv, NothingMissed, ResumeNeverSkips
<1> QED
  BY <1>1, Invariance, PTL

\* A room that one process serves in order has a conflict event for exactly its stale edits.
THEOREM OrderlyRoomsStayMarked == Spec => []OrderlyRoomsRecordConflicts
<1>1. IInv => OrderlyRoomsRecordConflicts
  <2> SUFFICES ASSUME IInv, NEW room \in Rooms, keeper[room] # "many", NEW e \in Edits(room)
               PROVE  (e.conflictId # 0) <=> e.stale
    BY DEF OrderlyRoomsRecordConflicts
  <2>1. PICK i \in 1..Last(room) : stream[room][i] = e /\ e.type = "edit"
    BY DEF Edits, Entries
  <2>2. Marked(stream[room])
    BY DEF IInv, OrderInv, KeptInOrder
  <2> QED
    BY <2>1, <2>2 DEF Marked, Last
<1> QED
  BY <1>1, Invariance, PTL
=============================================================================
