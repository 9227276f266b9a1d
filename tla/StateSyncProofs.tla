--------------------------- MODULE StateSyncProofs --------------------------
(***************************************************************************)
(* A state-sync room stays whole, and nobody's view of it goes back, for   *)
(* any number of clients, keys and patches. What is under way to a client  *)
(* decides: its last send is the room's state, up to what patches that     *)
(* raised left unsent, and its sends never go back.                         *)
(***************************************************************************)
EXTENDS StateSync, TLAPS, SequenceTheorems

Waiting == {"joining", "patching", "leaving"}
State == [Keys -> Nat]
Sends == [state : State, patch : Nat]
Distinct(seq) == \A i, j \in DOMAIN seq : seq[i] = seq[j] => i = j
NotAfter(old, new) == \A k \in Keys : old[k] <= new[k]
Last(seq) == seq[Len(seq)]

Types ==
  /\ applied \in Nat /\ told \in Nat /\ shared \in State
  /\ clients \in Seq(Clients) /\ waiters \in Seq(Clients)
  /\ lock \in Clients \cup {NoOne} /\ phase \in [Clients -> Phases] /\ made \in [Clients -> Nat]
  /\ socket \in [Clients -> {"open", "closed"}] /\ sends \in [Clients -> Seq(Sends)]
  /\ seen \in [Clients -> [Keys -> Int]]

\* Patches are numbered as they are applied.
Numbered == told <= applied /\ \A k \in Keys : shared[k] <= applied

\* Handlers that wait are those in the queue, once each, and one that sends has the lock.
Queued ==
  /\ Elements(waiters) = {c \in Clients : phase[c] \in Waiting} /\ Distinct(waiters)
  /\ \A c \in Clients : lock = c <=> phase[c] = "sending"
  /\ \A c \in Clients : phase[c] = "patching" => made[c] \in 1..Len(Patches[c])
  /\ \A c \in Clients : made[c] <= Len(Patches[c])

\* A client is in the list from when it entered until it leaves.
Listed ==
  /\ Distinct(clients)
  /\ \A c \in Elements(clients) : /\ phase[c] \notin {"out", "joining", "gone"}
                                  /\ phase[c] = "crashed" => socket[c] = "closed"
  /\ \A c \in Clients : phase[c] \in {"out", "joining"} => sends[c] = <<>>

\* A snapshot is the first thing under way to the client whose handler awaits it.
Snapshots ==
  \A c \in Clients : \A i \in DOMAIN sends[c] :
    sends[c][i].patch = 0 => i = 1 /\ phase[c] = "snapshot"

\* What is under way to a client starts from what it has seen, never goes back, and ends with a
\* state of the room it is in that is current.
Ascending ==
  \A c \in Clients :
    /\ \A i \in DOMAIN sends[c] : NotAfter(seen[c], sends[c][i].state) /\ NotAfter(sends[c][i].state, shared)
    /\ \A i, j \in DOMAIN sends[c] : i < j => NotAfter(sends[c][i].state, sends[c][j].state)
    /\ NotAfter(seen[c], shared)
    /\ c \in Elements(clients) /\ sends[c] # <<>> => Current(Last(sends[c]).state)

IInv == Types /\ Numbered /\ Queued /\ Listed /\ Snapshots /\ Ascending /\ MembersAgree

-----------------------------------------------------------------------------
(* Sequences                                                                 *)

LEMMA AppendFacts ==
  ASSUME NEW S, NEW seq \in Seq(S), NEW e \in S
  PROVE  /\ Append(seq, e) \in Seq(S) /\ Len(seq) \in Nat
         /\ DOMAIN seq = 1..Len(seq) /\ DOMAIN Append(seq, e) = 1..(Len(seq) + 1)
         /\ Len(Append(seq, e)) = Len(seq) + 1 /\ Append(seq, e)[Len(seq) + 1] = e
         /\ \A i \in 1..Len(seq) : Append(seq, e)[i] = seq[i]
         /\ Append(seq, e) # <<>> /\ Last(Append(seq, e)) = e
         /\ Elements(Append(seq, e)) = Elements(seq) \cup {e}
         /\ Distinct(seq) /\ e \notin Elements(seq) => Distinct(Append(seq, e))
<1> DEFINE new == Append(seq, e)
           n   == Len(seq)
<1>1. /\ new \in Seq(S) /\ n \in Nat /\ DOMAIN seq = 1..n /\ DOMAIN new = 1..(n + 1)
      /\ Len(new) = n + 1 /\ new[n + 1] = e /\ \A i \in 1..n : new[i] = seq[i]
  BY AppendProperties, LenProperties
<1> HIDE DEF new, n
<1>2. new # <<>> /\ Last(new) = e
  BY <1>1 DEF Last
<1>3. \A i \in 1..(n + 1) : i \in 1..n \/ i = n + 1
  BY <1>1
<1>4. n + 1 \in 1..(n + 1) /\ 1..n \subseteq 1..(n + 1) /\ n + 1 \notin 1..n
  BY <1>1
<1>5. Elements(new) = Elements(seq) \cup {e}
  BY <1>1, <1>3, <1>4 DEF Elements
<1>6. Distinct(seq) /\ e \notin Elements(seq) => Distinct(new)
  BY <1>1, <1>3, <1>4 DEF Distinct, Elements
<1> QED
  BY <1>1, <1>2, <1>5, <1>6 DEF new, n

LEMMA TailFacts ==
  ASSUME NEW S, NEW seq \in Seq(S), seq # <<>>
  PROVE  /\ Tail(seq) \in Seq(S) /\ Len(seq) \in Nat \ {0} /\ DOMAIN seq = 1..Len(seq)
         /\ DOMAIN Tail(seq) = 1..(Len(seq) - 1) /\ Len(Tail(seq)) = Len(seq) - 1
         /\ \A i \in 1..(Len(seq) - 1) : Tail(seq)[i] = seq[i + 1]
         /\ Head(seq) = seq[1] /\ Head(seq) \in S
         /\ Tail(seq) # <<>> => Last(Tail(seq)) = Last(seq)
         /\ Tail(seq) = <<>> => Last(seq) = Head(seq)
         /\ Distinct(seq) => Elements(Tail(seq)) = Elements(seq) \ {Head(seq)} /\ Distinct(Tail(seq))
<1> DEFINE new == Tail(seq)
           n   == Len(seq)
<1>1. /\ new \in Seq(S) /\ n \in Nat \ {0} /\ DOMAIN seq = 1..n /\ DOMAIN new = 1..(n - 1)
      /\ Len(new) = n - 1 /\ \A i \in 1..(n - 1) : new[i] = seq[i + 1]
      /\ Head(seq) = seq[1] /\ seq[1] \in S
  BY HeadTailProperties, EmptySeq, LenProperties, ElementOfSeq
<1>2. new # <<>> => Last(new) = Last(seq)
  <2>1. new # <<>> => n - 1 \in Nat \ {0}
    BY <1>1, EmptySeq
  <2>2. n - 1 \in Nat \ {0} => n - 1 \in 1..(n - 1) /\ (n - 1) + 1 = n
    BY <1>1
  <2> QED
    BY <1>1, <2>1, <2>2 DEF Last
<1>3. new = <<>> => Last(seq) = Head(seq)
  <2>1. new = <<>> => n = 1
    BY <1>1
  <2> QED
    BY <1>1, <2>1 DEF Last
<1> HIDE DEF new, n
<1>4. \A i \in 1..n : i = 1 \/ (i - 1 \in 1..(n - 1) /\ new[i - 1] = seq[i])
  BY <1>1
<1>5. \A i \in 1..(n - 1) : i + 1 \in 1..n /\ i + 1 # 1
  BY <1>1
<1>6. ASSUME Distinct(seq) PROVE Elements(new) = Elements(seq) \ {seq[1]} /\ Distinct(new)
  <2>1. \A i \in 1..(n - 1) : seq[i + 1] # seq[1]
    <3>1. \A i, j \in 1..n : seq[i] = seq[j] => i = j
      BY <1>1, <1>6 DEF Distinct
    <3>2. 1 \in 1..n
      BY <1>1
    <3> QED
      BY <1>5, <3>1, <3>2
  <2>2. Elements(new) = Elements(seq) \ {seq[1]}
    <3>1. ASSUME NEW i \in 1..n PROVE seq[i] = seq[1] \/ \E k \in 1..(n - 1) : new[k] = seq[i]
      BY <1>4
    <3>2. ASSUME NEW k \in 1..(n - 1)
          PROVE  new[k] # seq[1] /\ \E i \in 1..n : new[k] = seq[i]
      BY <1>1, <1>5, <2>1
    <3>3. Elements(new) = {new[k] : k \in 1..(n - 1)} /\ Elements(seq) = {seq[i] : i \in 1..n}
      BY <1>1 DEF Elements
    <3> QED
      BY <3>1, <3>2, <3>3
  <2>3. Distinct(new)
    <3> SUFFICES ASSUME NEW i \in 1..(n - 1), NEW j \in 1..(n - 1), new[i] = new[j] PROVE i = j
      BY <1>1 DEF Distinct
    <3>1. \A x, y \in 1..n : seq[x] = seq[y] => x = y
      BY <1>1, <1>6 DEF Distinct
    <3>2. i + 1 \in 1..n /\ j + 1 \in 1..n /\ seq[i + 1] = seq[j + 1]
      BY <1>1, <1>5
    <3>3. i + 1 = j + 1
      BY <3>1, <3>2
    <3> QED
      BY <1>1, <3>3
  <2> QED
    BY <2>2, <2>3
<1> QED
  BY <1>1, <1>2, <1>3, <1>6 DEF new, n

\* Taking one element out of a list without repetitions leaves the others.
LEMMA WithoutFacts ==
  ASSUME NEW S, NEW seq \in Seq(S), Distinct(seq), NEW e
  PROVE  /\ Without(seq, e) \in Seq(S) /\ Distinct(Without(seq, e))
         /\ Elements(Without(seq, e)) = Elements(seq) \ {e}
<1>1. CASE e \notin Elements(seq)
  BY <1>1 DEF Without
<1>2. CASE e \in Elements(seq)
  <2> DEFINE n    == Len(seq)
             at   == CHOOSE i \in DOMAIN seq : seq[i] = e
             new  == Without(seq, e)
  <2>1. n \in Nat /\ DOMAIN seq = 1..n
    BY LenProperties
  <2>2. at \in 1..n /\ seq[at] = e
    BY <1>2, <2>1 DEF Elements
  <2>3. new = SubSeq(seq, 1, at - 1) \o SubSeq(seq, at + 1, n)
    BY <1>2 DEF Without
  <2> HIDE DEF new, at, n
  <2> DEFINE front == SubSeq(seq, 1, at - 1)
             back  == SubSeq(seq, at + 1, n)
  <2>9. \A i \in 1..n : seq[i] \in S
    BY ElementOfSeq DEF n
  <2>4. /\ front \in Seq(S) /\ Len(front) = at - 1
        /\ \A i \in 1..(at - 1) : front[i] = seq[i]
    <3>1. 1 \in Int /\ at - 1 \in Int /\ \A i \in 1..(at - 1) : seq[i] \in S
      BY <2>1, <2>2, <2>9
    <3>2. /\ front \in Seq(S) /\ Len(front) = (IF 1 <= at - 1 THEN (at - 1) - 1 + 1 ELSE 0)
          /\ \A i \in 1..((at - 1) - 1 + 1) : front[i] = seq[1 + i - 1]
      BY <3>1, SubSeqProperties
    <3> HIDE DEF front
    <3> QED
      BY <2>1, <2>2, <3>2
  <2>5. /\ back \in Seq(S) /\ Len(back) = n - at
        /\ \A i \in 1..(n - at) : back[i] = seq[at + i]
    <3>1. at + 1 \in Int /\ n \in Int /\ \A i \in (at + 1)..n : seq[i] \in S
      BY <2>1, <2>2, <2>9
    <3>2. /\ back \in Seq(S) /\ Len(back) = (IF at + 1 <= n THEN n - (at + 1) + 1 ELSE 0)
          /\ \A i \in 1..(n - (at + 1) + 1) : back[i] = seq[(at + 1) + i - 1]
      BY <3>1, SubSeqProperties
    <3> HIDE DEF back
    <3> QED
      BY <2>1, <2>2, <3>2
  <2>6. /\ new \in Seq(S) /\ DOMAIN new = 1..(n - 1)
        /\ \A i \in 1..(n - 1) : new[i] = IF i < at THEN seq[i] ELSE seq[i + 1]
    <3>0. new = front \o back
      BY ONLY <2>3
    <3> HIDE DEF front, back
    <3>1. /\ new \in Seq(S) /\ Len(new) = (at - 1) + (n - at)
          /\ \A i \in 1..((at - 1) + (n - at)) : new[i] = IF i <= at - 1 THEN front[i] ELSE back[i - (at - 1)]
      <4>1. front \in Seq(S) /\ back \in Seq(S) /\ Len(front) = at - 1 /\ Len(back) = n - at
        BY ONLY <2>4, <2>5
      <4>2. /\ new \in Seq(S) /\ Len(new) = Len(front) + Len(back)
            /\ \A i \in 1..(Len(front) + Len(back)) :
                 new[i] = IF i <= Len(front) THEN front[i] ELSE back[i - Len(front)]
        BY ONLY <3>0, <4>1, ConcatProperties
      <4> QED
        BY ONLY <4>1, <4>2
    <3>2. DOMAIN new = 1..Len(new)
      BY <3>1, LenProperties
    <3>3. Len(new) = n - 1 /\ (at - 1) + (n - at) = n - 1
      BY <2>1, <2>2, <3>1
    <3>4. ASSUME NEW i \in 1..(n - 1) PROVE new[i] = IF i < at THEN seq[i] ELSE seq[i + 1]
      <4>1. CASE i < at
        BY <2>1, <2>2, <2>4, <3>1, <3>3, <4>1
      <4>2. CASE ~ (i < at)
        <5>1. i - (at - 1) \in 1..(n - at) /\ at + (i - (at - 1)) = i + 1
          BY <2>1, <2>2, <4>2
        <5> QED
          BY <2>1, <2>2, <2>5, <3>1, <3>3, <4>2, <5>1
      <4> QED
        BY <4>1, <4>2
    <3> QED
      BY <3>1, <3>2, <3>3, <3>4
  <2> DEFINE old(i) == IF i < at THEN i ELSE i + 1
  <2>10. \A i \in 1..(n - 1) : old(i) \in 1..n /\ old(i) # at /\ new[i] = seq[old(i)]
    BY <2>1, <2>2, <2>6
  <2>11. \A i, j \in 1..(n - 1) : old(i) = old(j) => i = j
    BY <2>1, <2>2
  <2> HIDE DEF old
  <2>7. Distinct(new)
    BY <2>1, <2>6, <2>10, <2>11 DEF Distinct
  <2>8. ASSUME NEW x PROVE x \in Elements(new) <=> x \in Elements(seq) /\ x # e
    <3>1. ASSUME NEW i \in 1..(n - 1), new[i] = x PROVE x \in Elements(seq) /\ x # e
      BY <2>1, <2>2, <2>10, <3>1 DEF Distinct, Elements
    <3>2. ASSUME NEW i \in 1..n, seq[i] = x, x # e PROVE x \in Elements(new)
      <4>1. CASE i < at
        <5>1. i \in 1..(n - 1) /\ new[i] = seq[i]
          BY <2>1, <2>2, <2>6, <4>1
        <5> QED
          BY <2>6, <3>2, <5>1 DEF Elements
      <4>2. CASE i > at
        <5>1. i - 1 \in 1..(n - 1) /\ new[i - 1] = seq[i]
          BY <2>1, <2>2, <2>6, <4>2
        <5> QED
          BY <2>6, <3>2, <5>1 DEF Elements
      <4> QED
        BY <2>1, <2>2, <3>2, <4>1, <4>2
    <3> QED
      BY <2>1, <2>6, <3>1, <3>2 DEF Elements
  <2> QED
    BY <2>6, <2>7, <2>8 DEF new
<1> QED
  BY <1>1, <1>2

-----------------------------------------------------------------------------
LEMMA InitInv == Init => IInv
<1> SUFFICES ASSUME Init PROVE IInv
  OBVIOUS
<1>1. Types
  BY DEF Init, Types, State, Phases, Nothing
<1>2. Numbered /\ Queued
  BY StateSyncAssumption, LenProperties DEF Init, Numbered, Queued, Elements, Distinct, Waiting
<1>3. Listed /\ Snapshots /\ Ascending /\ MembersAgree
  BY DEF Init, Listed, Snapshots, Ascending, MembersAgree, Current, Elements, Distinct, NotAfter, Nothing
<1> QED
  BY <1>1, <1>2, <1>3 DEF IInv

LEMMA MembersAreClients == IInv => Elements(clients) \subseteq Clients
BY ElementOfSeq DEF IInv, Types, Elements

\* A handler that was neither waiting nor sending joins the queue for the lock.
LEMMA WaitPreserves ==
  ASSUME IInv, NEW c \in Clients, NEW for \in Waiting, phase[c] \notin Waiting, phase[c] # "sending",
         Wait(c, for), UNCHANGED lock, made' \in [Clients -> Nat],
         \A x \in Clients : made'[x] <= Len(Patches[x]),
         \A x \in Clients : phase[x] = "patching" => made'[x] = made[x],
         for = "patching" => made'[c] \in 1..Len(Patches[c])
  PROVE  /\ phase' \in [Clients -> Phases] /\ waiters' \in Seq(Clients) /\ Queued'
         /\ phase'[c] = for /\ \A x \in Clients : x # c => phase'[x] = phase[x]
<1>1. phase' = [phase EXCEPT ![c] = for] /\ waiters' = Append(waiters, c)
  BY DEF Wait
<1>2. /\ waiters' \in Seq(Clients) /\ Elements(waiters') = Elements(waiters) \cup {c}
      /\ Distinct(waiters) /\ c \notin Elements(waiters) => Distinct(waiters')
  BY <1>1, AppendFacts DEF IInv, Types
<1>3. phase' \in [Clients -> Phases] /\ phase'[c] = for /\ \A x \in Clients : x # c => phase'[x] = phase[x]
  BY <1>1 DEF IInv, Types, Waiting, Phases
<1>4. Elements(waiters') = {x \in Clients : phase'[x] \in Waiting} /\ Distinct(waiters')
  BY <1>2, <1>3 DEF IInv, Queued
<1>5. \A x \in Clients : lock = x <=> phase'[x] = "sending"
  BY <1>3 DEF IInv, Queued, Waiting
<1>6. \A x \in Clients : phase'[x] = "patching" => made'[x] \in 1..Len(Patches[x])
  BY <1>3 DEF IInv, Queued
<1> QED
  BY <1>2, <1>3, <1>4, <1>5, <1>6 DEF Queued

LEMMA ConnectPreserves ==
  ASSUME IInv, NEW c \in Clients, Connect(c)
  PROVE  IInv'
<1>1. phase[c] = "out" /\ Wait(c, "joining")
      /\ UNCHANGED <<shared, applied, told, clients, lock, made, socket, sends, seen>>
  BY DEF Connect
<1>2. /\ phase' \in [Clients -> Phases] /\ waiters' \in Seq(Clients) /\ Queued'
      /\ phase'[c] = "joining" /\ \A x \in Clients : x # c => phase'[x] = phase[x]
  BY <1>1, WaitPreserves DEF IInv, Types, Queued, Waiting
<1>3. Types' /\ Numbered'
  BY <1>1, <1>2 DEF IInv, Types, Numbered
<1>4. Listed'
  BY <1>1, <1>2, MembersAreClients DEF IInv, Listed
<1>6. Snapshots'
  BY <1>1, <1>2 DEF IInv, Snapshots
<1>5. Ascending' /\ MembersAgree'
  BY <1>1 DEF IInv, Ascending, MembersAgree, Current
<1> QED
  BY <1>2, <1>3, <1>4, <1>5, <1>6 DEF IInv

LEMMA ReceivePreserves ==
  ASSUME IInv, NEW c \in Clients, Receive(c)
  PROVE  IInv'
<1>1. phase[c] = "ready" /\ UNCHANGED <<shared, applied, told, clients, lock, socket, sends, seen>>
  BY DEF Receive
<1>2. PICK for \in {"patching", "leaving"} :
        /\ Wait(c, for)
        /\ for = "patching" => made[c] < Len(Patches[c]) /\ made' = [made EXCEPT ![c] = @ + 1]
        /\ for = "leaving" => made' = made
  BY DEF Receive
<1>3. /\ made' \in [Clients -> Nat] /\ \A x \in Clients : made'[x] <= Len(Patches[x])
      /\ \A x \in Clients : x # c => made'[x] = made[x]
      /\ for = "patching" => made'[c] \in 1..Len(Patches[c])
  <2>1. Len(Patches[c]) \in Nat
    BY StateSyncAssumption, LenProperties
  <2>2. made \in [Clients -> Nat] /\ \A x \in Clients : made[x] <= Len(Patches[x])
    BY DEF IInv, Types, Queued
  <2>3. CASE for = "leaving"
    BY <1>2, <2>2, <2>3
  <2>4. CASE for = "patching"
    <3>1. made'[c] = made[c] + 1 /\ \A x \in Clients : x # c => made'[x] = made[x]
      BY <1>2, <2>2, <2>4
    <3>2. made' \in [Clients -> Nat]
      BY <1>2, <2>2, <2>4
    <3> QED
      BY <1>2, <2>1, <2>2, <2>4, <3>1, <3>2
  <2> QED
    BY <2>3, <2>4
<1>4. /\ phase' \in [Clients -> Phases] /\ waiters' \in Seq(Clients) /\ Queued'
      /\ phase'[c] = for /\ \A x \in Clients : x # c => phase'[x] = phase[x]
  <2>1. for \in Waiting /\ phase[c] \notin Waiting /\ phase[c] # "sending" /\ UNCHANGED lock
    BY <1>1 DEF Waiting
  <2>2. \A x \in Clients : phase[x] = "patching" => made'[x] = made[x]
    BY <1>1, <1>3
  <2> QED
    BY <1>2, <1>3, <2>1, <2>2, WaitPreserves
<1>5. Types' /\ Numbered'
  BY <1>1, <1>3, <1>4 DEF IInv, Types, Numbered
<1>6. Listed'
  BY <1>1, <1>4, MembersAreClients DEF IInv, Listed, Waiting
<1>8. Snapshots'
  BY <1>1, <1>4 DEF IInv, Snapshots
<1>7. Ascending' /\ MembersAgree'
  BY <1>1 DEF IInv, Ascending, MembersAgree, Current
<1> QED
  BY <1>4, <1>5, <1>6, <1>7, <1>8 DEF IInv

LEMMA UnreadablePreserves ==
  ASSUME IInv, NEW c \in Clients, Unreadable(c)
  PROVE  IInv'
<1>1. /\ phase[c] = "ready" /\ phase' = [phase EXCEPT ![c] = "crashed"]
      /\ socket' = [socket EXCEPT ![c] = "closed"]
      /\ UNCHANGED <<shared, applied, told, clients, lock, waiters, made, sends, seen>>
  BY DEF Unreadable, Crash
<1>2. /\ phase' \in [Clients -> Phases] /\ phase'[c] = "crashed"
      /\ \A x \in Clients : x # c => phase'[x] = phase[x]
  BY <1>1 DEF IInv, Types, Phases
<1>3. /\ socket' \in [Clients -> {"open", "closed"}] /\ socket'[c] = "closed"
      /\ \A x \in Clients : x # c => socket'[x] = socket[x]
  BY <1>1 DEF IInv, Types
<1>4. Types' /\ Numbered'
  BY <1>1, <1>2, <1>3 DEF IInv, Types, Numbered
<1>5. Queued'
  <2>1. Elements(waiters') = {x \in Clients : phase'[x] \in Waiting} /\ Distinct(waiters')
    BY <1>1, <1>2 DEF IInv, Queued, Waiting
  <2>2. \A x \in Clients : lock' = x <=> phase'[x] = "sending"
    BY <1>1, <1>2 DEF IInv, Queued
  <2> QED
    BY <1>1, <1>2, <2>1, <2>2 DEF IInv, Queued
<1>6. Listed'
  BY <1>1, <1>2, <1>3, MembersAreClients DEF IInv, Listed
<1>7. Snapshots'
  BY <1>1, <1>2 DEF IInv, Snapshots
<1>8. Ascending'
  BY <1>1 DEF IInv, Ascending, Current
<1>9. MembersAgree'
  BY <1>1, <1>3, MembersAreClients DEF IInv, MembersAgree, Current
<1> QED
  BY <1>4, <1>5, <1>6, <1>7, <1>8, <1>9 DEF IInv

\* The first in the queue takes the lock, or enters or leaves under it.
LEMMA NextInLine ==
  ASSUME IInv, NEW c \in Clients, HasLock(c), phase[c] \in Waiting,
         NEW to \in Phases \ Waiting, phase' = [phase EXCEPT ![c] = to], waiters' = Tail(waiters),
         lock' = IF to = "sending" THEN c ELSE lock, UNCHANGED made
  PROVE  /\ phase' \in [Clients -> Phases] /\ waiters' \in Seq(Clients) /\ lock' \in Clients \cup {NoOne}
         /\ Queued' /\ phase'[c] = to /\ \A x \in Clients : x # c => phase'[x] = phase[x]
<1>1. lock = NoOne /\ waiters # <<>> /\ Head(waiters) = c /\ NoOne \notin Clients
  BY StateSyncAssumption DEF HasLock
<1>2. /\ waiters' \in Seq(Clients) /\ Elements(waiters') = Elements(waiters) \ {c} /\ Distinct(waiters')
  BY <1>1, TailFacts DEF IInv, Types, Queued
<1>3. phase' \in [Clients -> Phases] /\ phase'[c] = to /\ \A x \in Clients : x # c => phase'[x] = phase[x]
  BY DEF IInv, Types
<1>4. Elements(waiters') = {x \in Clients : phase'[x] \in Waiting}
  BY <1>2, <1>3 DEF IInv, Queued
<1>5. \A x \in Clients : lock' = x <=> phase'[x] = "sending"
  BY <1>1, <1>3 DEF IInv, Queued
<1>6. \A x \in Clients : phase'[x] = "patching" => made[x] \in 1..Len(Patches[x])
  BY <1>3 DEF IInv, Queued, Waiting
<1>7. lock' \in Clients \cup {NoOne}
  BY DEF IInv, Types
<1> QED
  BY <1>2, <1>3, <1>4, <1>5, <1>6, <1>7 DEF IInv, Queued

LEMMA SharedIsState ==
  ASSUME IInv, NEW patch \in Nat
  PROVE  Send(shared, patch) \in Sends /\ Send(shared, patch).state = shared /\ Send(shared, patch).patch = patch
BY DEF IInv, Types, Send, Sends

LEMMA EnterPreserves ==
  ASSUME IInv, NEW c \in Clients, Enter(c)
  PROVE  IInv'
<1> DEFINE first == Send(shared, 0)
<1>1. /\ phase[c] = "joining" /\ HasLock(c) /\ clients' = Append(clients, c) /\ waiters' = Tail(waiters)
      /\ phase' = [phase EXCEPT ![c] = "snapshot"] /\ sends' = [sends EXCEPT ![c] = Append(sends[c], first)]
      /\ UNCHANGED <<shared, applied, told, lock, made, socket, seen>>
  BY DEF Enter
<1>2. first \in Sends /\ first.state = shared /\ first.patch = 0
  BY SharedIsState
<1> HIDE DEF first
<1>3. /\ phase' \in [Clients -> Phases] /\ waiters' \in Seq(Clients) /\ lock' \in Clients \cup {NoOne}
      /\ Queued' /\ phase'[c] = "snapshot" /\ \A x \in Clients : x # c => phase'[x] = phase[x]
  BY <1>1, NextInLine DEF Waiting, Phases
<1>4. sends[c] = <<>> /\ c \notin Elements(clients)
  BY <1>1 DEF IInv, Listed
<1>5. /\ clients' \in Seq(Clients) /\ Elements(clients') = Elements(clients) \cup {c} /\ Distinct(clients')
  BY <1>1, <1>4, AppendFacts DEF IInv, Types, Listed
<1>6. /\ sends' \in [Clients -> Seq(Sends)] /\ sends'[c] = <<first>>
      /\ \A x \in Clients : x # c => sends'[x] = sends[x]
  <2>1. Append(sends[c], first) = <<first>> /\ <<first>> \in Seq(Sends)
    BY <1>2, <1>4
  <2> QED
    BY <1>1, <2>1 DEF IInv, Types
<1>7. DOMAIN <<first>> = {1} /\ <<first>>[1] = first /\ <<first>> # <<>> /\ Last(<<first>>) = first
  BY DEF Last
<1>8. Types' /\ Numbered'
  BY <1>1, <1>3, <1>5, <1>6 DEF IInv, Types, Numbered
<1>9. Listed'
  BY <1>1, <1>3, <1>5, <1>6 DEF IInv, Listed
<1>10. Snapshots'
  BY <1>2, <1>3, <1>6, <1>7 DEF IInv, Snapshots
<1>11. Ascending'
  <2>1. NotAfter(shared, shared) /\ \A i, j \in DOMAIN sends'[c] : ~ (i < j)
    BY <1>6, <1>7 DEF IInv, Types, State, NotAfter
  <2> QED
    BY <1>1, <1>2, <1>5, <1>6, <1>7, <2>1 DEF IInv, Ascending, Current
<1>12. MembersAgree'
  BY <1>1, <1>5, <1>6, <1>7 DEF IInv, MembersAgree, Current
<1> QED
  BY <1>3, <1>8, <1>9, <1>10, <1>11, <1>12 DEF IInv

-----------------------------------------------------------------------------
\* A delta sets the keys it has to the number of its patch, and no key goes back.
LEMMA UpdatedFacts ==
  ASSUME IInv, NEW keys, applied' = applied + 1,
         shared' = [k \in Keys |-> IF k \in keys THEN applied + 1 ELSE shared[k]]
  PROVE  /\ applied' \in Nat /\ shared' \in State /\ \A k \in Keys : shared'[k] <= applied'
         /\ NotAfter(shared, shared')
         /\ \A k \in Keys : shared'[k] # shared[k] => shared'[k] = applied + 1
<1>1. applied \in Nat /\ shared \in [Keys -> Nat] /\ \A k \in Keys : shared[k] <= applied
  BY DEF IInv, Types, State, Numbered
<1>2. \A k \in Keys : shared'[k] = applied + 1 \/ shared'[k] = shared[k]
  OBVIOUS
<1>3. applied + 1 \in Nat
  BY <1>1
<1>4. shared' \in [Keys -> Nat]
  BY <1>1, <1>2, <1>3
<1> QED
  BY <1>1, <1>2, <1>3, <1>4 DEF State, NotAfter

LEMMA ViewsAreStates ==
  ASSUME IInv, NEW x \in Clients
  PROVE  seen[x] \in [Keys -> Int] /\ \A i \in DOMAIN sends[x] : sends[x][i].state \in [Keys -> Int]
<1>1. sends[x] \in Seq(Sends) /\ seen[x] \in [Keys -> Int]
  BY DEF IInv, Types
<1>2. \A i \in DOMAIN sends[x] : sends[x][i] \in Sends
  BY <1>1, ElementOfSeq, LenProperties
<1>3. \A s \in State : s \in [Keys -> Int]
  BY DEF State
<1>4. \A s \in Sends : s.state \in State
  BY DEF Sends
<1> QED
  BY <1>1, <1>2, <1>3, <1>4

\* What is under way to a member of the room grows by the patch, to others it stays.
LEMMA PatchPreserves ==
  ASSUME IInv, NEW c \in Clients, Patch(c)
  PROVE  IInv'
<1> DEFINE keys == Patches[c][made[c]]
           sent == Send(shared', applied + 1)
<1>1. /\ phase[c] = "patching" /\ HasLock(c) /\ applied' = applied + 1 /\ told' = applied + 1
      /\ shared' = [k \in Keys |-> IF k \in keys THEN applied + 1 ELSE shared[k]]
      /\ sends' = [x \in Clients |-> IF x \in Elements(clients) THEN Append(sends[x], sent) ELSE sends[x]]
      /\ lock' = c /\ waiters' = Tail(waiters) /\ phase' = [phase EXCEPT ![c] = "sending"]
      /\ UNCHANGED <<clients, made, socket, seen>>
  BY DEF Patch, Updated, Audience
<1> HIDE DEF keys
<1>3. /\ applied' \in Nat /\ told' \in Nat /\ shared' \in State /\ Numbered' /\ NotAfter(shared, shared')
      /\ Current(shared)'
  <2>1. /\ applied' \in Nat /\ shared' \in State /\ \A k \in Keys : shared'[k] <= applied'
        /\ NotAfter(shared, shared')
    BY <1>1, UpdatedFacts
  <2> QED
    BY <1>1, <2>1 DEF Numbered, Current
<1>4. sent \in Sends /\ sent.state = shared' /\ sent.patch = applied + 1 /\ sent.patch # 0
  BY <1>3 DEF Send, Sends, IInv, Types
<1> HIDE DEF sent
<1>5. /\ phase' \in [Clients -> Phases] /\ waiters' \in Seq(Clients) /\ lock' \in Clients \cup {NoOne}
      /\ Queued' /\ phase'[c] = "sending" /\ \A x \in Clients : x # c => phase'[x] = phase[x]
  BY <1>1, NextInLine DEF Waiting, Phases
<1>6. ASSUME NEW x \in Clients, x \in Elements(clients)
      PROVE  /\ sends'[x] \in Seq(Sends) /\ sends'[x] # <<>> /\ Last(sends'[x]) = sent
             /\ Len(sends[x]) \in Nat /\ DOMAIN sends[x] = 1..Len(sends[x])
             /\ DOMAIN sends'[x] = 1..(Len(sends[x]) + 1)
             /\ sends'[x][Len(sends[x]) + 1] = sent
             /\ \A i \in 1..Len(sends[x]) : sends'[x][i] = sends[x][i]
  <2>1. sends[x] \in Seq(Sends) /\ sends'[x] = Append(sends[x], sent)
    BY <1>1, <1>6 DEF IInv, Types
  <2> QED
    BY <1>4, <2>1, AppendFacts
<1>7. \A x \in Clients : x \notin Elements(clients) => sends'[x] = sends[x]
  BY <1>1
<1>8. sends' \in [Clients -> Seq(Sends)]
  BY <1>1, <1>6, <1>7 DEF IInv, Types
<1>9. Types'
  BY <1>1, <1>3, <1>5, <1>8 DEF IInv, Types
<1>10. Listed'
  <2>1. \A x \in Clients : phase'[x] \in {"out", "joining"} => sends'[x] = <<>>
    BY <1>1, <1>5, <1>7 DEF IInv, Listed
  <2> QED
    BY <1>1, <1>5, <2>1, MembersAreClients DEF IInv, Listed
<1>11. Snapshots'
  <2> SUFFICES ASSUME NEW x \in Clients, NEW i \in DOMAIN sends'[x], sends'[x][i].patch = 0
               PROVE  i = 1 /\ phase'[x] = "snapshot"
    BY DEF Snapshots
  <2>1. i \in DOMAIN sends[x] /\ sends[x][i].patch = 0
    <3>1. CASE x \in Elements(clients)
      BY <1>4, <1>6, <3>1
    <3>2. CASE x \notin Elements(clients)
      BY <1>7, <3>2
    <3> QED
      BY <3>1, <3>2
  <2> QED
    BY <1>1, <1>5, <2>1 DEF IInv, Snapshots
<1>12. ASSUME NEW f \in [Keys -> Int], NotAfter(f, shared) PROVE NotAfter(f, shared')
  BY <1>3, <1>12 DEF NotAfter, IInv, Types, State
<1>13. Ascending'
  <2> SUFFICES ASSUME NEW x \in Clients
               PROVE  /\ \A i \in DOMAIN sends'[x] : /\ NotAfter(seen[x], sends'[x][i].state)
                                                     /\ NotAfter(sends'[x][i].state, shared')
                      /\ \A i, j \in DOMAIN sends'[x] : i < j => NotAfter(sends'[x][i].state, sends'[x][j].state)
                      /\ NotAfter(seen[x], shared')
                      /\ x \in Elements(clients) /\ sends'[x] # <<>> => Current(Last(sends[x]).state)'
    BY <1>1 DEF Ascending, Current
  <2>1. /\ \A i \in DOMAIN sends[x] : /\ NotAfter(seen[x], sends[x][i].state)
                                      /\ NotAfter(sends[x][i].state, shared)
        /\ \A i, j \in DOMAIN sends[x] : i < j => NotAfter(sends[x][i].state, sends[x][j].state)
        /\ NotAfter(seen[x], shared)
    BY DEF IInv, Ascending
  <2>2. seen[x] \in [Keys -> Int] /\ \A i \in DOMAIN sends[x] : sends[x][i].state \in [Keys -> Int]
    BY ViewsAreStates
  <2>3. NotAfter(seen[x], shared') /\ \A i \in DOMAIN sends[x] : NotAfter(sends[x][i].state, shared')
    BY <1>12, <2>1, <2>2
  <2>4. CASE x \notin Elements(clients)
    BY <1>7, <2>1, <2>3, <2>4
  <2>5. CASE x \in Elements(clients)
    <3> DEFINE n   == Len(sends[x])
               new == sends'[x]
    <3>1. /\ n \in Nat /\ DOMAIN sends[x] = 1..n /\ DOMAIN new = 1..(n + 1) /\ new[n + 1] = sent
          /\ \A i \in 1..n : new[i] = sends[x][i] /\ Last(new) = sent
      BY <1>6, <2>5
    <3>2. Last(new).state = shared'
      BY <1>4, <1>6, <2>5
    <3> HIDE DEF n, new
    <3>3. \A i \in 1..(n + 1) : i \in 1..n \/ i = n + 1
      BY <3>1
    <3>4. NotAfter(shared', shared')
      BY <1>3 DEF NotAfter, State
    <3>5. \A i \in 1..(n + 1) : NotAfter(seen[x], new[i].state) /\ NotAfter(new[i].state, shared')
      BY <1>4, <2>1, <2>3, <3>1, <3>3, <3>4
    <3>6. ASSUME NEW i \in 1..(n + 1), NEW j \in 1..(n + 1), i < j PROVE NotAfter(new[i].state, new[j].state)
      <4>1. i \in 1..n /\ (j \in 1..n \/ j = n + 1)
        BY <3>1, <3>6
      <4> QED
        BY <1>4, <2>1, <2>3, <3>1, <3>6, <4>1
    <3> QED
      BY <2>3, <3>1, <3>2, <3>5, <3>6 DEF new, Current
  <2> QED
    BY <2>4, <2>5
<1>14. MembersAgree'
  BY <1>1, <1>6, MembersAreClients DEF MembersAgree
<1> QED
  BY <1>3, <1>5, <1>9, <1>10, <1>11, <1>13, <1>14 DEF IInv

\* A patch that raises leaves what is under way as current as it was: what it changed is after what was sent.
LEMMA PatchRaisesPreserves ==
  ASSUME IInv, NEW c \in Clients, PatchRaises(c)
  PROVE  IInv'
<1>1. PICK part \in SUBSET Patches[c][made[c]] :
        shared' = [k \in Keys |-> IF k \in part THEN applied + 1 ELSE shared[k]]
  BY DEF PatchRaises, Updated
<1>2. /\ phase[c] = "patching" /\ HasLock(c) /\ applied' = applied + 1 /\ waiters' = Tail(waiters)
      /\ phase' = [phase EXCEPT ![c] = "crashed"] /\ socket' = [socket EXCEPT ![c] = "closed"]
      /\ UNCHANGED <<told, clients, lock, made, sends, seen>>
  BY DEF PatchRaises, Crash
<1>3. /\ applied' \in Nat /\ shared' \in State /\ \A k \in Keys : shared'[k] <= applied'
      /\ NotAfter(shared, shared')
      /\ \A k \in Keys : shared'[k] # shared[k] => shared'[k] = applied + 1
  BY <1>1, <1>2, UpdatedFacts
<1>4. applied \in Nat /\ told \in Nat /\ told <= applied /\ shared \in State
  BY DEF IInv, Types, Numbered
<1>5. /\ phase' \in [Clients -> Phases] /\ waiters' \in Seq(Clients) /\ lock' \in Clients \cup {NoOne}
      /\ Queued' /\ phase'[c] = "crashed" /\ \A x \in Clients : x # c => phase'[x] = phase[x]
  BY <1>2, NextInLine DEF Waiting, Phases
<1>6. /\ socket' \in [Clients -> {"open", "closed"}] /\ socket'[c] = "closed"
      /\ \A x \in Clients : x # c => socket'[x] = socket[x]
  BY <1>2 DEF IInv, Types
<1>7. Types' /\ Numbered'
  <2>1. told' \in Nat /\ told' <= applied'
    BY <1>2, <1>4
  <2> QED
    BY <1>2, <1>3, <1>5, <1>6, <2>1 DEF IInv, Types, Numbered
<1>8. Listed'
  BY <1>2, <1>5, <1>6, MembersAreClients DEF IInv, Listed
<1>9. Snapshots'
  BY <1>2, <1>5 DEF IInv, Snapshots
<1>10. ASSUME NEW f \in [Keys -> Int], NotAfter(f, shared) PROVE NotAfter(f, shared')
  BY <1>3, <1>4, <1>10 DEF NotAfter, State
<1>11. ASSUME NEW f, Current(f) PROVE \A k \in Keys : f[k] # shared'[k] => shared'[k] > told'
  <2> SUFFICES ASSUME NEW k \in Keys, f[k] # shared'[k] PROVE shared'[k] > told'
    OBVIOUS
  <2>1. CASE shared'[k] = shared[k]
    BY <1>2, <1>11, <2>1 DEF Current
  <2>2. CASE shared'[k] # shared[k]
    BY <1>2, <1>3, <1>4, <2>2
  <2> QED
    BY <2>1, <2>2
<1>12. Ascending'
  <2> SUFFICES ASSUME NEW x \in Clients
               PROVE  /\ \A i \in DOMAIN sends[x] : /\ NotAfter(seen[x], sends[x][i].state)
                                                    /\ NotAfter(sends[x][i].state, shared')
                      /\ \A i, j \in DOMAIN sends[x] : i < j => NotAfter(sends[x][i].state, sends[x][j].state)
                      /\ NotAfter(seen[x], shared')
                      /\ x \in Elements(clients) /\ sends[x] # <<>> => Current(Last(sends[x]).state)'
    BY <1>2 DEF Ascending, Current
  <2>1. seen[x] \in [Keys -> Int] /\ \A i \in DOMAIN sends[x] : sends[x][i].state \in [Keys -> Int]
    BY ViewsAreStates
  <2>2. /\ \A i \in DOMAIN sends[x] : /\ NotAfter(seen[x], sends[x][i].state)
                                      /\ NotAfter(sends[x][i].state, shared)
        /\ \A i, j \in DOMAIN sends[x] : i < j => NotAfter(sends[x][i].state, sends[x][j].state)
        /\ NotAfter(seen[x], shared)
        /\ x \in Elements(clients) /\ sends[x] # <<>> => Current(Last(sends[x]).state)
    BY DEF IInv, Ascending
  <2> QED
    BY <1>2, <1>10, <1>11, <2>1, <2>2 DEF Current
<1>13. MembersAgree'
  <2> SUFFICES ASSUME NEW x \in Elements(clients), socket'[x] = "open", sends[x] = <<>>
               PROVE  Current(seen[x])'
    BY <1>2 DEF MembersAgree, Current
  <2>1. socket[x] = "open"
    BY <1>6, MembersAreClients
  <2>2. Current(seen[x])
    BY <2>1 DEF IInv, MembersAgree
  <2> QED
    BY <1>2, <1>11, <2>2 DEF Current
<1> QED
  BY <1>5, <1>7, <1>8, <1>9, <1>12, <1>13 DEF IInv

LEMMA GatherReturnsPreserves ==
  ASSUME IInv, NEW c \in Clients, GatherReturns(c)
  PROVE  IInv'
<1>1. /\ phase[c] = "sending" /\ phase' = [phase EXCEPT ![c] = "ready"] /\ lock' = NoOne
      /\ UNCHANGED <<shared, applied, told, clients, waiters, made, socket, sends, seen>>
  BY DEF GatherReturns
<1>2. /\ phase' \in [Clients -> Phases] /\ phase'[c] = "ready"
      /\ \A x \in Clients : x # c => phase'[x] = phase[x]
  BY <1>1 DEF IInv, Types, Phases
<1>3. lock = c /\ NoOne \notin Clients
  BY <1>1, StateSyncAssumption DEF IInv, Queued
<1>4. Elements(waiters') = {x \in Clients : phase'[x] \in Waiting} /\ Distinct(waiters')
  BY <1>1, <1>2 DEF IInv, Queued, Waiting
<1>5. \A x \in Clients : lock' = x <=> phase'[x] = "sending"
  BY <1>1, <1>2, <1>3 DEF IInv, Queued
<1>6. Queued'
  BY <1>1, <1>2, <1>4, <1>5 DEF IInv, Queued
<1>7. Types' /\ Numbered'
  BY <1>1, <1>2 DEF IInv, Types, Numbered
<1>8. Listed'
  BY <1>1, <1>2, MembersAreClients DEF IInv, Listed
<1>9. Snapshots'
  BY <1>1, <1>2 DEF IInv, Snapshots
<1>10. Ascending' /\ MembersAgree'
  BY <1>1 DEF IInv, Ascending, MembersAgree, Current
<1> QED
  BY <1>6, <1>7, <1>8, <1>9, <1>10 DEF IInv

LEMMA LeavePreserves ==
  ASSUME IInv, NEW c \in Clients, Leave(c)
  PROVE  IInv'
<1>1. /\ phase[c] = "leaving" /\ HasLock(c) /\ clients' = Without(clients, c) /\ waiters' = Tail(waiters)
      /\ phase' = [phase EXCEPT ![c] = "gone"] /\ socket' = [socket EXCEPT ![c] = "closed"]
      /\ UNCHANGED <<shared, applied, told, lock, made, sends, seen>>
  BY DEF Leave
<1>2. /\ phase' \in [Clients -> Phases] /\ waiters' \in Seq(Clients) /\ lock' \in Clients \cup {NoOne}
      /\ Queued' /\ phase'[c] = "gone" /\ \A x \in Clients : x # c => phase'[x] = phase[x]
  BY <1>1, NextInLine DEF Waiting, Phases
<1>3. clients' \in Seq(Clients) /\ Distinct(clients') /\ Elements(clients') = Elements(clients) \ {c}
  BY <1>1, WithoutFacts DEF IInv, Types, Listed
<1>4. /\ socket' \in [Clients -> {"open", "closed"}] /\ \A x \in Clients : x # c => socket'[x] = socket[x]
  BY <1>1 DEF IInv, Types
<1>5. Types' /\ Numbered'
  BY <1>1, <1>2, <1>3, <1>4 DEF IInv, Types, Numbered
<1>6. Listed'
  BY <1>1, <1>2, <1>3, <1>4, MembersAreClients DEF IInv, Listed
<1>7. Snapshots'
  BY <1>1, <1>2 DEF IInv, Snapshots
<1>8. Ascending'
  BY <1>1, <1>3 DEF IInv, Ascending, Current
<1>9. MembersAgree'
  BY <1>1, <1>3, <1>4, MembersAreClients DEF IInv, MembersAgree, Current
<1> QED
  BY <1>2, <1>5, <1>6, <1>7, <1>8, <1>9 DEF IInv

LEMMA PeerClosesPreserves ==
  ASSUME IInv, NEW c \in Clients, PeerCloses(c)
  PROVE  IInv'
<1>1. /\ socket' = [socket EXCEPT ![c] = "closed"]
      /\ UNCHANGED <<shared, applied, told, clients, lock, waiters, phase, made, sends, seen>>
  BY DEF PeerCloses
<1>2. /\ socket' \in [Clients -> {"open", "closed"}]
      /\ \A x \in Clients : socket[x] = "closed" => socket'[x] = "closed"
      /\ \A x \in Clients : socket'[x] = "open" => socket[x] = "open"
  BY <1>1 DEF IInv, Types
<1>3. Types' /\ Numbered' /\ Queued' /\ Snapshots' /\ Ascending'
  BY <1>1, <1>2 DEF IInv, Types, Numbered, Queued, Snapshots, Ascending, Current
<1>4. Listed' /\ MembersAgree'
  BY <1>1, <1>2, MembersAreClients DEF IInv, Listed, MembersAgree, Current
<1> QED
  BY <1>3, <1>4 DEF IInv

-----------------------------------------------------------------------------
\* The first send to a client ends, one way or the other: the rest starts from any state not after it.
LEMMA OneSendLess ==
  ASSUME IInv, NEW c \in Clients, sends[c] # <<>>, sends' = [sends EXCEPT ![c] = Tail(sends[c])],
         UNCHANGED <<shared, told, clients>>,
         seen' \in [Clients -> [Keys -> Int]], \A x \in Clients : x # c => seen'[x] = seen[x],
         seen'[c] = seen[c] \/ seen'[c] = Head(sends[c]).state
  PROVE  /\ sends' \in [Clients -> Seq(Sends)] /\ Ascending'
         /\ \A x \in Clients : x # c => sends'[x] = sends[x]
         /\ \A i \in DOMAIN sends'[c] : i + 1 \in DOMAIN sends[c] /\ sends'[c][i] = sends[c][i + 1] /\ i + 1 # 1
         /\ sends'[c] = <<>> /\ c \in Elements(clients) => Current(Head(sends[c]).state)
<1> DEFINE n   == Len(sends[c])
           old == sends[c]
           new == sends'[c]
<1>1. /\ new \in Seq(Sends) /\ n \in Nat \ {0} /\ DOMAIN old = 1..n /\ DOMAIN new = 1..(n - 1)
      /\ \A i \in 1..(n - 1) : new[i] = old[i + 1]
      /\ Head(old) = old[1]
      /\ new # <<>> => Last(new) = Last(old)
      /\ new = <<>> => Last(old) = Head(old)
  <2>1. old \in Seq(Sends) /\ old # <<>> /\ new = Tail(old)
    BY DEF IInv, Types
  <2> HIDE DEF old, new
  <2>2. /\ Tail(old) \in Seq(Sends) /\ Len(old) \in Nat \ {0} /\ DOMAIN old = 1..Len(old)
        /\ DOMAIN Tail(old) = 1..(Len(old) - 1)
        /\ \A i \in 1..(Len(old) - 1) : Tail(old)[i] = old[i + 1]
        /\ Head(old) = old[1]
        /\ Tail(old) # <<>> => Last(Tail(old)) = Last(old)
        /\ Tail(old) = <<>> => Last(old) = Head(old)
    BY <2>1, TailFacts
  <2> QED
    BY <2>1, <2>2 DEF old
<1>2. \A x \in Clients : x # c => sends'[x] = sends[x]
  BY DEF IInv, Types
<1>3. sends' \in [Clients -> Seq(Sends)]
  BY <1>1 DEF IInv, Types
<1>4. /\ \A i \in 1..n : NotAfter(seen[c], old[i].state) /\ NotAfter(old[i].state, shared)
      /\ \A i, j \in 1..n : i < j => NotAfter(old[i].state, old[j].state)
      /\ NotAfter(seen[c], shared)
      /\ c \in Elements(clients) => Current(Last(old).state)
  BY <1>1 DEF IInv, Ascending
<1> HIDE DEF n, old, new
<1>5. \A i \in 1..(n - 1) : i + 1 \in 1..n /\ 1 \in 1..n /\ 1 < i + 1 /\ i + 1 # 1
  BY <1>1
<1>6. /\ \A i \in 1..(n - 1) : NotAfter(seen'[c], new[i].state) /\ NotAfter(new[i].state, shared)
      /\ NotAfter(seen'[c], shared)
  <2>1. 1 \in 1..n
    BY <1>1
  <2>2. CASE seen'[c] = seen[c]
    BY <1>1, <1>4, <1>5, <2>2
  <2>3. CASE seen'[c] = old[1].state
    BY <1>1, <1>4, <1>5, <2>1, <2>3
  <2> QED
    BY <1>1, <2>2, <2>3 DEF old
<1>7. \A i, j \in 1..(n - 1) : i < j => NotAfter(new[i].state, new[j].state)
  <2> TAKE i, j \in 1..(n - 1)
  <2>1. i < j => i + 1 < j + 1
    OBVIOUS
  <2> QED
    BY <1>1, <1>4, <1>5, <2>1
<1>8. c \in Elements(clients) /\ new # <<>> => Current(Last(new).state)
  BY <1>1, <1>4
<1>9. Ascending'
  <2> SUFFICES ASSUME NEW x \in Clients
               PROVE  /\ \A i \in DOMAIN sends'[x] : /\ NotAfter(seen'[x], sends'[x][i].state)
                                                     /\ NotAfter(sends'[x][i].state, shared)
                      /\ \A i, j \in DOMAIN sends'[x] : i < j => NotAfter(sends'[x][i].state, sends'[x][j].state)
                      /\ NotAfter(seen'[x], shared)
                      /\ x \in Elements(clients) /\ sends'[x] # <<>> => Current(Last(sends'[x]).state)
    BY DEF Ascending, Current
  <2>1. CASE x = c
    BY <1>1, <1>6, <1>7, <1>8, <2>1 DEF new
  <2>2. CASE x # c
    BY <1>2, <2>2 DEF IInv, Ascending
  <2> QED
    BY <2>1, <2>2
<1>10. \A i \in DOMAIN new : i + 1 \in DOMAIN old /\ new[i] = old[i + 1] /\ i + 1 # 1
  BY <1>1, <1>5
<1>11. new = <<>> /\ c \in Elements(clients) => Current(Head(old).state)
  BY <1>1, <1>4
<1> QED
  BY <1>2, <1>3, <1>9, <1>10, <1>11 DEF new, old

LEMMA ArrivesPreserves ==
  ASSUME IInv, NEW c \in Clients, Arrives(c)
  PROVE  IInv'
<1> DEFINE now == IF phase[c] = "snapshot" /\ Head(sends[c]).patch = 0 THEN "ready" ELSE phase[c]
<1>1. /\ sends[c] # <<>> /\ socket[c] = "open"
      /\ seen' = [seen EXCEPT ![c] = Head(sends[c]).state]
      /\ sends' = [sends EXCEPT ![c] = Tail(sends[c])]
      /\ phase' = [phase EXCEPT ![c] = now]
      /\ UNCHANGED <<shared, applied, told, clients, lock, waiters, made, socket>>
  BY DEF Arrives
<1>2. /\ sends[c] \in Seq(Sends) /\ DOMAIN sends[c] = 1..Len(sends[c]) /\ 1 \in DOMAIN sends[c]
      /\ Head(sends[c]) = sends[c][1] /\ Head(sends[c]) \in Sends
  <2>1. sends[c] \in Seq(Sends)
    BY DEF IInv, Types
  <2>2. Len(sends[c]) \in Nat \ {0} /\ DOMAIN sends[c] = 1..Len(sends[c])
        /\ Head(sends[c]) = sends[c][1] /\ Head(sends[c]) \in Sends
    BY <1>1, <2>1, TailFacts
  <2> QED
    BY <2>1, <2>2
<1>3. Head(sends[c]).state \in [Keys -> Int]
  BY <1>2 DEF Sends, State
<1>4. /\ seen' \in [Clients -> [Keys -> Int]] /\ seen'[c] = Head(sends[c]).state
      /\ \A x \in Clients : x # c => seen'[x] = seen[x]
  BY <1>1, <1>3 DEF IInv, Types
<1>5. /\ sends' \in [Clients -> Seq(Sends)] /\ Ascending'
      /\ \A x \in Clients : x # c => sends'[x] = sends[x]
      /\ \A i \in DOMAIN sends'[c] : i + 1 \in DOMAIN sends[c] /\ sends'[c][i] = sends[c][i + 1] /\ i + 1 # 1
      /\ sends'[c] = <<>> /\ c \in Elements(clients) => Current(Head(sends[c]).state)
  BY <1>1, <1>4, OneSendLess
<1>6. /\ phase' \in [Clients -> Phases] /\ phase'[c] = now /\ \A x \in Clients : x # c => phase'[x] = phase[x]
      /\ now = phase[c] \/ (phase[c] = "snapshot" /\ now = "ready")
  BY <1>1 DEF IInv, Types, Phases
<1> HIDE DEF now
<1>7. Types' /\ Numbered'
  BY <1>1, <1>4, <1>5, <1>6 DEF IInv, Types, Numbered
<1>8. Queued'
  <2>1. \A x \in Clients : /\ phase'[x] \in Waiting <=> phase[x] \in Waiting
                           /\ phase'[x] = "sending" <=> phase[x] = "sending"
                           /\ phase'[x] = "patching" <=> phase[x] = "patching"
    BY <1>6 DEF Waiting
  <2>2. Elements(waiters') = {x \in Clients : phase'[x] \in Waiting}
    BY <1>1, <2>1 DEF IInv, Queued
  <2> QED
    BY <1>1, <2>1, <2>2 DEF IInv, Queued
<1>9. Listed'
  <2>1. phase[c] \notin {"out", "joining"}
    BY <1>1 DEF IInv, Listed
  <2> QED
    BY <1>1, <1>5, <1>6, <2>1, MembersAreClients DEF IInv, Listed
<1>10. Snapshots'
  <2> SUFFICES ASSUME NEW x \in Clients, NEW i \in DOMAIN sends'[x], sends'[x][i].patch = 0
               PROVE  i = 1 /\ phase'[x] = "snapshot"
    BY DEF Snapshots
  <2>1. x # c
    BY <1>5 DEF IInv, Snapshots
  <2> QED
    BY <1>5, <1>6, <2>1 DEF IInv, Snapshots
<1>11. MembersAgree'
  BY <1>1, <1>4, <1>5, MembersAreClients DEF IInv, MembersAgree, Current
<1> QED
  BY <1>5, <1>7, <1>8, <1>9, <1>10, <1>11 DEF IInv

\* A failing snapshot hits a handler that awaits it, a failing patch the one that holds the lock.
LEMMA HitFacts ==
  ASSUME IInv, NEW c \in Clients, sends[c] # <<>>, NEW h \in Hit(c)
  PROVE  h \in Clients /\ phase[h] \in {"snapshot", "sending"} /\ (phase[h] = "snapshot" => h = c)
<1>1. sends[c] \in Seq(Sends) /\ 1 \in DOMAIN sends[c] /\ Head(sends[c]) = sends[c][1]
  <2>1. sends[c] \in Seq(Sends)
    BY DEF IInv, Types
  <2>2. Len(sends[c]) \in Nat \ {0} /\ DOMAIN sends[c] = 1..Len(sends[c]) /\ Head(sends[c]) = sends[c][1]
    BY <2>1, TailFacts
  <2> QED
    BY <2>1, <2>2
<1>2. CASE Head(sends[c]).patch = 0
  BY <1>1, <1>2 DEF Hit, IInv, Snapshots
<1>3. CASE Head(sends[c]).patch # 0
  BY <1>3 DEF Hit, IInv, Queued
<1> QED
  BY <1>2, <1>3

LEMMA FailsPreserves ==
  ASSUME IInv, NEW c \in Clients, Fails(c)
  PROVE  IInv'
<1>1. /\ sends[c] # <<>> /\ socket[c] = "closed" /\ sends' = [sends EXCEPT ![c] = Tail(sends[c])]
      /\ UNCHANGED <<shared, applied, told, clients, made, seen>>
  BY DEF Fails
<1>2. \/ UNCHANGED <<lock, phase, waiters, socket>>
      \/ \E h \in Hit(c), kind \in {"disconnect", "other"} : Raise(h, kind)
  BY DEF Fails
<1>3. /\ sends' \in [Clients -> Seq(Sends)] /\ Ascending'
      /\ \A x \in Clients : x # c => sends'[x] = sends[x]
      /\ \A i \in DOMAIN sends'[c] : i + 1 \in DOMAIN sends[c] /\ sends'[c][i] = sends[c][i + 1] /\ i + 1 # 1
  <2>1. seen' \in [Clients -> [Keys -> Int]] /\ (\A x \in Clients : x # c => seen'[x] = seen[x]) /\ seen'[c] = seen[c]
    BY <1>1 DEF IInv, Types
  <2> QED
    BY <1>1, <2>1, OneSendLess
<1>4. \A x \in Clients : \A i \in DOMAIN sends'[x] : sends'[x][i].patch = 0 => x # c
  BY <1>3 DEF IInv, Snapshots
<1>5. \A x \in Clients : phase[x] \in {"out", "joining"} => sends'[x] = <<>>
  BY <1>1, <1>3 DEF IInv, Listed
<1>6. CASE UNCHANGED <<lock, phase, waiters, socket>>
  <2>1. Types' /\ Numbered' /\ Queued'
    BY <1>1, <1>3, <1>6 DEF IInv, Types, Numbered, Queued
  <2>2. Listed'
    BY <1>1, <1>5, <1>6 DEF IInv, Listed
  <2>3. Snapshots'
    BY <1>3, <1>4, <1>6 DEF IInv, Snapshots
  <2>4. MembersAgree'
    BY <1>1, <1>3, <1>6, MembersAreClients DEF IInv, MembersAgree, Current
  <2> QED
    BY <1>3, <2>1, <2>2, <2>3, <2>4 DEF IInv
<1>7. ASSUME NEW h \in Hit(c), NEW kind \in {"disconnect", "other"}, Raise(h, kind) PROVE IInv'
  <2>1. h \in Clients /\ phase[h] \in {"snapshot", "sending"} /\ (phase[h] = "snapshot" => h = c)
    BY <1>1, HitFacts
  <2> DEFINE to == IF kind = "disconnect" THEN "leaving" ELSE "crashed"
  <2>2. /\ lock' = IF lock = h THEN NoOne ELSE lock
        /\ phase' = [phase EXCEPT ![h] = to]
        /\ waiters' = IF kind = "disconnect" THEN Append(waiters, h) ELSE waiters
        /\ socket' = IF kind = "disconnect" THEN socket ELSE [socket EXCEPT ![h] = "closed"]
    BY <1>7 DEF Raise, Wait, Crash
  <2>3. /\ phase' \in [Clients -> Phases] /\ phase'[h] = to
        /\ \A x \in Clients : x # h => phase'[x] = phase[x]
    BY <2>1, <2>2 DEF IInv, Types, Phases
  <2>4. /\ waiters' \in Seq(Clients) /\ Distinct(waiters')
        /\ Elements(waiters') = IF kind = "disconnect" THEN Elements(waiters) \cup {h} ELSE Elements(waiters)
    <3>1. waiters \in Seq(Clients) /\ Distinct(waiters) /\ h \notin Elements(waiters)
      BY <2>1 DEF IInv, Types, Queued, Waiting
    <3>2. /\ Append(waiters, h) \in Seq(Clients) /\ Distinct(Append(waiters, h))
          /\ Elements(Append(waiters, h)) = Elements(waiters) \cup {h}
      BY <2>1, <3>1, AppendFacts
    <3> QED
      BY <2>2, <3>1, <3>2
  <2>5. /\ socket' \in [Clients -> {"open", "closed"}]
        /\ \A x \in Clients : socket[x] = "closed" => socket'[x] = "closed"
        /\ \A x \in Clients : socket'[x] = "open" => socket[x] = "open"
        /\ kind = "other" => socket'[h] = "closed"
    BY <2>1, <2>2 DEF IInv, Types
  <2>6. Queued'
    <3>1. Elements(waiters') = {x \in Clients : phase'[x] \in Waiting}
      BY <2>1, <2>3, <2>4 DEF IInv, Queued, Waiting
    <3>2. \A x \in Clients : lock' = x <=> phase'[x] = "sending"
      BY <2>1, <2>2, <2>3, StateSyncAssumption DEF IInv, Queued
    <3>3. \A x \in Clients : phase'[x] = "patching" => phase[x] = "patching"
      BY <2>3
    <3> QED
      BY <1>1, <2>4, <3>1, <3>2, <3>3 DEF IInv, Queued
  <2>7. Types' /\ Numbered'
    BY <1>1, <1>3, <2>2, <2>3, <2>4, <2>5 DEF IInv, Types, Numbered
  <2>8. Listed'
    <3>1. \A x \in Clients : phase'[x] \in {"out", "joining"} => sends'[x] = <<>>
      BY <1>5, <2>3
    <3>2. \A x \in Elements(clients') : /\ phase'[x] \notin {"out", "joining", "gone"}
                                        /\ phase'[x] = "crashed" => socket'[x] = "closed"
      BY <1>1, <2>3, <2>5, MembersAreClients DEF IInv, Listed
    <3> QED
      BY <1>1, <3>1, <3>2 DEF IInv, Listed
  <2>9. Snapshots'
    <3> SUFFICES ASSUME NEW x \in Clients, NEW i \in DOMAIN sends'[x], sends'[x][i].patch = 0
                 PROVE  i = 1 /\ phase'[x] = "snapshot"
      BY DEF Snapshots
    <3>1. x # c
      BY <1>4
    <3>2. i \in DOMAIN sends[x] /\ sends[x][i].patch = 0
      BY <1>3, <3>1
    <3>3. i = 1 /\ phase[x] = "snapshot"
      BY <3>2 DEF IInv, Snapshots
    <3>4. x # h
      BY <2>1, <3>1, <3>3
    <3> QED
      BY <2>3, <3>3, <3>4
  <2>10. MembersAgree'
    BY <1>1, <1>3, <2>5, MembersAreClients DEF IInv, MembersAgree, Current
  <2> QED
    BY <1>3, <2>6, <2>7, <2>8, <2>9, <2>10 DEF IInv
<1> QED
  BY <1>2, <1>6, <1>7

-----------------------------------------------------------------------------
LEMMA NextPreserves == IInv /\ [Next]_vars => IInv'
<1> SUFFICES ASSUME IInv, [Next]_vars PROVE IInv'
  OBVIOUS
<1>1. CASE UNCHANGED vars
  BY <1>1 DEF vars, IInv, Types, Numbered, Queued, Listed, Snapshots, Ascending, MembersAgree, Current
<1>2. ASSUME NEW c \in Clients,
             \/ Connect(c) \/ Receive(c) \/ Unreadable(c) \/ Enter(c) \/ Patch(c) \/ PatchRaises(c)
             \/ GatherReturns(c) \/ Leave(c) \/ PeerCloses(c) \/ Arrives(c) \/ Fails(c)
      PROVE  IInv'
  BY <1>2, ConnectPreserves, ReceivePreserves, UnreadablePreserves, EnterPreserves, PatchPreserves,
     PatchRaisesPreserves, GatherReturnsPreserves, LeavePreserves, PeerClosesPreserves, ArrivesPreserves, FailsPreserves
<1> QED
  BY <1>1, <1>2 DEF Next

LEMMA Invariance == Spec => []IInv
BY InitInv, NextPreserves, PTL DEF Spec

LEMMA WholeFromInv == IInv => RoomIsWhole
<1> SUFFICES ASSUME IInv PROVE RoomIsWhole
  OBVIOUS
<1>1. shared \in [Keys -> 0..applied] /\ told \in 0..applied
  BY DEF IInv, Types, Numbered, State
<1>2. TypeOK
  BY <1>1, MembersAreClients DEF IInv, Types, Queued, Listed, TypeOK, Distinct, Waiting
<1>3. OnlyCrashedLinger
  BY DEF IInv, Listed, OnlyCrashedLinger
<1> QED
  BY <1>2, <1>3 DEF IInv, RoomIsWhole

\* The room's list, its lock and its members' views stay whole: whoever is idle in it has its state but for what
\* patches that raised changed since the last that was sent, whatever sends that fail and clients that leave come
\* between (state_sync, asyncio.gather, apply_delta).
THEOREM RoomStaysWhole == Spec => []RoomIsWhole
BY Invariance, WholeFromInv, PTL

LEMMA NothingUndoneStep == IInv /\ [Next]_vars => [\A c \in Clients, k \in Keys : seen'[c][k] >= seen[c][k]]_vars
<1> SUFFICES ASSUME IInv, Next PROVE \A c \in Clients, k \in Keys : seen'[c][k] >= seen[c][k]
  OBVIOUS
<1>1. seen \in [Clients -> [Keys -> Int]]
  BY DEF IInv, Types
<1>2. PICK d \in Clients : UNCHANGED seen \/ Arrives(d)
  BY DEF Next, Connect, Receive, Unreadable, Enter, Patch, PatchRaises, GatherReturns, Leave, PeerCloses, Fails
<1>3. CASE UNCHANGED seen
  BY <1>1, <1>3
<1>4. CASE Arrives(d)
  <2>1. sends[d] # <<>> /\ seen' = [seen EXCEPT ![d] = Head(sends[d]).state]
    BY <1>4 DEF Arrives
  <2>2. sends[d] \in Seq(Sends)
    BY DEF IInv, Types
  <2>3. 1 \in DOMAIN sends[d] /\ Head(sends[d]) = sends[d][1] /\ Head(sends[d]) \in Sends
    <3>1. Len(sends[d]) \in Nat \ {0} /\ DOMAIN sends[d] = 1..Len(sends[d])
          /\ Head(sends[d]) = sends[d][1] /\ Head(sends[d]) \in Sends
      BY <2>1, <2>2, TailFacts
    <3> QED
      BY <3>1
  <2>4. NotAfter(seen[d], Head(sends[d]).state)
    BY <2>3 DEF IInv, Ascending
  <2>5. Head(sends[d]).state \in [Keys -> Nat]
    BY <2>3 DEF Sends, State
  <2>6. seen'[d] = Head(sends[d]).state /\ \A x \in Clients : x # d => seen'[x] = seen[x]
    BY <1>1, <2>1
  <2>7. \A k \in Keys : seen'[d][k] >= seen[d][k]
    BY <1>1, <2>4, <2>5, <2>6 DEF NotAfter
  <2>8. \A x \in Clients, k \in Keys : x # d => seen'[x][k] >= seen[x][k]
    BY <1>1, <2>6
  <2> QED
    BY <2>7, <2>8
<1> QED
  BY <1>2, <1>3, <1>4

\* Nobody's view of the room goes back: no key a client has seen set by a patch is ever shown to it as an
\* earlier one left it, though sends of a patch that failed are still under way when the next begins.
THEOREM NothingIsUndone == Spec => NothingUndone
BY Invariance, NothingUndoneStep, PTL DEF Spec, NothingUndone

=============================================================================
