------------------------ MODULE DistributedGatewayProofs --------------------
(***************************************************************************)
(* What the distributed gateway promises for any number of nodes, sessions *)
(* and broadcasts: slots and rate are accounted for, a session gets its    *)
(* room's events once and in order, the two queues are one, a state message*)
(* is the last to be dropped, and clocks follow the versions.              *)
(***************************************************************************)
EXTENDS DistributedGateway, TLAPS, FiniteSetTheorems, SequenceTheorems, WellFoundedInduction

-----------------------------------------------------------------------------
(* Sequences                                                                 *)

LEMMA AppendFacts ==
  ASSUME NEW S, NEW seq \in Seq(S), NEW e \in S
  PROVE  /\ Append(seq, e) \in Seq(S) /\ Len(seq) \in Nat
         /\ DOMAIN seq = 1..Len(seq) /\ DOMAIN Append(seq, e) = 1..(Len(seq) + 1)
         /\ Len(Append(seq, e)) = Len(seq) + 1 /\ Append(seq, e)[Len(seq) + 1] = e
         /\ \A i \in 1..Len(seq) : Append(seq, e)[i] = seq[i]
<1>1. /\ Append(seq, e) \in Seq(S) /\ Len(Append(seq, e)) = Len(seq) + 1
      /\ Append(seq, e)[Len(seq) + 1] = e /\ \A i \in 1..Len(seq) : Append(seq, e)[i] = seq[i]
  BY AppendProperties
<1>2. Len(seq) \in Nat /\ DOMAIN seq = 1..Len(seq) /\ DOMAIN Append(seq, e) = 1..Len(Append(seq, e))
  BY <1>1, LenProperties
<1> QED
  BY <1>1, <1>2

\* A part of a sequence that lies in it.
LEMMA SliceFacts ==
  ASSUME NEW S, NEW seq \in Seq(S), NEW a \in Int, NEW b \in Int,
         1 <= a, a <= b + 1, b <= Len(seq)
  PROVE  /\ SubSeq(seq, a, b) \in Seq(S) /\ Len(SubSeq(seq, a, b)) = b - a + 1
         /\ \A i \in 1..(b - a + 1) : SubSeq(seq, a, b)[i] = seq[a + i - 1]
<1>1. \A i \in a..b : seq[i] \in S
  <2> SUFFICES ASSUME NEW i \in a..b PROVE seq[i] \in S
    OBVIOUS
  <2>1. Len(seq) \in Nat
    BY LenProperties
  <2>2. i \in 1..Len(seq)
    BY <2>1
  <2> QED
    BY <2>2, ElementOfSeq
<1>2. /\ SubSeq(seq, a, b) \in Seq(S) /\ Len(SubSeq(seq, a, b)) = IF a <= b THEN b - a + 1 ELSE 0
      /\ \A i \in 1..(b - a + 1) : SubSeq(seq, a, b)[i] = seq[a + i - 1]
  BY <1>1, SubSeqProperties
<1> DEFINE part == SubSeq(seq, a, b)
<1> HIDE DEF part
<1>3. (IF a <= b THEN b - a + 1 ELSE 0) = b - a + 1
  OBVIOUS
<1> QED
  BY <1>2, <1>3

\* Two parts of a sequence put together, the second one first.
LEMMA RotateFacts ==
  ASSUME NEW S, NEW seq \in Seq(S), NEW k \in 0..Len(seq)
  PROVE  /\ RotateLeft(seq, k) \in Seq(S) /\ Len(RotateLeft(seq, k)) = Len(seq)
         /\ \A i \in 1..Len(seq) :
              RotateLeft(seq, k)[i] = IF i <= Len(seq) - k THEN seq[k + i] ELSE seq[i - (Len(seq) - k)]
<1> DEFINE n     == Len(seq)
           front == SubSeq(seq, k + 1, n)
           back  == SubSeq(seq, 1, k)
           all   == RotateLeft(seq, k)
<1>1. n \in Nat /\ k \in 0..n /\ n <= Len(seq) /\ k <= Len(seq)
  BY LenProperties
<1>4. all = front \o back
  BY DEF RotateLeft
<1> HIDE DEF all, n
<1>2. /\ front \in Seq(S) /\ Len(front) = n - (k + 1) + 1
      /\ \A i \in 1..(n - (k + 1) + 1) : front[i] = seq[(k + 1) + i - 1]
  <2>1. (k + 1) \in Int /\ n \in Int /\ 1 <= k + 1 /\ k + 1 <= n + 1
    BY <1>1
  <2> QED
    BY <1>1, <2>1, SliceFacts, ZenonT(30)
<1>3. /\ back \in Seq(S) /\ Len(back) = k - 1 + 1 /\ \A i \in 1..(k - 1 + 1) : back[i] = seq[1 + i - 1]
  <2>1. 1 \in Int /\ k \in Int /\ 1 <= 1 /\ 1 <= k + 1
    BY <1>1
  <2> QED
    BY <1>1, <2>1, SliceFacts, ZenonT(30)
<1> HIDE DEF front, back
<1>5. /\ Len(front) = n - k /\ \A i \in 1..(n - k) : front[i] = seq[k + i]
      /\ Len(back) = k /\ \A i \in 1..k : back[i] = seq[i]
  BY <1>1, <1>2, <1>3
<1>6. /\ all \in Seq(S) /\ Len(all) = (n - k) + k
      /\ \A i \in 1..((n - k) + k) : all[i] = IF i <= n - k THEN front[i] ELSE back[i - (n - k)]
  <2>1. /\ all \in Seq(S) /\ Len(all) = Len(front) + Len(back)
        /\ \A i \in 1..Len(front) + Len(back) :
             all[i] = IF i <= Len(front) THEN front[i] ELSE back[i - Len(front)]
    BY <1>2, <1>3, <1>4, ConcatProperties
  <2> QED
    BY <1>5, <2>1
<1>7. (n - k) + k = n
  BY <1>1
<1>8. ASSUME NEW i \in 1..n PROVE all[i] = IF i <= n - k THEN seq[k + i] ELSE seq[i - (n - k)]
  <2>1. CASE i <= n - k
    BY <1>1, <1>5, <1>6, <1>7, <2>1
  <2>2. CASE ~ (i <= n - k)
    <3>1. i - (n - k) \in 1..k
      BY <1>1, <2>2
    <3> QED
      BY <1>5, <1>6, <1>7, <2>2, <3>1
  <2> QED
    BY <2>1, <2>2
<1> QED
  BY <1>6, <1>7, <1>8 DEF all, n

-----------------------------------------------------------------------------
(* The queue                                                                 *)

LEMMA ListRemoveFacts ==
  ASSUME NEW S, NEW seq \in Seq(S), NEW at \in 1..Len(seq)
  PROVE  /\ ListRemove(seq, at) \in Seq(S) /\ Len(ListRemove(seq, at)) = Len(seq) - 1
         /\ \A i \in 1..(Len(seq) - 1) : ListRemove(seq, at)[i] = IF i < at THEN seq[i] ELSE seq[i + 1]
<1> DEFINE n     == Len(seq)
           front == SubSeq(seq, 1, at - 1)
           back  == SubSeq(seq, at + 1, n)
           new   == ListRemove(seq, at)
<1>1. n \in Nat /\ at \in 1..n /\ n <= Len(seq) /\ at - 1 <= Len(seq)
  BY LenProperties
<1>4. new = front \o back
  BY DEF ListRemove
<1> HIDE DEF new, n
<1>2. /\ front \in Seq(S) /\ Len(front) = at - 1 - 1 + 1 /\ \A i \in 1..(at - 1 - 1 + 1) : front[i] = seq[1 + i - 1]
  <2>1. 1 \in Int /\ at - 1 \in Int /\ 1 <= 1 /\ 1 <= at - 1 + 1
    BY <1>1
  <2> QED
    BY <1>1, <2>1, SliceFacts, ZenonT(30)
<1>3. /\ back \in Seq(S) /\ Len(back) = n - (at + 1) + 1
      /\ \A i \in 1..(n - (at + 1) + 1) : back[i] = seq[(at + 1) + i - 1]
  <2>1. at + 1 \in Int /\ n \in Int /\ 1 <= at + 1 /\ at + 1 <= n + 1
    BY <1>1
  <2> QED
    BY <1>1, <2>1, SliceFacts, ZenonT(30)
<1> HIDE DEF front, back
<1>5. /\ Len(front) = at - 1 /\ \A i \in 1..(at - 1) : front[i] = seq[i]
      /\ Len(back) = n - at /\ \A i \in 1..(n - at) : back[i] = seq[at + i]
  BY <1>1, <1>2, <1>3
<1>6. /\ new \in Seq(S) /\ Len(new) = (at - 1) + (n - at)
      /\ \A i \in 1..((at - 1) + (n - at)) : new[i] = IF i <= at - 1 THEN front[i] ELSE back[i - (at - 1)]
  <2>1. /\ new \in Seq(S) /\ Len(new) = Len(front) + Len(back)
        /\ \A i \in 1..Len(front) + Len(back) :
             new[i] = IF i <= Len(front) THEN front[i] ELSE back[i - Len(front)]
    BY <1>2, <1>3, <1>4, ConcatProperties
  <2> QED
    BY <1>5, <2>1
<1>7. (at - 1) + (n - at) = n - 1
  BY <1>1
<1>8. ASSUME NEW i \in 1..(n - 1) PROVE new[i] = IF i < at THEN seq[i] ELSE seq[i + 1]
  <2>1. CASE i < at
    BY <1>1, <1>5, <1>6, <1>7, <2>1
  <2>2. CASE ~ (i < at)
    <3>1. i - (at - 1) \in 1..(n - at) /\ at + (i - (at - 1)) = i + 1
      BY <1>1, <2>2
    <3> QED
      BY <1>1, <1>5, <1>6, <1>7, <2>2, <3>1
  <2> QED
    BY <2>1, <2>2
<1> QED
  BY <1>6, <1>7, <1>8 DEF new, n

\* Rotating a message to the front, taking it off and rotating back takes it out of the list.
LEMMA RotationsRemove ==
  ASSUME NEW S, NEW seq \in Seq(S), NEW at \in 1..Len(seq)
  PROVE  DequeRemove(seq, at) = ListRemove(seq, at)
<1> DEFINE n       == Len(seq)
           rotated == RotateLeft(seq, at - 1)
           rest    == Tail(rotated)
           deque   == RotateLeft(rest, Len(rest) - (at - 1))
           list    == ListRemove(seq, at)
<1>1. n \in Nat /\ at \in 1..n
  BY LenProperties
<1>2. deque = DequeRemove(seq, at)
  BY DEF DequeRemove
<1>3. /\ rotated \in Seq(S) /\ Len(rotated) = n
      /\ \A i \in 1..n : rotated[i] = IF i <= n - (at - 1) THEN seq[(at - 1) + i] ELSE seq[i - (n - (at - 1))]
  BY <1>1, RotateFacts
<1>4. /\ list \in Seq(S) /\ Len(list) = n - 1
      /\ \A i \in 1..(n - 1) : list[i] = IF i < at THEN seq[i] ELSE seq[i + 1]
  BY ListRemoveFacts
<1> HIDE DEF rotated, list, n
<1>5. rotated # <<>>
  BY <1>1, <1>3, EmptySeq
<1>6. rest \in Seq(S) /\ Len(rest) = n - 1 /\ \A i \in 1..(n - 1) : rest[i] = rotated[i + 1]
  BY <1>3, <1>5, HeadTailProperties
<1>7. Len(rest) - (at - 1) \in 0..Len(rest)
  BY <1>1, <1>6
<1>8. /\ deque \in Seq(S) /\ Len(deque) = Len(rest)
      /\ \A i \in 1..Len(rest) :
           deque[i] = IF i <= Len(rest) - (Len(rest) - (at - 1)) THEN rest[(Len(rest) - (at - 1)) + i]
                      ELSE rest[i - (Len(rest) - (Len(rest) - (at - 1)))]
  <2> HIDE DEF rest
  <2>1. rest \in Seq(S) /\ Len(rest) - (at - 1) \in 0..Len(rest)
    BY <1>6, <1>7
  <2> QED
    BY <2>1, RotateFacts, ZenonT(30)
<1> HIDE DEF rest, deque
<1>9. /\ Len(rest) - (Len(rest) - (at - 1)) = at - 1 /\ Len(rest) - (at - 1) = n - at
  BY <1>1, <1>6
<1>10. \A i \in 1..(n - 1) : deque[i] = IF i <= at - 1 THEN rest[(n - at) + i] ELSE rest[i - (at - 1)]
  BY <1>6, <1>8, <1>9
<1>11. ASSUME NEW i \in 1..(n - 1) PROVE deque[i] = list[i]
  <2>1. CASE i < at
    <3>1. (n - at) + i \in 1..(n - 1) /\ ((n - at) + i) + 1 \in 1..n
          /\ ~ (((n - at) + i) + 1 <= n - (at - 1)) /\ (((n - at) + i) + 1) - (n - (at - 1)) = i
          /\ i <= at - 1
      BY <1>1, <2>1
    <3>2. deque[i] = rest[(n - at) + i]
      BY <1>10, <3>1
    <3>3. rest[(n - at) + i] = rotated[((n - at) + i) + 1]
      BY <1>6, <3>1
    <3>4. rotated[((n - at) + i) + 1] = seq[i]
      BY <1>3, <3>1
    <3> QED
      BY <1>4, <2>1, <3>2, <3>3, <3>4
  <2>2. CASE ~ (i < at)
    <3>1. i - (at - 1) \in 1..(n - 1) /\ (i - (at - 1)) + 1 \in 1..n
          /\ (i - (at - 1)) + 1 <= n - (at - 1) /\ (at - 1) + ((i - (at - 1)) + 1) = i + 1
          /\ ~ (i <= at - 1)
      BY <1>1, <2>2
    <3>2. deque[i] = rest[i - (at - 1)]
      BY <1>10, <3>1
    <3>3. rest[i - (at - 1)] = rotated[(i - (at - 1)) + 1]
      BY <1>6, <3>1
    <3>4. rotated[(i - (at - 1)) + 1] = seq[i + 1]
      BY <1>3, <3>1
    <3> QED
      BY <1>4, <2>2, <3>2, <3>3, <3>4
  <2> QED
    BY <2>1, <2>2
<1>12. Len(deque) = n - 1 /\ \A i \in 1..Len(deque) : deque[i] = list[i]
  BY <1>6, <1>8, <1>11
<1>13. deque = list
  BY <1>4, <1>8, <1>12, SeqEqual
<1> QED
  BY <1>2, <1>13 DEF list

\* A set of indexes has a least one.
LEMMA LeastFacts ==
  ASSUME NEW indexes, indexes \subseteq Nat, indexes # {}
  PROVE  Least(indexes) \in indexes /\ \A j \in indexes : Least(indexes) <= j
<1>1. PICK x \in indexes : \A y \in indexes : ~ (<<y, x>> \in OpToRel(<, Nat))
  BY NatLessThanWellFounded, WFMin
<1>2. \A y \in indexes : x <= y
  <2> SUFFICES ASSUME NEW y \in indexes, ~ (x <= y) PROVE FALSE
    OBVIOUS
  <2>1. x \in Nat /\ y \in Nat /\ y < x
    OBVIOUS
  <2>2. <<y, x>> \in OpToRel(<, Nat)
    BY <2>1 DEF OpToRel
  <2> QED
    BY <1>1, <2>2
<1> QED
  BY <1>2 DEF Least

\* The message to go is one of the queue, and a state message only if all are.
LEMMA DropFacts ==
  ASSUME NEW S, NEW seq \in Seq(S), Len(seq) > 0, \A m \in S : m.priority \in Priorities
  PROVE  /\ DropIndex(seq) \in 1..Len(seq)
         /\ seq[DropIndex(seq)].priority = "state" => \A i \in 1..Len(seq) : seq[i].priority = "state"
<1>1. Len(seq) \in Nat /\ DOMAIN seq = 1..Len(seq) /\ \A i \in 1..Len(seq) : seq[i] \in S
  BY LenProperties, ElementOfSeq
<1> DEFINE effects   == Indexes(seq, "perceptual_effect")
           telemetry == Indexes(seq, "telemetry")
<1>2. /\ effects \subseteq 1..Len(seq) /\ \A i \in effects : seq[i].priority = "perceptual_effect"
      /\ telemetry \subseteq 1..Len(seq) /\ \A i \in telemetry : seq[i].priority = "telemetry"
  BY <1>1 DEF Indexes
<1>3. CASE effects # {}
  <2>1. DropIndex(seq) \in effects
    BY <1>2, <1>3, LeastFacts DEF DropIndex
  <2> QED
    BY <1>2, <2>1
<1>4. CASE effects = {} /\ telemetry # {}
  <2>1. DropIndex(seq) \in telemetry
    BY <1>2, <1>4, LeastFacts DEF DropIndex
  <2> QED
    BY <1>2, <2>1
<1>5. CASE effects = {} /\ telemetry = {}
  <2>1. DropIndex(seq) = 1 /\ 1 \in 1..Len(seq)
    BY <1>1, <1>5 DEF DropIndex
  <2>2. ASSUME NEW i \in 1..Len(seq) PROVE seq[i].priority = "state"
    BY <1>1, <1>5 DEF Indexes, Priorities
  <2> QED
    BY <2>1, <2>2
<1> QED
  BY <1>3, <1>4, <1>5

\* Where each message of a queue stood in the longer one it was taken from.
KeepsOrder(new, longer) ==
  \E f \in [1..Len(new) -> 1..Len(longer)] :
    /\ \A i, j \in 1..Len(new) : i < j => f[i] < f[j]
    /\ \A i \in 1..Len(new) : new[i] = longer[f[i]]

\* The last to be dropped is a state message.
KeepsState(new, longer) ==
  \/ \A i \in 1..Len(longer) : longer[i].priority = "state" => \E j \in 1..Len(new) : new[j] = longer[i]
  \/ \A j \in 1..Len(new) : new[j].priority = "state"

LEMMA RemoveKeeps ==
  ASSUME NEW S, NEW seq \in Seq(S), Len(seq) > 0, \A m \in S : m.priority \in Priorities
  PROVE  LET new == ListRemove(seq, DropIndex(seq))
         IN KeepsOrder(new, seq) /\ KeepsState(new, seq)
<1> DEFINE at  == DropIndex(seq)
           new == ListRemove(seq, at)
           n   == Len(seq)
           f   == [i \in 1..Len(new) |-> IF i < at THEN i ELSE i + 1]
<1>1. n \in Nat /\ at \in 1..n /\ (seq[at].priority = "state" => \A i \in 1..n : seq[i].priority = "state")
  BY LenProperties, DropFacts
<1>2. /\ Len(new) = n - 1
      /\ \A i \in 1..(n - 1) : new[i] = IF i < at THEN seq[i] ELSE seq[i + 1]
  <2> HIDE DEF at
  <2>1. at \in 1..Len(seq)
    BY <1>1
  <2> QED
    BY <2>1, ListRemoveFacts
<1> HIDE DEF at, new, n
<1>3. KeepsOrder(new, seq)
  <2>1. f \in [1..Len(new) -> 1..n]
    BY <1>1, <1>2
  <2>2. \A i, j \in 1..Len(new) : i < j => f[i] < f[j]
    BY <1>1, <1>2
  <2>3. \A i \in 1..Len(new) : new[i] = seq[f[i]]
    BY <1>1, <1>2
  <2> HIDE DEF f
  <2> QED
    BY <2>1, <2>2, <2>3 DEF KeepsOrder, n
<1>4. KeepsState(new, seq)
  <2>1. CASE seq[at].priority = "state"
    <3> SUFFICES ASSUME NEW j \in 1..Len(new) PROVE new[j].priority = "state"
      BY DEF KeepsState
    <3>1. j \in 1..n /\ j + 1 \in 1..n
      BY <1>1, <1>2
    <3> QED
      BY <1>1, <1>2, <2>1, <3>1
  <2>2. CASE seq[at].priority # "state"
    <3> SUFFICES ASSUME NEW i \in 1..n, seq[i].priority = "state" PROVE \E j \in 1..Len(new) : new[j] = seq[i]
      BY DEF KeepsState, n
    <3>1. i # at
      BY <2>2
    <3>2. CASE i < at
      <4>1. i \in 1..(n - 1)
        BY <1>1, <3>2
      <4> QED
        BY <1>2, <3>2, <4>1
    <3>3. CASE i > at
      <4>1. i - 1 \in 1..(n - 1) /\ ~ (i - 1 < at) /\ (i - 1) + 1 = i
        BY <1>1, <3>3
      <4> QED
        BY <1>2, <4>1
    <3> QED
      BY <1>1, <3>1, <3>2, <3>3
  <2> QED
    BY <2>1, <2>2
<1> QED
  BY <1>3, <1>4 DEF new, at

\* push() over the deque and over the list is the same, and leaves a queue within its limit.
LEMMA PushFacts ==
  ASSUME NEW S, NEW queue \in Seq(S), NEW message \in S, NEW max \in Nat \ {0}, Len(queue) <= max,
         \A m \in S : m.priority \in Priorities
  PROVE  /\ PushDeque(queue, message, max) = PushList(queue, message, max)
         /\ PushDeque(queue, message, max) \in Seq(S) /\ Len(PushDeque(queue, message, max)) <= max
         /\ KeepsOrder(PushDeque(queue, message, max), Append(queue, message))
         /\ KeepsState(PushDeque(queue, message, max), Append(queue, message))
<1> DEFINE longer == Append(queue, message)
           new    == PushDeque(queue, message, max)
           list   == PushList(queue, message, max)
<1>1. longer \in Seq(S) /\ Len(queue) \in Nat /\ Len(longer) = Len(queue) + 1
  BY AppendFacts
<1>2. CASE Len(longer) > max
  <2> DEFINE at == DropIndex(longer)
  <2> HIDE DEF longer
  <2>1. at \in 1..Len(longer) /\ Len(longer) > 0
    BY <1>1, DropFacts
  <2>2. KeepsOrder(ListRemove(longer, at), longer) /\ KeepsState(ListRemove(longer, at), longer)
    BY <1>1, <2>1, RemoveKeeps
  <2> HIDE DEF at
  <2>3. /\ DequeRemove(longer, at) = ListRemove(longer, at)
        /\ ListRemove(longer, at) \in Seq(S) /\ Len(ListRemove(longer, at)) = Len(longer) - 1
    BY <1>1, <2>1, ListRemoveFacts, RotationsRemove
  <2>4. new = DequeRemove(longer, at) /\ list = ListRemove(longer, at)
    BY <1>2 DEF PushDeque, PushList, longer, at
  <2>5. Len(longer) - 1 <= max
    BY <1>1
  <2> QED
    BY <2>2, <2>3, <2>4, <2>5 DEF longer
<1>3. CASE ~ (Len(longer) > max)
  <2>1. new = longer /\ list = longer
    BY <1>3 DEF PushDeque, PushList
  <2> HIDE DEF new, list, longer
  <2>2. KeepsOrder(longer, longer)
    <3> DEFINE f == [i \in 1..Len(longer) |-> i]
    <3>1. /\ f \in [1..Len(longer) -> 1..Len(longer)]
          /\ \A i, j \in 1..Len(longer) : i < j => f[i] < f[j]
          /\ \A i \in 1..Len(longer) : longer[i] = longer[f[i]]
      OBVIOUS
    <3> HIDE DEF f
    <3> QED
      BY <3>1 DEF KeepsOrder
  <2>3. KeepsState(longer, longer)
    BY DEF KeepsState
  <2>4. Len(longer) <= max
    BY <1>1, <1>3
  <2> QED
    BY <1>1, <2>1, <2>2, <2>3, <2>4 DEF new, list, longer
<1> QED
  BY <1>2, <1>3

-----------------------------------------------------------------------------
(* Streams: what a session received or a node has to hand out, over a log    *)

Before(l, c, d) == \E i, j \in 1..Len(l) : i < j /\ l[i] = c /\ l[j] = d
Logged(l, c) == \E i \in 1..Len(l) : l[i] = c

\* What waits at a node is in the order of the log.
InLogOrder(waiting, l) ==
  /\ \A i \in 1..Len(waiting) : Logged(l, waiting[i])
  /\ \A i, j \in 1..Len(waiting) : i < j => Before(l, waiting[i], waiting[j])

\* What a session received is of its room, in the order of the log, and before all that waits.
InRoomOrder(stream, room, waiting, l, cs) ==
  /\ \A i \in 1..Len(stream) : Logged(l, stream[i].cast) /\ cs[stream[i].cast].room = room
  /\ \A i, j \in 1..Len(stream) : i < j => Before(l, stream[i].cast, stream[j].cast)
  /\ \A i \in 1..Len(stream), k \in 1..Len(waiting) : Before(l, stream[i].cast, waiting[k])

\* A log that grows keeps its order, and what it held comes before what it gets.
LEMMA LogGrows ==
  ASSUME NEW S, NEW l \in Seq(S), NEW c \in S
  PROVE  /\ Logged(Append(l, c), c)
         /\ \A x : Logged(l, x) => Logged(Append(l, c), x) /\ Before(Append(l, c), x, c)
         /\ \A x, y : Before(l, x, y) => Before(Append(l, c), x, y)
<1> DEFINE n   == Len(l)
           new == Append(l, c)
<1>1. n \in Nat /\ Len(new) = n + 1 /\ new[n + 1] = c /\ \A i \in 1..n : new[i] = l[i]
  BY AppendFacts
<1> HIDE DEF new
<1>2. Logged(new, c)
  BY <1>1 DEF Logged
<1>3. ASSUME NEW x, Logged(l, x) PROVE Logged(new, x) /\ Before(new, x, c)
  <2>1. PICK i \in 1..n : l[i] = x
    BY <1>3 DEF Logged
  <2>2. i \in 1..Len(new) /\ n + 1 \in 1..Len(new) /\ i < n + 1 /\ new[i] = x
    BY <1>1, <2>1
  <2> QED
    BY <1>1, <2>2 DEF Logged, Before
<1>4. ASSUME NEW x, NEW y, Before(l, x, y) PROVE Before(new, x, y)
  <2>1. PICK i, j \in 1..n : i < j /\ l[i] = x /\ l[j] = y
    BY <1>4 DEF Before
  <2>2. i \in 1..Len(new) /\ j \in 1..Len(new) /\ new[i] = x /\ new[j] = y
    BY <1>1, <2>1
  <2> QED
    BY <2>1, <2>2 DEF Before
<1> QED
  BY <1>2, <1>3, <1>4 DEF new

\* A broadcast published now is the last to be handed out.
LEMMA PublishKeepsWaiting ==
  ASSUME NEW S, NEW l \in Seq(S), NEW c \in S, NEW waiting \in Seq(S), InLogOrder(waiting, l),
         NEW next \in {waiting, Append(waiting, c)}
  PROVE  InLogOrder(next, Append(l, c))
<1>1. Len(waiting) \in Nat
  BY LenProperties
<1>2. CASE next = waiting
  BY <1>2, LogGrows DEF InLogOrder
<1>3. CASE next = Append(waiting, c)
  <2>1. /\ Len(next) = Len(waiting) + 1 /\ next[Len(waiting) + 1] = c
        /\ \A i \in 1..Len(waiting) : next[i] = waiting[i]
    BY <1>3, AppendFacts
  <2>2. ASSUME NEW i \in 1..Len(next) PROVE Logged(Append(l, c), next[i])
    <3>1. CASE i = Len(waiting) + 1
      BY <2>1, <3>1, LogGrows
    <3>2. CASE i \in 1..Len(waiting)
      BY <2>1, <3>2, LogGrows DEF InLogOrder
    <3> QED
      BY <1>1, <2>1, <3>1, <3>2
  <2>3. ASSUME NEW i \in 1..Len(next), NEW j \in 1..Len(next), i < j
        PROVE  Before(Append(l, c), next[i], next[j])
    <3>1. i \in 1..Len(waiting) /\ (j \in 1..Len(waiting) \/ j = Len(waiting) + 1)
      BY <1>1, <2>1, <2>3
    <3>2. next[i] = waiting[i] /\ Logged(l, waiting[i])
      BY <2>1, <3>1 DEF InLogOrder
    <3>3. CASE j \in 1..Len(waiting)
      <4>1. next[j] = waiting[j] /\ Before(l, waiting[i], waiting[j])
        BY <2>1, <2>3, <3>1, <3>3 DEF InLogOrder
      <4> QED
        BY <3>2, <4>1, LogGrows
    <3>4. CASE j = Len(waiting) + 1
      BY <2>1, <3>2, <3>4, LogGrows
    <3> QED
      BY <3>1, <3>3, <3>4
  <2> QED
    BY <2>2, <2>3 DEF InLogOrder
<1> QED
  BY <1>2, <1>3

LEMMA PublishKeepsStream ==
  ASSUME NEW S, NEW l \in Seq(S), NEW c \in S, NEW waiting \in Seq(S), NEW stream, NEW room, NEW cs,
         InRoomOrder(stream, room, waiting, l, cs), NEW next \in {waiting, Append(waiting, c)}
  PROVE  InRoomOrder(stream, room, next, Append(l, c), cs)
<1>1. \A i \in 1..Len(stream) : Logged(Append(l, c), stream[i].cast) /\ cs[stream[i].cast].room = room
  BY LogGrows DEF InRoomOrder
<1>2. \A i, j \in 1..Len(stream) : i < j => Before(Append(l, c), stream[i].cast, stream[j].cast)
  BY LogGrows DEF InRoomOrder
<1>3. ASSUME NEW i \in 1..Len(stream), NEW k \in 1..Len(next)
      PROVE  Before(Append(l, c), stream[i].cast, next[k])
  <2>1. CASE k \in 1..Len(waiting) /\ next[k] = waiting[k]
    BY <2>1, LogGrows DEF InRoomOrder
  <2>2. CASE next[k] = c
    BY <2>2, LogGrows DEF InRoomOrder
  <2>3. (k \in 1..Len(waiting) /\ next[k] = waiting[k]) \/ next[k] = c
    <3>1. CASE next = waiting
      BY <3>1
    <3>2. CASE next = Append(waiting, c)
      <4>1. /\ Len(waiting) \in Nat /\ Len(next) = Len(waiting) + 1 /\ next[Len(waiting) + 1] = c
            /\ \A i2 \in 1..Len(waiting) : next[i2] = waiting[i2]
        BY <3>2, AppendFacts
      <4>2. k \in 1..Len(waiting) \/ k = Len(waiting) + 1
        BY <4>1
      <4> QED
        BY <4>1, <4>2
    <3> QED
      BY <3>1, <3>2
  <2> QED
    BY <2>1, <2>2, <2>3
<1> QED
  BY <1>1, <1>2, <1>3 DEF InRoomOrder

\* The first that waits is handed out: the others stay in order and behind every stream.
LEMMA TailStaysBehind ==
  ASSUME NEW S, NEW l, NEW waiting \in Seq(S), waiting # <<>>, InLogOrder(waiting, l)
  PROVE  /\ InLogOrder(Tail(waiting), l) /\ Logged(l, Head(waiting))
         /\ \A k \in 1..Len(Tail(waiting)) : Before(l, Head(waiting), Tail(waiting)[k])
         /\ \A stream, room, cs : InRoomOrder(stream, room, waiting, l, cs)
                                  => InRoomOrder(stream, room, Tail(waiting), l, cs)
<1> DEFINE tail == Tail(waiting)
<1>1. /\ Len(waiting) \in Nat \ {0} /\ Len(tail) = Len(waiting) - 1 /\ Head(waiting) = waiting[1]
      /\ \A i \in 1..Len(tail) : tail[i] = waiting[i + 1]
  BY HeadTailProperties, EmptySeq
<1> HIDE DEF tail
<1>2. \A i \in 1..Len(tail) : i + 1 \in 1..Len(waiting) /\ 1 \in 1..Len(waiting) /\ 1 < i + 1
  BY <1>1
<1>3. 1 \in 1..Len(waiting)
  BY <1>1
<1>4. Logged(l, Head(waiting)) /\ \A k \in 1..Len(tail) : Before(l, Head(waiting), tail[k])
  BY <1>1, <1>2, <1>3 DEF InLogOrder
<1>5. InLogOrder(tail, l)
  <2>1. \A i \in 1..Len(tail) : Logged(l, tail[i])
    BY <1>1, <1>2 DEF InLogOrder
  <2>2. \A i, j \in 1..Len(tail) : i < j => i + 1 < j + 1
    BY <1>1
  <2>3. \A i, j \in 1..Len(tail) : i < j => Before(l, tail[i], tail[j])
    BY <1>1, <1>2, <2>2 DEF InLogOrder
  <2> QED
    BY <2>1, <2>3 DEF InLogOrder
<1>6. ASSUME NEW stream, NEW room, NEW cs, InRoomOrder(stream, room, waiting, l, cs)
      PROVE  InRoomOrder(stream, room, tail, l, cs)
  BY <1>1, <1>2, <1>6 DEF InRoomOrder
<1> QED
  BY <1>4, <1>5, <1>6 DEF tail

\* A queue that keeps its order keeps the stream it ends.
LEMMA PushKeepsStream ==
  ASSUME NEW S, NEW sent \in Seq(S), NEW queue \in Seq(S), NEW message \in S, NEW new \in Seq(S),
         KeepsOrder(new, Append(queue, message)),
         NEW l, NEW room, NEW cs, NEW waiting,
         InRoomOrder(sent \o queue, room, waiting, l, cs), Logged(l, message.cast), cs[message.cast].room = room,
         \A i \in 1..Len(sent \o queue) : Before(l, (sent \o queue)[i].cast, message.cast),
         \A k \in 1..Len(waiting) : Before(l, message.cast, waiting[k])
  PROVE  InRoomOrder(sent \o new, room, waiting, l, cs)
<1> DEFINE a      == Len(sent)
           q      == Len(queue)
           m      == Len(new)
           old    == sent \o queue
           longer == Append(queue, message)
           stream == sent \o new
<1>1. a \in Nat /\ q \in Nat /\ m \in Nat
  BY LenProperties
<1>2. Len(old) = a + q /\ \A i \in 1..(a + q) : old[i] = IF i <= a THEN sent[i] ELSE queue[i - a]
  BY ConcatProperties
<1>3. Len(stream) = a + m /\ \A i \in 1..(a + m) : stream[i] = IF i <= a THEN sent[i] ELSE new[i - a]
  BY ConcatProperties
<1>4. Len(longer) = q + 1 /\ longer[q + 1] = message /\ \A i \in 1..q : longer[i] = queue[i]
  BY AppendFacts
<1> HIDE DEF old, stream, longer
<1>5. PICK f \in [1..m -> 1..(q + 1)] :
        /\ \A i, j \in 1..m : i < j => f[i] < f[j]
        /\ \A i \in 1..m : new[i] = longer[f[i]]
  BY <1>4 DEF KeepsOrder, longer
<1> HIDE DEF a, q, m
<1> DEFINE at == [i \in 1..(a + m) |-> IF i <= a THEN i ELSE a + f[i - a]]
<1>6. ASSUME NEW i \in 1..(a + m)
      PROVE  /\ at[i] \in 1..(a + q + 1)
             /\ at[i] <= a + q => stream[i] = old[at[i]]
             /\ at[i] = a + q + 1 => stream[i] = message
  <2>1. CASE i <= a
    <3>1. at[i] = i /\ i \in 1..(a + q) /\ i # a + q + 1 /\ i \in 1..(a + q + 1)
      BY <1>1, <2>1
    <3>2. stream[i] = sent[i] /\ old[i] = sent[i]
      BY <1>2, <1>3, <2>1, <3>1
    <3> QED
      BY <3>1, <3>2
  <2>2. CASE ~ (i <= a)
    <3>1. i - a \in 1..m
      BY <1>1, <2>2
    <3>2. f[i - a] \in 1..(q + 1) /\ stream[i] = new[i - a] /\ new[i - a] = longer[f[i - a]] /\ at[i] = a + f[i - a]
      BY <1>3, <1>5, <2>2, <3>1
    <3> DEFINE x == f[i - a]
    <3> HIDE DEF x
    <3>3. x \in 1..(q + 1) /\ stream[i] = longer[x] /\ at[i] = a + x
      BY <3>2 DEF x
    <3>4. CASE x = q + 1
      BY <1>1, <1>4, <3>3, <3>4
    <3>5. CASE x \in 1..q
      <4>1. /\ a + x \in 1..(a + q) /\ ~ (a + x <= a) /\ (a + x) - a = x
        BY <1>1, <3>5
      <4>2. stream[i] = queue[x] /\ old[a + x] = queue[x]
        BY <1>2, <1>4, <3>3, <3>5, <4>1
      <4>3. at[i] = a + x /\ stream[i] = old[a + x]
        BY ONLY <3>3, <4>2
      <4>4. a + x \in 1..(a + q + 1) /\ a + x # a + q + 1
        BY ONLY <1>1, <4>1
      <4> HIDE DEF at
      <4> QED
        BY ONLY <4>3, <4>4
    <3> QED
      BY <1>1, <3>3, <3>4, <3>5
  <2> QED
    BY <2>1, <2>2
<1>7. ASSUME NEW i \in 1..(a + m), NEW j \in 1..(a + m), i < j PROVE at[i] < at[j]
  <2>1. CASE j <= a
    BY <1>1, <1>7, <2>1
  <2>2. CASE i <= a /\ ~ (j <= a)
    <3>1. j - a \in 1..m
      BY <1>1, <2>2
    <3> QED
      BY <1>1, <1>5, <2>2, <3>1
  <2>3. CASE ~ (i <= a)
    <3>1. i - a \in 1..m /\ j - a \in 1..m /\ i - a < j - a /\ ~ (j <= a)
      BY <1>1, <1>7, <2>3
    <3>2. f[i - a] < f[j - a] /\ f[i - a] \in Nat /\ f[j - a] \in Nat
      BY <1>5, <3>1
    <3> QED
      BY <1>1, <2>3, <3>1, <3>2
  <2> QED
    BY <2>1, <2>2, <2>3
<1> HIDE DEF at
<1>8. /\ \A i \in 1..(a + q) : Logged(l, old[i].cast) /\ cs[old[i].cast].room = room
      /\ \A i, j \in 1..(a + q) : i < j => Before(l, old[i].cast, old[j].cast)
      /\ \A i \in 1..(a + q), k \in 1..Len(waiting) : Before(l, old[i].cast, waiting[k])
      /\ \A i \in 1..(a + q) : Before(l, old[i].cast, message.cast)
  BY <1>2 DEF InRoomOrder, old
<1>9. \A i \in 1..(a + m) : \/ at[i] \in 1..(a + q) /\ stream[i] = old[at[i]]
                            \/ at[i] = a + q + 1 /\ stream[i] = message
  <2> SUFFICES ASSUME NEW i \in 1..(a + m)
               PROVE  \/ at[i] \in 1..(a + q) /\ stream[i] = old[at[i]]
                      \/ at[i] = a + q + 1 /\ stream[i] = message
    OBVIOUS
  <2>1. at[i] \in 1..(a + q) \/ at[i] = a + q + 1
    BY <1>1, <1>6
  <2>2. at[i] \in 1..(a + q) => at[i] <= a + q
    BY <1>1
  <2> QED
    BY <1>6, <2>1, <2>2
<1>10. ASSUME NEW i \in 1..(a + m)
       PROVE  /\ Logged(l, stream[i].cast) /\ cs[stream[i].cast].room = room
              /\ \A k \in 1..Len(waiting) : Before(l, stream[i].cast, waiting[k])
  BY <1>8, <1>9
<1>11. ASSUME NEW i \in 1..(a + m), NEW j \in 1..(a + m), i < j
       PROVE  Before(l, stream[i].cast, stream[j].cast)
  <2>1. at[i] < at[j]
    BY <1>7, <1>11
  <2>2. at[i] \in 1..(a + q) /\ stream[i] = old[at[i]]
    <3>1. at[i] \in 1..(a + q + 1) /\ at[j] \in 1..(a + q + 1)
      BY <1>6
    <3>2. at[i] # a + q + 1
      BY <1>1, <2>1, <3>1
    <3> QED
      BY <1>9, <3>2
  <2> QED
    BY <1>8, <1>9, <2>1, <2>2
<1> QED
  BY <1>3, <1>10, <1>11 DEF InRoomOrder, stream

-----------------------------------------------------------------------------
(* The invariant                                                             *)

Messages == [cast : Nat, priority : Priorities]
SessionRecs == [node : Nodes, user : Users, room : Rooms, phase : Phases, since : Nat,
                queue : Seq(Messages), sent : Seq(Messages), dropped : Nat, start : Nat]
Gates == [conns : Nat, tokens : Nat, refilled : Nat]
CastRecs == [node : Nodes, room : Rooms, clock : UNION {[{n} -> Nat] : n \in Nodes},
             version : Nat, priority : Priorities]
Broadcasts == 1..Len(casts)

GateTypes ==
  /\ now \in 0..MaxTime /\ gate \in [Nodes -> Gates]
  /\ \A n \in Nodes : gate[n].conns <= MaxConns /\ gate[n].tokens <= Rate * Token /\ gate[n].refilled <= now

SessionTypes ==
  /\ sessions \in Seq(SessionRecs)
  /\ \A s \in 1..Len(sessions) : Len(sessions[s].queue) <= QueueMax
  /\ active \in [Nodes -> [Users -> 0..Len(sessions)]]
  /\ rooms \in [Nodes -> SUBSET Rooms]

BusTypes ==
  /\ casts \in Seq(CastRecs) /\ Len(casts) <= Len(Casts)
  /\ versions \in [Rooms -> 0..Len(casts)]
  /\ log \in Seq(Broadcasts) /\ pending \in [Nodes -> Seq(Broadcasts)]
  /\ handlers \in [Rooms -> Seq(Nodes)]

\* A clock names the node of its broadcast alone, and versions of a room are taken once each.
Clocks ==
  /\ \A c \in Broadcasts : /\ casts[c].clock = [n \in {casts[c].node} |-> casts[c].version]
                           /\ casts[c].version \in 1..versions[casts[c].room]
  /\ \A c, d \in Broadcasts : c # d /\ casts[c].room = casts[d].room => casts[c].version # casts[d].version

\* A node subscribes a room once, what waits at a node is in the order of the log, and so is what its sessions
\* received, all of it before what waits.
Orders ==
  /\ \A r \in Rooms : \A i, j \in 1..Len(handlers[r]) : handlers[r][i] = handlers[r][j] => i = j
  /\ \A n \in Nodes : InLogOrder(pending[n], log)
  /\ \A s \in 1..Len(sessions) :
       InRoomOrder(Received(s), sessions[s].room, pending[sessions[s].node], log, casts)

IInv == GateTypes /\ SessionTypes /\ BusTypes /\ GatekeeperAccounts /\ Clocks /\ Orders

-----------------------------------------------------------------------------
(* What the steps do to the sessions                                         *)

\* Sessions are changed one field at a time: nobody moves.
Same(s) ==
  /\ sessions'[s].node = sessions[s].node /\ sessions'[s].user = sessions[s].user
  /\ sessions'[s].room = sessions[s].room

Edit(s) == Subscribed(s) \/ SubscribeFails(s) \/ SendQueue(s) \/ Expire(s) \/ Disconnect(s)

LEMMA EditOne ==
  ASSUME SessionTypes, NEW s \in 1..Len(sessions), NEW rec \in SessionRecs, Len(rec.queue) <= QueueMax,
         sessions' = [sessions EXCEPT ![s] = rec]
  PROVE  /\ sessions' \in Seq(SessionRecs) /\ Len(sessions') = Len(sessions)
         /\ \A t \in 1..Len(sessions) : sessions'[t] = IF t = s THEN rec ELSE sessions[t]
         /\ \A t \in 1..Len(sessions') : Len(sessions'[t].queue) <= QueueMax
BY ExceptSeq DEF SessionTypes

LEMMA EditFacts ==
  ASSUME GateTypes, SessionTypes, BusTypes, NEW s \in DOMAIN sessions, Edit(s)
  PROVE  /\ s \in 1..Len(sessions)
         /\ sessions' \in Seq(SessionRecs) /\ Len(sessions') = Len(sessions)
         /\ \A t \in 1..Len(sessions) : Same(t) /\ Received(t)' = Received(t)
         /\ \A t \in 1..Len(sessions) : t # s => sessions'[t] = sessions[t]
         /\ \A t \in 1..Len(sessions') : Len(sessions'[t].queue) <= QueueMax
         /\ (\E i \in 1..Len(sessions'[s].queue) : TRUE) => sessions'[s].queue = sessions[s].queue
         /\ sessions[s].phase \in {"subscribing", "live"}
         /\ \/ sessions'[s].phase \in Held /\ gate' = gate
            \/ sessions'[s].phase = "ended" /\ End(s)
         /\ rooms' \in [Nodes -> SUBSET Rooms] /\ UNCHANGED <<now, casts, log, versions, pending>>
<1> DEFINE n == Len(sessions)
<1>1. n \in Nat /\ s \in 1..n /\ sessions[s] \in SessionRecs /\ Len(sessions[s].queue) <= QueueMax
  BY LenProperties, ElementOfSeq DEF SessionTypes
<1>2. log \in Seq(Broadcasts) /\ Len(log) \in Nat
  BY LenProperties DEF BusTypes
<1>3. UNCHANGED <<now, casts, log, versions, pending>>
  BY DEF Edit, Subscribed, SubscribeFails, SendQueue, Expire, Disconnect, End, busVars
<1>4. rooms' \in [Nodes -> SUBSET Rooms]
  <2>1. CASE UNCHANGED rooms
    BY <2>1 DEF SessionTypes
  <2>2. CASE Subscribed(s)
    <3>1. sessions[s].node \in Nodes /\ sessions[s].room \in Rooms
      BY <1>1 DEF SessionRecs
    <3> QED
      BY <2>2, <3>1 DEF Subscribed, SessionTypes
  <2> QED
    BY <2>1, <2>2 DEF Edit, SubscribeFails, SendQueue, Expire, Disconnect, End
<1> DEFINE old == sessions[s]
<1>5. PICK rec \in SessionRecs :
        /\ sessions' = [sessions EXCEPT ![s] = rec]
        /\ rec.node = old.node /\ rec.user = old.user /\ rec.room = old.room
        /\ \/ rec.queue = old.queue /\ rec.sent = old.sent
           \/ rec.queue = <<>> /\ rec.sent = old.sent \o old.queue
  <2>1. CASE Subscribed(s)
    <3> DEFINE rec == [old EXCEPT !.phase = "live", !.start = Len(log)]
    <3>1. sessions' = [sessions EXCEPT ![s] = rec]
      BY <2>1 DEF Subscribed
    <3>2. rec \in SessionRecs
      BY <1>1, <1>2 DEF SessionRecs, Phases
    <3>3. rec.node = old.node /\ rec.user = old.user /\ rec.room = old.room /\ rec.queue = old.queue /\ rec.sent = old.sent
      BY <1>1 DEF SessionRecs
    <3> QED
      BY <3>1, <3>2, <3>3
  <2>2. CASE SubscribeFails(s)
    <3> DEFINE rec == [old EXCEPT !.phase = "lost"]
    <3>1. sessions' = [sessions EXCEPT ![s] = rec]
      BY <2>2 DEF SubscribeFails
    <3>2. rec \in SessionRecs
      BY <1>1 DEF SessionRecs, Phases
    <3>3. rec.node = old.node /\ rec.user = old.user /\ rec.room = old.room /\ rec.queue = old.queue /\ rec.sent = old.sent
      BY <1>1 DEF SessionRecs
    <3> QED
      BY <3>1, <3>2, <3>3
  <2>3. CASE SendQueue(s)
    <3> DEFINE rec == [old EXCEPT !.sent = Received(s), !.queue = <<>>]
    <3>1. sessions' = [sessions EXCEPT ![s] = rec]
      BY <2>3 DEF SendQueue
    <3>2. Received(s) \in Seq(Messages) /\ <<>> \in Seq(Messages)
      BY <1>1, ConcatProperties, EmptySeq DEF SessionRecs, Received
    <3>3. rec \in SessionRecs
      BY <1>1, <3>2 DEF SessionRecs
    <3>4. rec.node = old.node /\ rec.user = old.user /\ rec.room = old.room /\ rec.queue = <<>> /\ rec.sent = old.sent \o old.queue
      BY <1>1 DEF SessionRecs, Received
    <3> QED
      BY <3>1, <3>3, <3>4
  <2>4. CASE Expire(s) \/ Disconnect(s)
    <3> DEFINE rec == [old EXCEPT !.phase = "ended"]
    <3>1. sessions' = [sessions EXCEPT ![s] = rec]
      BY <2>4 DEF Expire, Disconnect, End
    <3>2. rec \in SessionRecs
      BY <1>1 DEF SessionRecs, Phases
    <3>3. rec.node = old.node /\ rec.user = old.user /\ rec.room = old.room /\ rec.queue = old.queue /\ rec.sent = old.sent
      BY <1>1 DEF SessionRecs
    <3> QED
      BY <3>1, <3>2, <3>3
  <2> QED
    BY <2>1, <2>2, <2>3, <2>4 DEF Edit
<1>6. Len(rec.queue) <= QueueMax /\ rec.sent \o rec.queue = Received(s)
  <2>1. old.queue \in Seq(Messages) /\ old.sent \in Seq(Messages) /\ old.sent \o old.queue \in Seq(Messages)
    BY <1>1, ConcatProperties DEF SessionRecs
  <2>2. CASE rec.queue = old.queue /\ rec.sent = old.sent
    BY <1>1, <2>2 DEF Received
  <2>3. CASE rec.queue = <<>> /\ rec.sent = old.sent \o old.queue
    <3>1. Len(<<>>) = 0 /\ (old.sent \o old.queue) \o <<>> = old.sent \o old.queue
      BY <2>1, EmptySeq, ConcatEmptySeq
    <3> QED
      BY <2>3, <3>1, GatewayAssumption DEF Received
  <2> QED
    BY <1>5, <2>2, <2>3
<1>7. /\ sessions' \in Seq(SessionRecs) /\ Len(sessions') = n
      /\ \A t \in 1..n : sessions'[t] = IF t = s THEN rec ELSE sessions[t]
      /\ \A t \in 1..Len(sessions') : Len(sessions'[t].queue) <= QueueMax
  BY <1>1, <1>5, <1>6, EditOne
<1>8. ASSUME NEW t \in 1..n PROVE Same(t) /\ Received(t)' = Received(t)
  BY <1>5, <1>6, <1>7 DEF Same, Received
<1>9. (\E i \in 1..Len(sessions'[s].queue) : TRUE) => sessions'[s].queue = sessions[s].queue
  <2>1. rec.queue = <<>> => 1..Len(rec.queue) = {}
    OBVIOUS
  <2> QED
    BY <1>1, <1>5, <1>7, <2>1
<1>10. sessions[s].phase \in {"subscribing", "live"}
  BY DEF Edit, Subscribed, SubscribeFails, SendQueue, Expire, Disconnect
<1>11. \/ sessions'[s].phase \in Held /\ gate' = gate
       \/ sessions'[s].phase = "ended" /\ End(s)
  <2>1. CASE Subscribed(s)
    <3>1. sessions'[s].phase = "live"
      BY <1>1, <2>1 DEF Subscribed, SessionTypes, SessionRecs
    <3> QED
      BY <2>1, <3>1 DEF Subscribed, Held
  <2>2. CASE SubscribeFails(s)
    <3>1. sessions'[s].phase = "lost"
      BY <1>1, <2>2 DEF SubscribeFails, SessionTypes, SessionRecs
    <3> QED
      BY <2>2, <3>1 DEF SubscribeFails, Held
  <2>3. CASE SendQueue(s)
    <3>1. sessions'[s].phase = "live"
      BY <1>1, <2>3 DEF SendQueue, SessionTypes, SessionRecs
    <3> QED
      BY <2>3, <3>1 DEF SendQueue, Held
  <2>4. CASE Expire(s) \/ Disconnect(s)
    <3>1. End(s)
      BY <2>4 DEF Expire, Disconnect
    <3>2. sessions'[s].phase = "ended"
      BY <1>1, <3>1 DEF End, SessionTypes, SessionRecs
    <3> QED
      BY <3>1, <3>2
  <2> QED
    BY <2>1, <2>2, <2>3, <2>4 DEF Edit
<1> QED
  BY <1>1, <1>3, <1>4, <1>7, <1>8, <1>9, <1>10, <1>11

LEMMA ConnectFacts ==
  ASSUME GateTypes, SessionTypes, BusTypes, NEW node \in Nodes, NEW user \in Users, NEW room \in Rooms,
         Connect(node, user, room)
  PROVE  /\ Len(sessions) \in Nat /\ sessions' \in Seq(SessionRecs) /\ Len(sessions') = Len(sessions) + 1
         /\ \A t \in 1..Len(sessions) : sessions'[t] = sessions[t]
         /\ \A t \in 1..Len(sessions') : t \in 1..Len(sessions) \/ t = Len(sessions) + 1
         /\ sessions'[Len(sessions) + 1].node = node /\ sessions'[Len(sessions) + 1].phase \in Held
         /\ sessions'[Len(sessions) + 1].queue = <<>> /\ sessions'[Len(sessions) + 1].sent = <<>>
         /\ SessionTypes'
<1> DEFINE n   == Len(sessions)
           rec == NewSession(node, user, room, IF room \in rooms[node] THEN "live" ELSE "subscribing")
<1>1. n \in Nat /\ \A t \in 1..n : sessions[t] \in SessionRecs
  BY LenProperties, ElementOfSeq DEF SessionTypes
<1>2. Len(log) \in Nat /\ now \in Nat
  BY LenProperties, GatewayAssumption DEF BusTypes, GateTypes
<1>3. /\ rec.node = node /\ rec.phase \in Held /\ rec.queue = <<>> /\ rec.sent = <<>>
  BY DEF NewSession, Held
<1>4. rec \in SessionRecs
  <2>1. <<>> \in Seq(Messages)
    BY EmptySeq
  <2> QED
    BY <1>2, <2>1 DEF NewSession, SessionRecs, Phases
<1>5. sessions' = Append(sessions, rec) /\ active' = [active EXCEPT ![node][user] = n + 1] /\ rooms' = rooms
  BY DEF Connect
<1> HIDE DEF rec
<1>6. /\ sessions' \in Seq(SessionRecs) /\ Len(sessions') = n + 1 /\ sessions'[n + 1] = rec
      /\ \A t \in 1..n : sessions'[t] = sessions[t]
  BY <1>4, <1>5, AppendProperties DEF SessionTypes
<1>7. \A t \in 1..Len(sessions') : t \in 1..n \/ t = n + 1
  BY <1>1, <1>6
<1>8. \A t \in 1..Len(sessions') : Len(sessions'[t].queue) <= QueueMax
  <2>1. Len(<<>>) = 0 /\ 0 <= QueueMax
    BY EmptySeq, GatewayAssumption
  <2> QED
    BY <1>3, <1>6, <1>7, <2>1 DEF SessionTypes
<1>9. active' \in [Nodes -> [Users -> 0..Len(sessions')]]
  <2>1. active \in [Nodes -> [Users -> 0..n]]
    BY DEF SessionTypes
  <2>2. \A x \in 0..n : x \in 0..(n + 1)
    BY <1>1
  <2>3. active \in [Nodes -> [Users -> 0..(n + 1)]]
    BY <2>1, <2>2
  <2>4. n + 1 \in 0..(n + 1)
    BY <1>1
  <2> HIDE DEF n
  <2> DEFINE Ids == 0..(n + 1)
  <2>5. active \in [Nodes -> [Users -> Ids]] /\ n + 1 \in Ids
    BY <2>3, <2>4
  <2> HIDE DEF Ids
  <2>6. active' \in [Nodes -> [Users -> Ids]]
    BY <1>5, <2>5
  <2> QED
    BY <1>6, <2>6 DEF Ids
<1> QED
  BY <1>1, <1>3, <1>5, <1>6, <1>7, <1>8, <1>9 DEF SessionTypes

\* A function on an initial segment is a sequence.
LEMMA FunctionFacts ==
  ASSUME NEW S, NEW n \in Nat, NEW f \in [1..n -> S]
  PROVE  f \in Seq(S) /\ Len(f) = n
<1>1. f \in Seq(S)
  BY SeqDef
<1>2. DOMAIN f = 1..Len(f) /\ Len(f) \in Nat
  BY <1>1, LenProperties
<1>3. DOMAIN f = 1..n
  OBVIOUS
<1> QED
  BY <1>1, <1>2, <1>3

\* The message a handler hands out.
Handed(n) == [cast |-> Head(pending[n]), priority |-> casts[Head(pending[n])].priority]

LEMMA DeliverFacts ==
  ASSUME GateTypes, SessionTypes, BusTypes, NEW n \in Nodes, Deliver(n)
  PROVE  /\ pending[n] # <<>> /\ Head(pending[n]) \in Broadcasts /\ Handed(n) \in Messages
         /\ sessions' \in Seq(SessionRecs) /\ Len(sessions') = Len(sessions)
         /\ \A t \in 1..Len(sessions) :
              /\ Same(t) /\ sessions'[t].phase = sessions[t].phase /\ sessions'[t].sent = sessions[t].sent
              /\ \/ sessions'[t].queue = sessions[t].queue
                 \/ /\ sessions[t].node = n /\ sessions[t].room = casts[Head(pending[n])].room
                    /\ sessions'[t].queue = PushDeque(sessions[t].queue, Handed(n), QueueMax)
         /\ \A t \in 1..Len(sessions') : Len(sessions'[t].queue) <= QueueMax
<1> DEFINE k == Len(sessions)
           c == Head(pending[n])
           m == Handed(n)
           grown(t) == PushDeque(sessions[t].queue, m, QueueMax)
           rec(t) == IF IsFor(t, n, casts[c].room)
                     THEN [sessions[t] EXCEPT
                             !.queue = PushDeque(@, m, QueueMax),
                             !.dropped = @ + (IF Len(sessions[t].queue) = QueueMax THEN 1 ELSE 0)]
                     ELSE sessions[t]
<1>1. k \in Nat /\ DOMAIN sessions = 1..k /\ \A t \in 1..k : sessions[t] \in SessionRecs
  BY LenProperties, ElementOfSeq DEF SessionTypes
<1>2. pending[n] # <<>> /\ c \in Broadcasts
  BY HeadTailProperties DEF Deliver, BusTypes
<1>3. casts[c] \in CastRecs
  BY <1>2, ElementOfSeq DEF BusTypes, Broadcasts
<1>4. m \in Messages /\ m = [cast |-> c, priority |-> casts[c].priority]
  <2>1. c \in Nat
    <3>1. Len(casts) \in Nat
      BY LenProperties DEF BusTypes
    <3> QED
      BY <1>2, <3>1 DEF Broadcasts
  <2> QED
    BY <1>3, <2>1 DEF Handed, Messages, CastRecs
<1>5. sessions' = [t \in 1..k |-> rec(t)]
  BY <1>1, <1>4 DEF Deliver
<1> HIDE DEF m, c, k
<1>6. ASSUME NEW t \in 1..k
      PROVE  /\ rec(t) \in SessionRecs /\ Len(rec(t).queue) <= QueueMax
             /\ rec(t).node = sessions[t].node /\ rec(t).user = sessions[t].user /\ rec(t).room = sessions[t].room
             /\ rec(t).phase = sessions[t].phase /\ rec(t).sent = sessions[t].sent
             /\ \/ rec(t).queue = sessions[t].queue
                \/ /\ sessions[t].node = n /\ sessions[t].room = casts[c].room
                   /\ rec(t).queue = grown(t)
  <2> DEFINE old == sessions[t]
  <2>1. old \in SessionRecs /\ Len(old.queue) <= QueueMax /\ old.queue \in Seq(Messages)
    BY <1>1 DEF SessionTypes, k, SessionRecs
  <2>2. CASE ~ IsFor(t, n, casts[c].room)
    BY <2>1, <2>2
  <2>3. CASE IsFor(t, n, casts[c].room)
    <3> DEFINE queue == PushDeque(old.queue, m, QueueMax)
               lost  == old.dropped + (IF Len(old.queue) = QueueMax THEN 1 ELSE 0)
               new   == [old EXCEPT !.queue = queue, !.dropped = lost]
    <3>1. \A x \in Messages : x.priority \in Priorities
      BY DEF Messages
    <3>2. queue \in Seq(Messages) /\ Len(queue) <= QueueMax
      BY <1>4, <2>1, <3>1, PushFacts, GatewayAssumption
    <3>3. lost \in Nat
      BY <2>1 DEF SessionRecs
    <3>4. rec(t) = new
      BY <2>3
    <3>5. sessions[t].node = n /\ sessions[t].room = casts[c].room
      BY <2>3 DEF IsFor
    <3>6. grown(t) = queue
      OBVIOUS
    <3> HIDE DEF queue, lost, rec, grown
    <3>7. /\ new \in SessionRecs /\ new.node = old.node /\ new.user = old.user /\ new.room = old.room
          /\ new.phase = old.phase /\ new.sent = old.sent /\ new.queue = queue
      BY <2>1, <3>2, <3>3 DEF SessionRecs
    <3> QED
      BY <3>2, <3>4, <3>5, <3>6, <3>7
  <2> QED
    BY <2>2, <2>3
<1> DEFINE new == [t \in 1..k |-> rec(t)]
<1>7. new \in [1..k -> SessionRecs] /\ \A t \in 1..k : new[t] = rec(t)
  BY <1>6
<1> HIDE DEF new, rec, grown
<1>8. new \in Seq(SessionRecs) /\ Len(new) = k
  BY <1>1, <1>7, FunctionFacts DEF k
<1>9. sessions' = new
  BY <1>5 DEF new
<1>10. \A t \in 1..k : sessions'[t] = rec(t)
  BY <1>7, <1>9
<1> QED
  BY <1>2, <1>4, <1>6, <1>8, <1>9, <1>10 DEF Same, k, c, m, grown

-----------------------------------------------------------------------------
(* The gatekeeper                                                            *)

At(n) == {s \in DOMAIN sessions : sessions[s].node = n}
HeldAt(n) == {s \in DOMAIN sessions : sessions[s].node = n /\ sessions[s].phase \in Held}

LEMMA UpToFinite ==
  ASSUME NEW m \in Nat
  PROVE  IsFiniteSet(1..m)
<1>1. 1 \in Int /\ m \in Int
  OBVIOUS
<1> QED
  BY ONLY <1>1, FS_Interval

LEMMA AtIsFinite ==
  ASSUME SessionTypes, NEW n
  PROVE  /\ IsFiniteSet(At(n)) /\ IsFiniteSet(HeldAt(n))
         /\ Cardinality(At(n)) \in Nat /\ Cardinality(HeldAt(n)) \in Nat
<1>1. Len(sessions) \in Nat /\ DOMAIN sessions = 1..Len(sessions)
  BY LenProperties DEF SessionTypes
<1>2. IsFiniteSet(1..Len(sessions))
  BY ONLY <1>1, UpToFinite
<1>3. At(n) \subseteq 1..Len(sessions) /\ HeldAt(n) \subseteq 1..Len(sessions)
  BY <1>1 DEF At, HeldAt
<1>4. IsFiniteSet(At(n)) /\ IsFiniteSet(HeldAt(n))
  BY <1>2, <1>3, FS_Subset
<1> QED
  BY <1>4, FS_CardinalityType

\* Refilling earns what time has brought and no more than the bucket holds.
LEMMA RefilledFacts ==
  ASSUME NEW g \in Gates, now \in Nat, g.refilled <= now, g.tokens <= Rate * Token
  PROVE  /\ Refilled(g) \in Gates /\ Refilled(g).conns = g.conns /\ Refilled(g).refilled = now
         /\ Refilled(g).tokens <= Rate * Token
         /\ Refilled(g).tokens + g.refilled <= g.tokens + now
<1> DEFINE burst  == Rate * Token
           earned == g.tokens + now - g.refilled
           tokens == Least2(burst, earned)
<1>1. g.tokens \in Nat /\ g.refilled \in Nat /\ g.conns \in Nat
  BY DEF Gates
<1>2. burst \in Nat
  BY GatewayAssumption
<1>3. earned \in Nat
  BY <1>1
<1> HIDE DEF burst
<1>4. tokens \in Nat /\ tokens <= burst /\ tokens <= earned
  BY <1>2, <1>3 DEF Least2
<1> HIDE DEF tokens
<1>5. Refilled(g) = [g EXCEPT !.tokens = tokens, !.refilled = now]
  BY DEF Refilled, tokens, burst
<1>6. /\ Refilled(g) \in Gates /\ Refilled(g).conns = g.conns /\ Refilled(g).refilled = now
      /\ Refilled(g).tokens = tokens
  BY <1>4, <1>5 DEF Gates
<1> QED
  BY <1>1, <1>4, <1>6 DEF burst

\* One more admitted costs a token.
LEMMA OneMore == \A n \in Nat : Token * (n + 1) = Token * n + Token /\ Token * n \in Nat
BY GatewayAssumption

LEMMA ConnectAccounts ==
  ASSUME GateTypes, SessionTypes, BusTypes, GatekeeperAccounts,
         NEW node \in Nodes, NEW user \in Users, NEW room \in Rooms, Connect(node, user, room)
  PROVE  GateTypes' /\ GatekeeperAccounts'
<1> DEFINE k   == Len(sessions)
           old == gate[node]
           g   == Refilled(old)
           new == [g EXCEPT !.tokens = @ - Token, !.conns = @ + 1]
<1>1. /\ k \in Nat /\ sessions' \in Seq(SessionRecs) /\ Len(sessions') = k + 1
      /\ \A t \in 1..k : sessions'[t] = sessions[t]
      /\ sessions'[k + 1].node = node /\ sessions'[k + 1].phase \in Held
  BY ConnectFacts
<1>2. DOMAIN sessions = 1..k /\ DOMAIN sessions' = 1..(k + 1)
  BY <1>1, LenProperties DEF SessionTypes
<1>3. /\ old \in Gates /\ now \in Nat /\ old.refilled <= now /\ old.tokens <= Rate * Token /\ old.conns < MaxConns
  BY GatewayAssumption DEF GateTypes, Connect, HasRoom
<1>4. /\ g \in Gates /\ g.conns = old.conns /\ g.refilled = now /\ g.tokens <= Rate * Token
      /\ g.tokens + old.refilled <= old.tokens + now
  BY <1>3, RefilledFacts
<1>5. g.tokens >= Token /\ gate' = [gate EXCEPT ![node] = new] /\ now' = now
  BY DEF Connect
<1> HIDE DEF g
<1>6. g.tokens \in Nat /\ g.conns \in Nat /\ g.refilled \in Nat
  BY <1>4 DEF Gates
<1>7. /\ new \in Gates /\ new.conns = old.conns + 1 /\ new.refilled = now /\ new.tokens = g.tokens - Token
  <2>1. g.tokens - Token \in Nat /\ g.conns + 1 \in Nat
    BY <1>5, <1>6, GatewayAssumption
  <2>2. new = [g EXCEPT !.tokens = g.tokens - Token, !.conns = g.conns + 1]
    BY <1>4 DEF Gates
  <2> QED
    BY <1>4, <2>1, <2>2 DEF Gates
<1> HIDE DEF new
<1>8. gate \in [Nodes -> Gates] /\ gate' \in [Nodes -> Gates] /\ gate'[node] = new
      /\ \A n \in Nodes : n # node => gate'[n] = gate[n]
  BY <1>5, <1>7 DEF GateTypes
<1>9. GateTypes'
  <2>1. new.conns <= MaxConns /\ new.tokens <= Rate * Token /\ new.refilled <= now
    <3> DEFINE burst == Rate * Token
    <3>1. burst \in Nat /\ g.tokens <= burst
      BY <1>4, GatewayAssumption
    <3> HIDE DEF burst
    <3>2. new.tokens <= burst
      BY <1>6, <1>7, <3>1, GatewayAssumption
    <3>3. old.conns \in Nat
      BY <1>3 DEF Gates
    <3> QED
      BY <1>3, <1>7, <3>2, <3>3, GatewayAssumption DEF burst
  <2> QED
    BY <1>5, <1>8, <2>1 DEF GateTypes
<1>10. /\ At(node)' = At(node) \cup {k + 1} /\ HeldAt(node)' = HeldAt(node) \cup {k + 1}
       /\ \A n \in Nodes : n # node => At(n)' = At(n) /\ HeldAt(n)' = HeldAt(n)
       /\ k + 1 \notin At(node) /\ k + 1 \notin HeldAt(node)
  <2>1. 1..(k + 1) = (1..k) \cup {k + 1} /\ k + 1 \notin 1..k
    BY <1>1
  <2> HIDE DEF k
  <2>2. \A n : At(n) = {s \in 1..k : sessions[s].node = n}
               /\ HeldAt(n) = {s \in 1..k : sessions[s].node = n /\ sessions[s].phase \in Held}
    BY <1>2 DEF At, HeldAt
  <2>3. \A n : At(n)' = {s \in 1..(k + 1) : sessions'[s].node = n}
               /\ HeldAt(n)' = {s \in 1..(k + 1) : sessions'[s].node = n /\ sessions'[s].phase \in Held}
    BY <1>2 DEF At, HeldAt
  <2>4. At(node)' = At(node) \cup {k + 1} /\ HeldAt(node)' = HeldAt(node) \cup {k + 1}
    BY <1>1, <2>1, <2>2, <2>3
  <2>5. \A n \in Nodes : n # node => At(n)' = At(n) /\ HeldAt(n)' = HeldAt(n)
    BY <1>1, <2>1, <2>2, <2>3
  <2> QED
    BY <2>1, <2>2, <2>4, <2>5
<1>11. /\ Cardinality(At(node)') = Cardinality(At(node)) + 1
       /\ Cardinality(HeldAt(node)') = Cardinality(HeldAt(node)) + 1
  <2> DEFINE at == At(node)
             held == HeldAt(node)
             e == k + 1
  <2>1. IsFiniteSet(at) /\ IsFiniteSet(held) /\ e \notin at /\ e \notin held
    BY <1>10, AtIsFinite
  <2>2. At(node)' = at \cup {e} /\ HeldAt(node)' = held \cup {e}
    BY <1>10
  <2> HIDE DEF at, held, e
  <2>3. Cardinality(at \cup {e}) = Cardinality(at) + 1
    BY <2>1, FS_AddElement
  <2>4. Cardinality(held \cup {e}) = Cardinality(held) + 1
    BY <2>1, FS_AddElement
  <2> QED
    BY <2>2, <2>3, <2>4 DEF at, held
<1>12. SlotsAccounted'
  <2>1. \A n \in Nodes : gate[n].conns = Cardinality(HeldAt(n))
    BY DEF GatekeeperAccounts, SlotsAccounted, HeldAt
  <2>2. \A n \in Nodes : gate'[n].conns = Cardinality(HeldAt(n)')
    BY <1>7, <1>8, <1>10, <1>11, <2>1
  <2> QED
    BY <2>2 DEF SlotsAccounted, HeldAt
<1>13. RateIsKept'
  <2>1. \A n \in Nodes : Token * Cardinality(At(n)) + gate[n].tokens <= Token * Rate + gate[n].refilled
    BY DEF GatekeeperAccounts, RateIsKept, At
  <2>2. Token * Cardinality(At(node)') + gate'[node].tokens <= Token * Rate + gate'[node].refilled
    <3> DEFINE x == Cardinality(At(node))
               spent == Token * x
               all   == Token * Rate
    <3>1. x \in Nat
      BY AtIsFinite
    <3>2. Token * Cardinality(At(node)') = spent + Token /\ spent \in Nat
      BY <1>11, <3>1, OneMore
    <3>3. all \in Nat /\ spent + old.tokens <= all + old.refilled
      BY <2>1, GatewayAssumption
    <3> HIDE DEF spent, all
    <3>4. /\ old.tokens \in Nat /\ old.refilled \in Nat /\ now \in Nat
          /\ g.tokens + old.refilled <= old.tokens + now
      BY <1>3, <1>4 DEF Gates
    <3>5. Token \in Nat
      BY GatewayAssumption
    <3>6. spent + Token + (g.tokens - Token) <= all + now
      BY <1>6, <3>2, <3>3, <3>4, <3>5
    <3> QED
      BY <1>7, <1>8, <3>2, <3>6 DEF all
  <2>3. \A n \in Nodes : Token * Cardinality(At(n)') + gate'[n].tokens <= Token * Rate + gate'[n].refilled
    BY <1>8, <1>10, <2>1, <2>2
  <2> QED
    BY <2>3 DEF RateIsKept, At
<1> QED
  BY <1>9, <1>12, <1>13 DEF GatekeeperAccounts

LEMMA RefuseAccounts ==
  ASSUME GateTypes, SessionTypes, GatekeeperAccounts, NEW node \in Nodes, Refuse(node)
  PROVE  GateTypes' /\ GatekeeperAccounts'
<1> DEFINE old == gate[node]
           g   == Refilled(old)
<1>1. /\ old \in Gates /\ now \in Nat /\ old.refilled <= now /\ old.tokens <= Rate * Token /\ old.conns <= MaxConns
  BY GatewayAssumption DEF GateTypes
<1>2. /\ g \in Gates /\ g.conns = old.conns /\ g.refilled = now /\ g.tokens <= Rate * Token
      /\ g.tokens + old.refilled <= old.tokens + now
  BY <1>1, RefilledFacts
<1>3. gate' = [gate EXCEPT ![node] = g] /\ now' = now /\ sessions' = sessions
  BY DEF Refuse
<1> HIDE DEF g
<1>4. gate \in [Nodes -> Gates] /\ gate' \in [Nodes -> Gates] /\ gate'[node] = g
      /\ \A n \in Nodes : n # node => gate'[n] = gate[n]
  BY <1>2, <1>3 DEF GateTypes
<1>5. GateTypes'
  BY <1>1, <1>2, <1>3, <1>4 DEF GateTypes
<1>6. SlotsAccounted'
  BY <1>2, <1>3, <1>4 DEF GatekeeperAccounts, SlotsAccounted
<1>7. RateIsKept'
  <2>1. \A n \in Nodes : Token * Cardinality(At(n)) + gate[n].tokens <= Token * Rate + gate[n].refilled
    BY DEF GatekeeperAccounts, RateIsKept, At
  <2>2. Token * Cardinality(At(node)) + g.tokens <= Token * Rate + now
    <3> DEFINE spent == Token * Cardinality(At(node))
               all   == Token * Rate
    <3>1. Cardinality(At(node)) \in Nat
      BY AtIsFinite
    <3>2. spent \in Nat /\ all \in Nat
      BY <3>1, OneMore, GatewayAssumption
    <3>3. spent + old.tokens <= all + old.refilled
      BY <2>1
    <3> HIDE DEF spent, all
    <3>4. old.tokens \in Nat /\ old.refilled \in Nat /\ g.tokens \in Nat
      BY <1>1, <1>2 DEF Gates
    <3>5. spent + g.tokens <= all + now
      BY <1>1, <1>2, <3>2, <3>3, <3>4
    <3> QED
      BY <3>5 DEF spent, all
  <2>3. \A n \in Nodes : Token * Cardinality(At(n)) + gate'[n].tokens <= Token * Rate + gate'[n].refilled
    BY <1>2, <1>4, <2>1, <2>2
  <2>4. \A n : At(n)' = At(n)
    BY <1>3 DEF At
  <2> QED
    BY <1>3, <2>3 DEF RateIsKept, At
<1> QED
  BY <1>5, <1>6, <1>7 DEF GatekeeperAccounts

LEMMA EditAccounts ==
  ASSUME GateTypes, SessionTypes, BusTypes, GatekeeperAccounts, NEW s \in DOMAIN sessions, Edit(s)
  PROVE  GateTypes' /\ GatekeeperAccounts'
<1> DEFINE k == Len(sessions)
<1>1. /\ s \in 1..k /\ sessions' \in Seq(SessionRecs) /\ Len(sessions') = k
      /\ \A t \in 1..k : Same(t)
      /\ \A t \in 1..k : t # s => sessions'[t] = sessions[t]
      /\ sessions[s].phase \in {"subscribing", "live"}
      /\ \/ sessions'[s].phase \in Held /\ gate' = gate
         \/ sessions'[s].phase = "ended" /\ End(s)
      /\ now' = now
  BY EditFacts
<1>2. DOMAIN sessions = 1..k /\ DOMAIN sessions' = 1..k /\ sessions[s] \in SessionRecs
  BY <1>1, LenProperties, ElementOfSeq DEF SessionTypes
<1>3. PICK node \in Nodes : node = sessions[s].node
  BY <1>2 DEF SessionRecs
<1>4. \A n : At(n)' = At(n)
  BY <1>1, <1>2 DEF At, Same
<1>5. sessions[s].phase \in Held
  BY <1>1 DEF Held
<1>6. \A n \in Nodes : gate[n].conns = Cardinality(HeldAt(n))
  BY DEF GatekeeperAccounts, SlotsAccounted, HeldAt
<1>7. \A n \in Nodes : Token * Cardinality(At(n)) + gate[n].tokens <= Token * Rate + gate[n].refilled
  BY DEF GatekeeperAccounts, RateIsKept, At
<1>8. CASE sessions'[s].phase \in Held /\ gate' = gate
  <2>1. \A n : HeldAt(n)' = HeldAt(n)
    BY <1>1, <1>2, <1>5, <1>8 DEF HeldAt, Same
  <2>2. SlotsAccounted'
    BY <1>6, <1>8, <2>1 DEF SlotsAccounted, HeldAt
  <2>3. RateIsKept'
    BY <1>4, <1>7, <1>8 DEF RateIsKept, At
  <2>4. GateTypes'
    BY <1>1, <1>8 DEF GateTypes
  <2> QED
    BY <2>2, <2>3, <2>4 DEF GatekeeperAccounts
<1>9. CASE sessions'[s].phase = "ended" /\ End(s)
  <2>1. HeldAt(node)' = HeldAt(node) \ {s} /\ \A n \in Nodes : n # node => HeldAt(n)' = HeldAt(n)
    <3>1. sessions'[s].phase \notin Held
      BY <1>9 DEF Held
    <3>2. \A n : HeldAt(n) = {t \in 1..k : sessions[t].node = n /\ sessions[t].phase \in Held}
      BY <1>2 DEF HeldAt
    <3>3. \A n : HeldAt(n)' = {t \in 1..k : sessions'[t].node = n /\ sessions'[t].phase \in Held}
      BY <1>2 DEF HeldAt
    <3> QED
      BY <1>1, <1>3, <3>1, <3>2, <3>3 DEF Same
  <2>2. s \in HeldAt(node)
    BY <1>3, <1>5 DEF HeldAt
  <2>3. Cardinality(HeldAt(node)') = Cardinality(HeldAt(node)) - 1
    BY <2>1, <2>2, AtIsFinite, FS_RemoveElement
  <2>4. Cardinality(HeldAt(node)) # 0 /\ Cardinality(HeldAt(node)) \in Nat
    BY <2>2, AtIsFinite, FS_EmptySet
  <2> DEFINE new == [gate[node] EXCEPT !.conns = gate[node].conns - 1]
  <2>5. gate' = [gate EXCEPT ![node] = new]
    <3>1. gate' = [gate EXCEPT ![node].conns = IF @ = 0 THEN 0 ELSE @ - 1]
      BY <1>3, <1>9 DEF End
    <3>2. gate[node].conns # 0
      BY <1>3, <1>6, <2>4
    <3> QED
      BY <3>1, <3>2
  <2>6. gate[node] \in Gates /\ gate[node].conns \in Nat \ {0}
    BY <1>3, <1>6, <2>4 DEF GateTypes
  <2>7. new \in Gates /\ new.conns = gate[node].conns - 1 /\ new.tokens = gate[node].tokens /\ new.refilled = gate[node].refilled
    BY <2>6 DEF Gates
  <2> HIDE DEF new
  <2>8. gate' \in [Nodes -> Gates] /\ gate'[node] = new /\ \A n \in Nodes : n # node => gate'[n] = gate[n]
    BY <1>3, <2>5, <2>7 DEF GateTypes
  <2>9. SlotsAccounted'
    <3> SUFFICES ASSUME NEW n \in Nodes PROVE gate'[n].conns = Cardinality(HeldAt(n)')
      BY DEF SlotsAccounted, HeldAt
    <3>1. CASE n = node
      <4>1. gate'[node].conns = Cardinality(HeldAt(node)')
        BY <1>3, <1>6, <2>3, <2>7, <2>8
      <4> QED
        BY <3>1, <4>1
    <3>2. CASE n # node
      <4>1. HeldAt(n)' = HeldAt(n)
        BY <2>1, <3>2
      <4>2. gate'[n] = gate[n]
        BY <2>8, <3>2
      <4>3. gate[n].conns = Cardinality(HeldAt(n))
        BY <1>6
      <4> QED
        BY <4>1, <4>2, <4>3
    <3> QED
      BY <3>1, <3>2
  <2>10. RateIsKept'
    <3>1. \A n \in Nodes : gate'[n].tokens = gate[n].tokens /\ gate'[n].refilled = gate[n].refilled
      BY <1>3, <2>7, <2>8
    <3> QED
      BY <1>4, <1>7, <3>1 DEF RateIsKept, At
  <2>11. GateTypes'
    <3>1. \A n \in Nodes : gate'[n].conns <= MaxConns /\ gate'[n].tokens <= Rate * Token /\ gate'[n].refilled <= now
      <4>1. new.conns <= MaxConns
        BY <1>3, <2>6, <2>7, GatewayAssumption DEF GateTypes
      <4> QED
        BY <1>3, <2>7, <2>8, <4>1 DEF GateTypes
    <3> QED
      BY <1>1, <2>8, <3>1 DEF GateTypes
  <2> QED
    BY <2>9, <2>10, <2>11 DEF GatekeeperAccounts
<1> QED
  BY <1>1, <1>8, <1>9

LEMMA DeliverAccounts ==
  ASSUME GateTypes, SessionTypes, BusTypes, GatekeeperAccounts, NEW n \in Nodes, Deliver(n)
  PROVE  GateTypes' /\ GatekeeperAccounts'
<1>1. /\ sessions' \in Seq(SessionRecs) /\ Len(sessions') = Len(sessions)
      /\ \A t \in 1..Len(sessions) : Same(t) /\ sessions'[t].phase = sessions[t].phase
  BY DeliverFacts
<1>2. DOMAIN sessions = 1..Len(sessions) /\ DOMAIN sessions' = 1..Len(sessions)
  BY <1>1, LenProperties DEF SessionTypes
<1>3. \A x : At(x)' = At(x) /\ HeldAt(x)' = HeldAt(x)
  BY <1>1, <1>2 DEF At, HeldAt, Same
<1>4. gate' = gate /\ now' = now
  BY DEF Deliver
<1>5. SlotsAccounted'
  BY <1>3, <1>4 DEF GatekeeperAccounts, SlotsAccounted, HeldAt
<1>6. RateIsKept'
  BY <1>3, <1>4 DEF GatekeeperAccounts, RateIsKept, At
<1> QED
  BY <1>4, <1>5, <1>6 DEF GatekeeperAccounts, GateTypes

-----------------------------------------------------------------------------
(* The bus                                                                   *)

LEMMA HandlersStayDistinct ==
  ASSUME SessionTypes, BusTypes, Orders, NEW s \in DOMAIN sessions, Edit(s)
  PROVE  /\ handlers' \in [Rooms -> Seq(Nodes)]
         /\ \A r \in Rooms : \A i, j \in 1..Len(handlers'[r]) : handlers'[r][i] = handlers'[r][j] => i = j
<1>1. CASE UNCHANGED handlers
  BY <1>1 DEF BusTypes, Orders
<1>2. CASE Subscribed(s)
  <2>1. sessions[s] \in SessionRecs
    <3>1. s \in 1..Len(sessions)
      BY LenProperties DEF SessionTypes
    <3> QED
      BY <3>1, ElementOfSeq DEF SessionTypes
  <2>2. PICK node \in Nodes, room \in Rooms : node = sessions[s].node /\ room = sessions[s].room
    BY <2>1 DEF SessionRecs
  <2> DEFINE old == handlers[room]
             new == Added(old, node)
  <2>3. handlers' = [handlers EXCEPT ![room] = new]
    BY <1>2, <2>2 DEF Subscribed
  <2>4. old \in Seq(Nodes) /\ \A i, j \in 1..Len(old) : old[i] = old[j] => i = j
    BY <2>2 DEF BusTypes, Orders
  <2>5. new \in Seq(Nodes) /\ \A i, j \in 1..Len(new) : new[i] = new[j] => i = j
    <3>1. CASE node \in Elements(old)
      BY <2>4, <3>1 DEF Added
    <3>2. CASE node \notin Elements(old)
      <4>1. new = Append(old, node)
        BY <3>2 DEF Added
      <4> HIDE DEF old, new
      <4>2. /\ new \in Seq(Nodes) /\ Len(old) \in Nat /\ Len(new) = Len(old) + 1 /\ DOMAIN old = 1..Len(old)
            /\ new[Len(old) + 1] = node /\ \A i \in 1..Len(old) : new[i] = old[i]
        BY <2>2, <2>4, <4>1, AppendFacts
      <4>3. \A i \in 1..Len(old) : old[i] # node
        BY <3>2, <4>2 DEF Elements
      <4>4. \A i \in 1..Len(new) : i \in 1..Len(old) \/ i = Len(old) + 1
        BY <4>2
      <4> QED
        BY <2>4, <4>2, <4>3, <4>4
    <3> QED
      BY <3>1, <3>2
  <2> HIDE DEF new
  <2>6. handlers' \in [Rooms -> Seq(Nodes)] /\ handlers'[room] = new
        /\ \A r \in Rooms : r # room => handlers'[r] = handlers[r]
    BY <2>2, <2>3, <2>5 DEF BusTypes
  <2>7. ASSUME NEW r \in Rooms, NEW i \in 1..Len(handlers'[r]), NEW j \in 1..Len(handlers'[r]),
               handlers'[r][i] = handlers'[r][j]
        PROVE  i = j
    <3>1. CASE r = room
      BY <2>5, <2>6, <2>7, <3>1
    <3>2. CASE r # room
      BY <2>6, <2>7, <3>2 DEF Orders
    <3> QED
      BY <3>1, <3>2
  <2> QED
    BY <2>6, <2>7
<1> QED
  BY <1>1, <1>2 DEF Edit, SubscribeFails, SendQueue, Expire, Disconnect, End, busVars

LEMMA EditOrders ==
  ASSUME GateTypes, SessionTypes, BusTypes, Clocks, Orders, NEW s \in DOMAIN sessions, Edit(s)
  PROVE  SessionTypes' /\ BusTypes' /\ Clocks' /\ Orders'
<1> DEFINE k == Len(sessions)
<1>1. /\ s \in 1..k /\ sessions' \in Seq(SessionRecs) /\ Len(sessions') = k
      /\ \A t \in 1..k : Same(t) /\ Received(t)' = Received(t)
      /\ \A t \in 1..Len(sessions') : Len(sessions'[t].queue) <= QueueMax
      /\ rooms' \in [Nodes -> SUBSET Rooms] /\ UNCHANGED <<casts, log, versions, pending>>
  BY EditFacts
<1>2. active' \in [Nodes -> [Users -> 0..k]]
  <2>1. CASE UNCHANGED active
    BY <2>1 DEF SessionTypes
  <2>2. CASE End(s)
    <3>1. sessions[s] \in SessionRecs /\ k \in Nat
      BY <1>1, ElementOfSeq, LenProperties DEF SessionTypes
    <3>2. PICK node \in Nodes, user \in Users : node = sessions[s].node /\ user = sessions[s].user
      BY <3>1 DEF SessionRecs
    <3>3. active' = [active EXCEPT ![node][user] = 0]
      BY <2>2, <3>2 DEF End
    <3> DEFINE Ids == 0..k
    <3>4. 0 \in Ids /\ active \in [Nodes -> [Users -> Ids]]
      BY <3>1 DEF SessionTypes
    <3> HIDE DEF Ids
    <3>5. active' \in [Nodes -> [Users -> Ids]]
      BY <3>2, <3>3, <3>4
    <3> QED
      BY <3>5 DEF Ids
  <2> QED
    BY <2>1, <2>2 DEF Edit, Subscribed, SubscribeFails, SendQueue, Expire, Disconnect
<1>3. SessionTypes'
  BY <1>1, <1>2 DEF SessionTypes
<1>4. BusTypes'
  BY <1>1, HandlersStayDistinct DEF BusTypes, Broadcasts
<1>5. Clocks'
  BY <1>1 DEF Clocks, Broadcasts
<1>6. Orders'
  <2>1. \A n \in Nodes : InLogOrder(pending'[n], log')
    BY <1>1 DEF Orders
  <2>2. ASSUME NEW t \in 1..Len(sessions')
        PROVE  InRoomOrder(Received(t)', sessions'[t].room, pending'[sessions'[t].node], log', casts')
    <3>1. /\ Received(t)' = Received(t) /\ sessions'[t].room = sessions[t].room
          /\ pending'[sessions'[t].node] = pending[sessions[t].node]
      BY <1>1 DEF Same
    <3>2. InRoomOrder(Received(t), sessions[t].room, pending[sessions[t].node], log, casts)
      BY <1>1 DEF Orders
    <3> QED
      BY <1>1, <3>1, <3>2
  <2> QED
    BY <2>1, <2>2, HandlersStayDistinct DEF Orders
<1> QED
  BY <1>3, <1>4, <1>5, <1>6

LEMMA ConnectOrders ==
  ASSUME GateTypes, SessionTypes, BusTypes, Clocks, Orders,
         NEW node \in Nodes, NEW user \in Users, NEW room \in Rooms, Connect(node, user, room)
  PROVE  SessionTypes' /\ BusTypes' /\ Clocks' /\ Orders'
<1> DEFINE k == Len(sessions)
<1>1. /\ k \in Nat /\ sessions' \in Seq(SessionRecs) /\ Len(sessions') = k + 1
      /\ \A t \in 1..k : sessions'[t] = sessions[t]
      /\ \A t \in 1..Len(sessions') : t \in 1..k \/ t = k + 1
      /\ sessions'[k + 1].queue = <<>> /\ sessions'[k + 1].sent = <<>>
      /\ SessionTypes'
  BY ConnectFacts
<1>2. UNCHANGED <<casts, log, versions, handlers, pending>>
  BY DEF Connect, busVars
<1>3. BusTypes' /\ Clocks'
  BY <1>2 DEF BusTypes, Clocks, Broadcasts
<1>4. ASSUME NEW t \in 1..Len(sessions')
      PROVE  InRoomOrder(Received(t)', sessions'[t].room, pending'[sessions'[t].node], log', casts')
  <2>1. CASE t \in 1..k
    <3>1. Received(t)' = Received(t) /\ sessions'[t] = sessions[t]
      BY <1>1, <2>1 DEF Received
    <3> QED
      BY <1>2, <2>1, <3>1 DEF Orders
  <2>2. CASE t = k + 1
    <3> DEFINE new == Received(t)'
    <3>1. new = <<>> \o <<>>
      BY <1>1, <2>2 DEF Received
    <3>2. <<>> \in Seq(Messages) /\ Len(<<>>) = 0 /\ <<>> \o <<>> = <<>>
      BY EmptySeq, ConcatEmptySeq
    <3>3. 1..Len(new) = {}
      BY <3>1, <3>2
    <3> HIDE DEF new
    <3>4. \A r, w, l, cs : InRoomOrder(new, r, w, l, cs)
      BY <3>3 DEF InRoomOrder
    <3> QED
      BY <3>4 DEF new
  <2> QED
    BY <1>1, <2>1, <2>2
<1>5. Orders'
  BY <1>2, <1>4 DEF Orders
<1> QED
  BY <1>1, <1>3, <1>5

LEMMA TakeVersionOrders ==
  ASSUME GateTypes, SessionTypes, BusTypes, Clocks, Orders, TakeVersion
  PROVE  SessionTypes' /\ BusTypes' /\ Clocks' /\ Orders'
<1> DEFINE b       == Len(casts)
           call    == Casts[b + 1]
           version == versions[call.room] + 1
           clock   == [n \in {call.node} |-> version]
           cast    == [node |-> call.node, room |-> call.room, clock |-> clock,
                       version |-> version, priority |-> call.priority]
<1>1. b \in Nat /\ b < Len(Casts) /\ Len(Casts) \in Nat
  BY LenProperties, GatewayAssumption DEF TakeVersion, BusTypes
<1>2. call.node \in Nodes /\ call.room \in Rooms /\ call.priority \in Priorities
  <2>1. b + 1 \in 1..Len(Casts)
    BY <1>1
  <2> HIDE DEF b
  <2>2. call \in [node : Nodes, room : Rooms, priority : Priorities]
    BY <2>1, ElementOfSeq, GatewayAssumption
  <2> QED
    BY <2>2
<1>3. /\ casts' = Append(casts, cast) /\ versions' = [versions EXCEPT ![call.room] = version]
      /\ UNCHANGED <<now, gate, active, rooms, sessions, handlers, log, pending>>
  BY DEF TakeVersion
<1> HIDE DEF call
<1> DEFINE room == call.room
<1>4. versions[room] \in 0..b /\ version \in 1..(b + 1) /\ version \in Nat
  <2>1. versions[room] \in 0..b
    BY <1>2 DEF BusTypes
  <2> HIDE DEF b, room
  <2>2. version = versions[room] + 1
    BY DEF room
  <2> HIDE DEF version
  <2> QED
    BY <1>1, <2>1, <2>2
<1> HIDE DEF version
<1>5. cast \in CastRecs /\ cast.clock = [n \in {cast.node} |-> cast.version] /\ cast.version = version /\ cast.room = room
  <2>1. clock \in [{call.node} -> Nat]
    BY <1>4
  <2>2. clock \in UNION {[{n} -> Nat] : n \in Nodes}
    BY <1>2, <2>1
  <2> HIDE DEF clock
  <2>3. cast \in CastRecs
    BY <1>2, <1>4, <2>2 DEF CastRecs
  <2>4. cast.clock = clock /\ cast.node = call.node /\ cast.version = version /\ cast.room = call.room
    OBVIOUS
  <2> HIDE DEF cast
  <2> QED
    BY <2>3, <2>4 DEF clock
<1> HIDE DEF cast
<1>6. /\ casts' \in Seq(CastRecs) /\ Len(casts') = b + 1 /\ casts'[b + 1] = cast
      /\ \A c \in 1..b : casts'[c] = casts[c]
  BY <1>3, <1>5, AppendProperties DEF BusTypes
<1> HIDE DEF b
<1>7. Broadcasts = 1..b /\ Broadcasts' = 1..(b + 1) /\ Broadcasts \subseteq Broadcasts'
      /\ \A c \in 1..(b + 1) : c \in 1..b \/ c = b + 1
  BY <1>1, <1>6 DEF Broadcasts, b
<1>8. versions' \in [Rooms -> 0..(b + 1)] /\ versions'[room] = version
      /\ \A r \in Rooms : r # room => versions'[r] = versions[r]
  <2>1. versions \in [Rooms -> 0..b] /\ room \in Rooms
    BY <1>2 DEF BusTypes, b
  <2>2. \A x \in 0..b : x \in 0..(b + 1)
    BY <1>1
  <2>3. versions \in [Rooms -> 0..(b + 1)]
    BY <2>1, <2>2
  <2>4. version \in 0..(b + 1)
    BY <1>1, <1>4
  <2>5. versions' = [versions EXCEPT ![room] = version]
    BY <1>3
  <2> HIDE DEF room
  <2> QED
    BY <2>1, <2>3, <2>4, <2>5
<1>9. BusTypes'
  <2>1. log' \in Seq(Broadcasts')
    BY <1>3, <1>7, SeqMonotonic DEF BusTypes
  <2>2. \A n \in Nodes : pending[n] \in Seq(Broadcasts')
    BY <1>7, SeqMonotonic DEF BusTypes
  <2>3. pending' \in [Nodes -> Seq(Broadcasts')]
    BY <1>3, <2>2 DEF BusTypes
  <2>4. Len(casts') <= Len(Casts)
    BY <1>1, <1>6
  <2>5. handlers' \in [Rooms -> Seq(Nodes)]
    BY <1>3 DEF BusTypes
  <2>6. versions' \in [Rooms -> 0..Len(casts')]
    BY <1>6, <1>8
  <2> QED
    BY <1>6, <2>1, <2>3, <2>4, <2>5, <2>6 DEF BusTypes
<1>10. SessionTypes'
  BY <1>3 DEF SessionTypes
<1>11. \A c \in 1..b : casts[c] \in CastRecs /\ casts[c].room \in Rooms /\ casts[c].version \in 1..versions[casts[c].room]
  <2> SUFFICES ASSUME NEW c \in 1..b
               PROVE  casts[c] \in CastRecs /\ casts[c].room \in Rooms /\ casts[c].version \in 1..versions[casts[c].room]
    OBVIOUS
  <2>1. casts[c] \in CastRecs
    BY ElementOfSeq DEF BusTypes, b
  <2>2. casts[c].room \in Rooms
    BY <2>1 DEF CastRecs
  <2>3. casts[c].version \in 1..versions[casts[c].room]
    BY <1>7 DEF Clocks
  <2> QED
    BY <2>1, <2>2, <2>3
<1>12. Clocks'
  <2>1. ASSUME NEW c \in 1..(b + 1)
        PROVE  /\ casts'[c].clock = [n \in {casts'[c].node} |-> casts'[c].version]
               /\ casts'[c].version \in 1..versions'[casts'[c].room]
    <3>1. CASE c = b + 1
      BY <1>4, <1>5, <1>6, <1>8, <3>1
    <3>2. CASE c \in 1..b
      <4>1. casts'[c] = casts[c] /\ casts[c].clock = [n \in {casts[c].node} |-> casts[c].version]
        BY <1>6, <1>7, <3>2 DEF Clocks
      <4>2. casts[c].version \in 1..versions[casts[c].room] /\ casts[c].room \in Rooms
        BY <1>11, <3>2
      <4>3. casts[c].version \in 1..versions'[casts[c].room]
        <5>1. CASE casts[c].room = room
          <6>1. versions'[casts[c].room] = versions[casts[c].room] + 1 /\ versions[casts[c].room] \in Nat
            BY <1>1, <1>4, <1>8, <5>1 DEF version
          <6> QED
            BY <4>2, <6>1
        <5>2. CASE casts[c].room # room
          BY <1>8, <4>2, <5>2
        <5> QED
          BY <5>1, <5>2
      <4> QED
        BY <4>1, <4>3
    <3> QED
      BY <1>7, <3>1, <3>2
  <2>2. ASSUME NEW c \in 1..b, casts[c].room = room PROVE casts[c].version # version
    <3>1. casts[c].version \in 1..versions[room]
      BY <1>11, <2>2
    <3>2. version = versions[room] + 1
      BY DEF version
    <3> HIDE DEF room
    <3> QED
      BY <1>1, <1>4, <3>1, <3>2
  <2>3. ASSUME NEW c \in 1..(b + 1), NEW d \in 1..(b + 1), c # d, casts'[c].room = casts'[d].room
        PROVE  casts'[c].version # casts'[d].version
    <3>1. CASE c \in 1..b /\ d \in 1..b
      BY <1>6, <1>7, <2>3, <3>1 DEF Clocks
    <3>2. CASE c \in 1..b /\ d = b + 1
      BY <1>5, <1>6, <2>2, <2>3, <3>2
    <3>3. CASE c = b + 1 /\ d \in 1..b
      BY <1>5, <1>6, <2>2, <2>3, <3>3
    <3> QED
      BY <1>7, <2>3, <3>1, <3>2, <3>3
  <2> QED
    BY <1>7, <2>1, <2>3 DEF Clocks
<1>13. Orders'
  <2>1. ASSUME NEW stream, NEW r, NEW w, InRoomOrder(stream, r, w, log, casts)
        PROVE  InRoomOrder(stream, r, w, log, casts')
    <3>1. \A i \in 1..Len(log) : log[i] \in 1..b
      BY <1>7, ElementOfSeq DEF BusTypes
    <3>2. \A i \in 1..Len(stream) : casts'[stream[i].cast].room = casts[stream[i].cast].room
      BY <1>6, <2>1, <3>1 DEF InRoomOrder, Logged
    <3> QED
      BY <2>1, <3>2 DEF InRoomOrder
  <2>2. \A s \in 1..Len(sessions) : Received(s)' = Received(s)
    BY <1>3 DEF Received
  <2>3. \A s \in 1..Len(sessions') :
          InRoomOrder(Received(s)', sessions'[s].room, pending'[sessions'[s].node], log', casts')
    BY <1>3, <2>1, <2>2 DEF Orders
  <2> QED
    BY <1>3, <2>3 DEF Orders
<1> QED
  BY <1>9, <1>10, <1>12, <1>13

\* Publishing adds the broadcast once at every node that subscribes its room, and nothing at the others.
LEMMA PublishOrders ==
  ASSUME GateTypes, SessionTypes, BusTypes, Clocks, Orders, NEW c \in DOMAIN casts, Publish(c)
  PROVE  SessionTypes' /\ BusTypes' /\ Clocks' /\ Orders'
<1> DEFINE copies(n) == Cardinality({i \in DOMAIN handlers[casts[c].room] : handlers[casts[c].room][i] = n})
<1>1. c \in Broadcasts /\ DOMAIN casts = Broadcasts
  BY LenProperties DEF BusTypes, Broadcasts
<1>2. /\ log' = Append(log, c) /\ pending' = [n \in Nodes |-> pending[n] \o [i \in 1..copies(n) |-> c]]
      /\ UNCHANGED <<now, gate, active, rooms, sessions, handlers, versions, casts>>
  BY DEF Publish
<1>3. ASSUME NEW n \in Nodes PROVE copies(n) \in {0, 1}
  <2> DEFINE hs == handlers[casts[c].room]
             is == {i \in DOMAIN hs : hs[i] = n}
  <2>1. casts[c].room \in Rooms
    <3>1. casts[c] \in CastRecs
      BY <1>1, ElementOfSeq DEF BusTypes, Broadcasts
    <3> QED
      BY <3>1 DEF CastRecs
  <2>2. hs \in Seq(Nodes) /\ \A i, j \in 1..Len(hs) : hs[i] = hs[j] => i = j
    BY <2>1 DEF BusTypes, Orders
  <2> HIDE DEF hs
  <2>3. DOMAIN hs = 1..Len(hs)
    BY <2>2, LenProperties
  <2>4. \A i, j \in is : i = j
    BY <2>2, <2>3
  <2>5. is = {} \/ \E i \in is : is = {i}
    BY <2>4
  <2> HIDE DEF is
  <2>6. Cardinality(is) \in {0, 1}
    BY <2>5, FS_EmptySet, FS_Singleton
  <2> QED
    BY <2>6 DEF is, hs
<1> HIDE DEF copies
<1>4. ASSUME NEW n \in Nodes
      PROVE  pending'[n] \in {pending[n], Append(pending[n], c)} /\ pending'[n] \in Seq(Broadcasts)
  <2> DEFINE old == pending[n]
             k   == copies(n)
             new == pending'[n]
  <2>1. old \in Seq(Broadcasts)
    BY DEF BusTypes
  <2>2. new = old \o [i \in 1..k |-> c]
    BY <1>2
  <2>3. k \in {0, 1}
    BY <1>3
  <2> HIDE DEF k, old, new
  <2>4. CASE k = 0
    <3> DEFINE more == [i \in 1..k |-> c]
    <3>1. more \in [1..k -> Broadcasts] /\ k \in Nat
      BY <1>1, <2>4
    <3> HIDE DEF more
    <3>2. more \in Seq(Broadcasts) /\ Len(more) = k
      BY <3>1, FunctionFacts
    <3>3. more = <<>>
      BY <2>4, <3>2, EmptySeq
    <3>4. new = old
      BY <2>1, <2>2, <3>3, ConcatEmptySeq DEF more
    <3> QED
      BY <2>1, <3>4 DEF new, old
  <2>5. CASE k = 1
    <3> DEFINE more == [i \in 1..k |-> c]
    <3>1. more = <<c>>
      BY <2>5
    <3>2. new = Append(old, c)
      BY <1>1, <2>1, <2>2, <3>1, AppendIsConcat
    <3>3. Append(old, c) \in Seq(Broadcasts)
      BY <1>1, <2>1, AppendProperties
    <3> QED
      BY <3>2, <3>3 DEF new, old
  <2> QED
    BY <2>3, <2>4, <2>5
<1>5. log \in Seq(Broadcasts) /\ log' \in Seq(Broadcasts)
  BY <1>1, <1>2, AppendProperties DEF BusTypes
<1>6. BusTypes'
  <2>1. Broadcasts' = Broadcasts
    BY <1>2 DEF Broadcasts
  <2>2. pending' \in [Nodes -> Seq(Broadcasts)]
    <3>1. DOMAIN pending' = Nodes /\ pending' = [n \in Nodes |-> pending'[n]]
      BY <1>2
    <3> QED
      BY <1>4, <3>1
  <2> QED
    BY <1>2, <1>5, <2>1, <2>2 DEF BusTypes
<1>7. SessionTypes' /\ Clocks'
  BY <1>2 DEF SessionTypes, Clocks, Broadcasts
<1>8. Orders'
  <2>1. ASSUME NEW n \in Nodes PROVE InLogOrder(pending'[n], log')
    <3>1. pending[n] \in Seq(Broadcasts) /\ InLogOrder(pending[n], log)
      BY DEF BusTypes, Orders
    <3>2. pending'[n] \in {pending[n], Append(pending[n], c)}
      BY <1>4
    <3> QED
      BY <1>1, <1>2, <1>5, <3>1, <3>2, PublishKeepsWaiting
  <2>2. ASSUME NEW s \in 1..Len(sessions)
        PROVE  InRoomOrder(Received(s)', sessions'[s].room, pending'[sessions'[s].node], log', casts')
    <3> DEFINE n == sessions[s].node
    <3>1. n \in Nodes
      <4>1. sessions[s] \in SessionRecs
        BY ElementOfSeq DEF SessionTypes
      <4> QED
        BY <4>1 DEF SessionRecs
    <3>2. Received(s)' = Received(s) /\ sessions'[s] = sessions[s]
      BY <1>2 DEF Received
    <3>3. InRoomOrder(Received(s), sessions[s].room, pending[n], log, casts)
      BY DEF Orders
    <3> HIDE DEF n
    <3>4. pending[n] \in Seq(Broadcasts) /\ pending'[n] \in {pending[n], Append(pending[n], c)}
      BY <1>4, <3>1 DEF BusTypes
    <3>5. InRoomOrder(Received(s), sessions[s].room, pending'[n], Append(log, c), casts)
      BY <1>1, <1>5, <3>3, <3>4, PublishKeepsStream
    <3> QED
      BY <1>2, <3>2, <3>5 DEF n
  <2> QED
    BY <1>2, <2>1, <2>2 DEF Orders
<1> QED
  BY <1>6, <1>7, <1>8

\* A handler hands out what comes next in the order of the log, so the streams of its sessions stay in it.
LEMMA DeliverOrders ==
  ASSUME GateTypes, SessionTypes, BusTypes, Clocks, Orders, NEW n \in Nodes, Deliver(n)
  PROVE  SessionTypes' /\ BusTypes' /\ Clocks' /\ Orders'
<1> DEFINE c    == Head(pending[n])
           tail == Tail(pending[n])
           m    == Handed(n)
<1>1. /\ pending[n] # <<>> /\ c \in Broadcasts /\ m \in Messages
      /\ sessions' \in Seq(SessionRecs) /\ Len(sessions') = Len(sessions)
      /\ \A t \in 1..Len(sessions') : Len(sessions'[t].queue) <= QueueMax
  BY DeliverFacts
<1>2. \A t \in 1..Len(sessions) :
        /\ Same(t) /\ sessions'[t].phase = sessions[t].phase /\ sessions'[t].sent = sessions[t].sent
        /\ \/ sessions'[t].queue = sessions[t].queue
           \/ /\ sessions[t].node = n /\ sessions[t].room = casts[c].room
              /\ sessions'[t].queue = PushDeque(sessions[t].queue, m, QueueMax)
  BY DeliverFacts
<1>3. m.cast = c
  BY DEF Handed
<1>4. /\ pending' = [pending EXCEPT ![n] = tail]
      /\ UNCHANGED <<now, gate, active, rooms, handlers, versions, casts, log>>
  BY DEF Deliver, busVars
<1>5. pending[n] \in Seq(Broadcasts) /\ InLogOrder(pending[n], log)
  BY DEF BusTypes, Orders
<1>6. /\ InLogOrder(tail, log) /\ Logged(log, c)
      /\ \A k \in 1..Len(tail) : Before(log, c, tail[k])
      /\ \A stream, room, cs : InRoomOrder(stream, room, pending[n], log, cs) => InRoomOrder(stream, room, tail, log, cs)
  BY <1>1, <1>5, TailStaysBehind
<1>7. tail \in Seq(Broadcasts) /\ c = pending[n][1] /\ 1 \in 1..Len(pending[n])
  BY <1>1, <1>5, HeadTailProperties, EmptySeq
<1> HIDE DEF c, tail, m
<1>8. pending' \in [Nodes -> Seq(Broadcasts)] /\ pending'[n] = tail /\ \A x \in Nodes : x # n => pending'[x] = pending[x]
  BY <1>4, <1>7 DEF BusTypes
<1>9. SessionTypes'
  BY <1>1, <1>4 DEF SessionTypes
<1>10. BusTypes' /\ Clocks'
  <2>1. Broadcasts' = Broadcasts
    BY <1>4 DEF Broadcasts
  <2>2. BusTypes'
    BY <1>4, <1>8, <2>1 DEF BusTypes
  <2>3. Clocks'
    BY <1>4, <2>1 DEF Clocks
  <2> QED
    BY <2>2, <2>3
<1>11. \A x \in Nodes : InLogOrder(pending'[x], log')
  BY <1>4, <1>6, <1>8 DEF Orders
<1>12. ASSUME NEW t \in 1..Len(sessions)
       PROVE  InRoomOrder(Received(t)', sessions'[t].room, pending'[sessions'[t].node], log', casts')
  <2> DEFINE old   == sessions[t]
             node  == old.node
             sent  == old.sent
             queue == old.queue
             new   == sessions'[t].queue
  <2>1. old \in SessionRecs /\ Len(queue) <= QueueMax
    BY ElementOfSeq DEF SessionTypes
  <2>2. node \in Nodes /\ sent \in Seq(Messages) /\ queue \in Seq(Messages)
    BY <2>1 DEF SessionRecs
  <2>3. InRoomOrder(sent \o queue, old.room, pending[node], log, casts)
    BY DEF Orders, Received
  <2>4. Received(t)' = sent \o new /\ sessions'[t].room = old.room /\ sessions'[t].node = node
    BY <1>2 DEF Received, Same
  <2>5. InRoomOrder(sent \o queue, old.room, pending'[node], log, casts)
    <3>1. CASE node = n
      BY <1>6, <1>8, <2>3, <3>1
    <3>2. CASE node # n
      BY <1>8, <2>2, <2>3, <3>2
    <3> QED
      BY <3>1, <3>2
  <2>6. CASE new = queue
    BY <1>4, <2>4, <2>5, <2>6
  <2>7. CASE node = n /\ old.room = casts[c].room /\ new = PushDeque(queue, m, QueueMax)
    <3>1. \A x \in Messages : x.priority \in Priorities
      BY DEF Messages
    <3>2. new \in Seq(Messages) /\ KeepsOrder(new, Append(queue, m))
      BY <1>1, <2>1, <2>2, <2>7, <3>1, PushFacts, GatewayAssumption
    <3>3. \A i \in 1..Len(sent \o queue) : Before(log, (sent \o queue)[i].cast, m.cast)
      BY <1>3, <1>7, <2>3, <2>7 DEF InRoomOrder
    <3>4. Logged(log, m.cast) /\ \A k \in 1..Len(tail) : Before(log, m.cast, tail[k])
      BY <1>3, <1>6
    <3>5. casts[m.cast].room = old.room
      BY <1>3, <2>7
    <3>6. InRoomOrder(sent \o queue, old.room, tail, log, casts)
      BY <1>8, <2>5, <2>7
    <3> HIDE DEF old, sent, queue, new, node
    <3>7. InRoomOrder(sent \o new, old.room, tail, log, casts)
      BY <1>1, <2>2, <3>2, <3>3, <3>4, <3>5, <3>6, PushKeepsStream
    <3>8. pending'[node] = tail
      BY <1>8, <2>7
    <3> QED
      BY <1>4, <2>4, <3>7, <3>8 DEF old, node, sent, new
  <2> QED
    BY <1>2, <2>6, <2>7
<1>13. Orders'
  BY <1>1, <1>4, <1>11, <1>12 DEF Orders
<1> QED
  BY <1>9, <1>10, <1>13

-----------------------------------------------------------------------------
(* The invariant holds                                                       *)

LEMMA InitInv == Init => IInv
<1> SUFFICES ASSUME Init PROVE IInv
  OBVIOUS
<1>1. \A S : <<>> \in Seq(S) /\ Len(<<>>) = 0 /\ DOMAIN <<>> = {} /\ 1..Len(<<>>) = {}
  <2>1. \A S : <<>> \in Seq(S) /\ Len(<<>>) = 0
    BY EmptySeq
  <2> QED
    BY <2>1
<1>2. Rate * Token \in Nat /\ Rate * Token = Token * Rate /\ Token * 0 = 0
  BY GatewayAssumption
<1>3. GateTypes
  BY <1>2, GatewayAssumption DEF Init, GateTypes, Gates
<1>4. SessionTypes
  <2>1. sessions \in Seq(SessionRecs) /\ Len(sessions) = 0 /\ 1..Len(sessions) = {}
    BY <1>1 DEF Init
  <2>2. active \in [Nodes -> [Users -> 0..0]] /\ rooms \in [Nodes -> SUBSET Rooms]
    BY DEF Init
  <2> QED
    BY <2>1, <2>2 DEF SessionTypes
<1>5. BusTypes
  <2>1. Len(casts) = 0 /\ casts \in Seq(CastRecs) /\ log \in Seq(Broadcasts)
    BY <1>1 DEF Init
  <2>2. Len(Casts) \in Nat
    BY LenProperties, GatewayAssumption
  <2>3. versions \in [Rooms -> 0..0]
    BY DEF Init
  <2>4. pending \in [Nodes -> Seq(Broadcasts)] /\ handlers \in [Rooms -> Seq(Nodes)]
    BY <1>1 DEF Init
  <2> QED
    BY <2>1, <2>2, <2>3, <2>4 DEF BusTypes
<1>6. GatekeeperAccounts
  <2>1. DOMAIN sessions = {}
    BY <1>1 DEF Init
  <2>2. \A n \in Nodes : At(n) = {} /\ HeldAt(n) = {}
    BY <2>1 DEF At, HeldAt
  <2>3. Cardinality({}) = 0
    BY FS_EmptySet
  <2>4. SlotsAccounted
    BY <2>2, <2>3 DEF Init, SlotsAccounted, HeldAt
  <2>5. RateIsKept
    <3> DEFINE burst == Rate * Token
    <3>1. burst \in Nat /\ Token * Rate = burst
      BY <1>2
    <3>2. \A n \in Nodes : gate[n].tokens = burst /\ gate[n].refilled = 0
      BY DEF Init
    <3> HIDE DEF burst
    <3>3. \A n \in Nodes : Token * Cardinality(At(n)) + gate[n].tokens <= burst + gate[n].refilled
      BY <1>2, <2>2, <2>3, <3>1, <3>2
    <3> QED
      BY <3>1, <3>3 DEF RateIsKept, At
  <2> QED
    BY <2>4, <2>5 DEF GatekeeperAccounts
<1>7. Clocks
  BY <1>1 DEF Init, Clocks, Broadcasts
<1>8. Orders
  BY <1>1 DEF Init, Orders, InLogOrder
<1> QED
  BY <1>3, <1>4, <1>5, <1>6, <1>7, <1>8 DEF IInv

LEMMA NextPreserves == ASSUME IInv, [Next]_vars PROVE IInv'
<1> USE DEF IInv
<1>1. CASE UNCHANGED vars
  <2>1. UNCHANGED <<now, gate, active, rooms, sessions, handlers, versions, casts, log, pending>>
    BY <1>1 DEF vars, busVars
  <2>2. GateTypes' /\ SessionTypes' /\ BusTypes' /\ Clocks'
    BY <2>1 DEF GateTypes, SessionTypes, BusTypes, Clocks, Broadcasts
  <2>3. GatekeeperAccounts'
    BY <2>1 DEF GatekeeperAccounts, SlotsAccounted, RateIsKept
  <2>4. Orders'
    BY <2>1 DEF Orders, Received
  <2> QED
    BY <2>2, <2>3, <2>4
<1>2. ASSUME NEW e \in Entrances, Connect(e[1], e[2], e[3]) PROVE IInv'
  <2>1. e[1] \in Nodes /\ e[2] \in Users /\ e[3] \in Rooms
    BY GatewayAssumption
  <2> QED
    BY <1>2, <2>1, ConnectAccounts, ConnectOrders
<1>3. ASSUME NEW n \in Nodes, Refuse(n) PROVE IInv'
  <2>1. UNCHANGED <<now, active, rooms, sessions, handlers, versions, casts, log, pending>>
    BY <1>3 DEF Refuse, busVars
  <2>2. SessionTypes' /\ BusTypes' /\ Clocks'
    BY <2>1 DEF SessionTypes, BusTypes, Clocks, Broadcasts
  <2>3. Orders'
    BY <2>1 DEF Orders, Received
  <2> QED
    BY <1>3, <2>2, <2>3, RefuseAccounts
<1>4. ASSUME NEW n \in Nodes, Deliver(n) PROVE IInv'
  BY <1>4, DeliverAccounts, DeliverOrders
<1>5. ASSUME NEW s \in DOMAIN sessions, Edit(s) PROVE IInv'
  BY <1>5, EditAccounts, EditOrders
<1>6. ASSUME NEW c \in DOMAIN casts, Publish(c) PROVE IInv'
  <2>1. GateTypes' /\ GatekeeperAccounts'
    BY <1>6 DEF Publish, GateTypes, GatekeeperAccounts, SlotsAccounted, RateIsKept
  <2> QED
    BY <1>6, <2>1, PublishOrders
<1>7. CASE TakeVersion
  <2>1. GateTypes' /\ GatekeeperAccounts'
    BY <1>7 DEF TakeVersion, GateTypes, GatekeeperAccounts, SlotsAccounted, RateIsKept
  <2> QED
    BY <1>7, <2>1, TakeVersionOrders
<1>8. CASE Tick
  <2>1. /\ now < MaxTime /\ now' = now + 1
        /\ UNCHANGED <<gate, active, rooms, sessions, handlers, versions, casts, log, pending>>
    BY <1>8 DEF Tick, busVars
  <2>2. SessionTypes' /\ BusTypes' /\ Clocks'
    BY <2>1 DEF SessionTypes, BusTypes, Clocks, Broadcasts
  <2>3. Orders'
    BY <2>1 DEF Orders, Received
  <2>4. GatekeeperAccounts'
    BY <2>1 DEF GatekeeperAccounts, SlotsAccounted, RateIsKept
  <2>5. now' \in 0..MaxTime /\ \A n \in Nodes : gate[n].refilled <= now'
    <3>1. now \in Nat /\ \A n \in Nodes : gate[n].refilled \in Nat /\ gate[n].refilled <= now
      BY GatewayAssumption DEF GateTypes, Gates
    <3> QED
      BY <2>1, <3>1, GatewayAssumption
  <2>6. GateTypes'
    BY <2>1, <2>5 DEF GateTypes
  <2> QED
    BY <2>2, <2>3, <2>4, <2>6
<1> QED
  BY <1>1, <1>2, <1>3, <1>4, <1>5, <1>6, <1>7, <1>8 DEF Next, Edit

LEMMA Invariance == Spec => []IInv
BY InitInv, NextPreserves, PTL DEF Spec

-----------------------------------------------------------------------------
(* What it shows                                                             *)

\* The gatekeeper of a node counts one slot for every session that holds one, and admits no more than the rate,
\* whatever refusals, failed subscriptions and ends come together (try_admit, release).
THEOREM GatekeeperAlwaysAccounts == Spec => []GatekeeperAccounts
<1>1. IInv => GatekeeperAccounts
  BY DEF IInv
<1> QED
  BY <1>1, Invariance, PTL

LEMMA OrderFromInv == IInv => RoomOrderKept
<1> SUFFICES ASSUME IInv, NEW s \in DOMAIN sessions,
                    NEW i \in DOMAIN Received(s), NEW j \in DOMAIN Received(s)
             PROVE  /\ casts[Received(s)[i].cast].room = sessions[s].room
                    /\ i < j => PublishedBefore(Received(s)[i].cast, Received(s)[j].cast)
  BY DEF RoomOrderKept
<1> USE DEF IInv
<1>1. s \in 1..Len(sessions) /\ sessions[s] \in SessionRecs
  <2>1. s \in 1..Len(sessions)
    BY LenProperties DEF SessionTypes
  <2> QED
    BY <2>1, ElementOfSeq DEF SessionTypes
<1>2. Received(s) \in Seq(Messages)
  BY <1>1, ConcatProperties DEF Received, SessionRecs
<1>3. i \in 1..Len(Received(s)) /\ j \in 1..Len(Received(s))
  BY <1>2, LenProperties
<1>4. InRoomOrder(Received(s), sessions[s].room, pending[sessions[s].node], log, casts)
  BY <1>1 DEF Orders
<1>5. DOMAIN log = 1..Len(log)
  BY LenProperties DEF BusTypes
<1>6. \A c, d : Before(log, c, d) => PublishedBefore(c, d)
  BY <1>5 DEF Before, PublishedBefore
<1> QED
  BY <1>3, <1>4, <1>6 DEF InRoomOrder

\* A session gets its room's events each once and in the order of the bus, whatever its queue drops and however
\* many sessions subscribe the room at once (_ensure_room_subscription, _fanout_event).
THEOREM RoomOrderAlwaysKept == Spec => []RoomOrderKept
BY Invariance, OrderFromInv, PTL

LEMMA QueuesFromInv == IInv => QueuesAreSound
<1> SUFFICES ASSUME IInv PROVE QueuesAreSound
  OBVIOUS
<1> USE DEF IInv
<1>1. DOMAIN sessions = 1..Len(sessions) /\ \A s \in 1..Len(sessions) : sessions[s] \in SessionRecs
  BY LenProperties, ElementOfSeq DEF SessionTypes
<1>2. TypeOK
  <2>1. ASSUME NEW n \in Nodes
        PROVE  /\ gate[n].conns \in 0..MaxConns /\ gate[n].tokens \in 0..(Rate * Token)
               /\ gate[n].refilled \in 0..now
    <3> DEFINE burst == Rate * Token
    <3>1. burst \in Nat /\ gate[n] \in Gates /\ gate[n].tokens <= burst
      BY GatewayAssumption DEF GateTypes
    <3> HIDE DEF burst
    <3>2. gate[n].conns \in Nat /\ gate[n].tokens \in Nat /\ gate[n].refilled \in Nat
      BY <3>1 DEF Gates
    <3>3. gate[n].tokens \in 0..burst
      BY <3>1, <3>2
    <3>4. gate[n].conns <= MaxConns /\ gate[n].refilled <= now /\ now \in Nat
      BY GatewayAssumption DEF GateTypes
    <3> QED
      BY <3>2, <3>3, <3>4, GatewayAssumption DEF burst
  <2>2. DOMAIN casts = Broadcasts
    BY LenProperties DEF BusTypes, Broadcasts
  <2>3. \A seq \in Seq(Broadcasts) : Elements(seq) \subseteq Broadcasts
    <3> SUFFICES ASSUME NEW seq \in Seq(Broadcasts), NEW i \in DOMAIN seq PROVE seq[i] \in Broadcasts
      BY DEF Elements
    <3>1. i \in 1..Len(seq)
      BY LenProperties
    <3> QED
      BY <3>1, ElementOfSeq
  <2>4. \A n \in Nodes : Elements(pending[n]) \subseteq DOMAIN casts
    BY <2>2, <2>3 DEF BusTypes
  <2>5. Elements(log) \subseteq DOMAIN casts
    BY <2>2, <2>3 DEF BusTypes
  <2>6. \A n \in Nodes : active[n] \in [Users -> 0..Len(sessions)] /\ rooms[n] \subseteq Rooms
    BY DEF SessionTypes
  <2>7. \A s \in DOMAIN sessions : sessions[s].phase \in Phases /\ Len(sessions[s].queue) <= QueueMax
    BY <1>1 DEF SessionTypes, SessionRecs
  <2>8. versions \in [Rooms -> 0..Len(Casts)]
    <3>1. Len(casts) \in Nat /\ Len(Casts) \in Nat /\ Len(casts) <= Len(Casts)
      BY LenProperties, GatewayAssumption DEF BusTypes
    <3>2. \A x \in 0..Len(casts) : x \in 0..Len(Casts)
      BY <3>1
    <3> QED
      BY <3>2 DEF BusTypes
  <2>9. now \in 0..MaxTime
    BY DEF GateTypes
  <2> QED
    BY <2>1, <2>4, <2>5, <2>6, <2>7, <2>8, <2>9 DEF TypeOK
<1>3. TwinsAgree
  <2> SUFFICES ASSUME NEW s \in DOMAIN sessions, NEW p \in Priorities
               PROVE  PushDeque(sessions[s].queue, [cast |-> 0, priority |-> p], QueueMax)
                        = PushList(sessions[s].queue, [cast |-> 0, priority |-> p], QueueMax)
    BY DEF TwinsAgree
  <2> DEFINE m     == [cast |-> 0, priority |-> p]
             queue == sessions[s].queue
  <2>1. m \in Messages /\ \A x \in Messages : x.priority \in Priorities
    BY DEF Messages
  <2>2. queue \in Seq(Messages)
    BY <1>1 DEF SessionRecs
  <2>3. Len(queue) <= QueueMax
    BY <1>1 DEF SessionTypes
  <2> HIDE DEF m, queue
  <2>4. PushDeque(queue, m, QueueMax) = PushList(queue, m, QueueMax)
    BY <2>1, <2>2, <2>3, PushFacts, GatewayAssumption
  <2> QED
    BY <2>4 DEF m, queue
<1> QED
  BY <1>2, <1>3 DEF QueuesAreSound

\* Queues stay within their limit, and the deque of the gateway holds what the list of the scaling helpers would
\* (push, _trim_if_needed).
THEOREM QueuesAlwaysSound == Spec => []QueuesAreSound
BY Invariance, QueuesFromInv, PTL

\* Clocks that name one node compare as their counts do, and clocks of two nodes do not compare.
NamesOne(clock, node, count) == DOMAIN clock = {node} /\ clock[node] = count /\ count \in Nat \ {0}

LEMMA ClocksCompare ==
  ASSUME NEW x, NEW a, NEW v, NamesOne(x, a, v), NEW y, NEW b, NEW w, NamesOne(y, b, w), v # w \/ a # b
  PROVE  /\ a # b => Compare(x, y) = Concurrent
         /\ a = b /\ v < w => Compare(x, y) = -1
         /\ a = b /\ w < v => Compare(x, y) = 1
<1> DEFINE smaller == \E n \in DOMAIN x \cup DOMAIN y : Count(x, n) < Count(y, n)
           greater == \E n \in DOMAIN x \cup DOMAIN y : Count(x, n) > Count(y, n)
<1>1. Count(x, a) = v /\ Count(y, b) = w /\ (a # b => Count(x, b) = 0 /\ Count(y, a) = 0)
  BY DEF Count, NamesOne
<1>2. /\ smaller <=> (Count(x, a) < Count(y, a) \/ Count(x, b) < Count(y, b))
      /\ greater <=> (Count(x, a) > Count(y, a) \/ Count(x, b) > Count(y, b))
  BY DEF NamesOne
<1>3. /\ smaller /\ ~ greater => Compare(x, y) = -1
      /\ greater /\ ~ smaller => Compare(x, y) = 1
      /\ smaller /\ greater => Compare(x, y) = Concurrent
  BY DEF Compare
<1> HIDE DEF smaller, greater
<1>4. CASE a # b
  <2>1. smaller /\ greater
    BY <1>1, <1>2, <1>4 DEF NamesOne
  <2> QED
    BY <1>3, <1>4, <2>1
<1>5. CASE a = b
  <2>1. (smaller <=> v < w) /\ (greater <=> v > w)
    BY <1>1, <1>2, <1>5 DEF NamesOne
  <2>2. v < w \/ v > w
    BY <1>5 DEF NamesOne
  <2> QED
    BY <1>3, <1>5, <2>1, <2>2 DEF NamesOne
<1> QED
  BY <1>4, <1>5

LEMMA ClocksFromInv == IInv => ClocksFollowVersions
<1> SUFFICES ASSUME IInv, NEW c \in DOMAIN casts, NEW d \in DOMAIN casts, c # d, casts[c].room = casts[d].room
             PROVE  Compare(casts[c].clock, casts[d].clock)
                      = IF casts[c].node # casts[d].node THEN Concurrent
                        ELSE IF casts[c].version < casts[d].version THEN -1 ELSE 1
  BY DEF ClocksFollowVersions
<1> USE DEF IInv
<1>1. DOMAIN casts = Broadcasts
  BY LenProperties DEF BusTypes, Broadcasts
<1>2. /\ casts[c].clock = [n \in {casts[c].node} |-> casts[c].version]
      /\ casts[d].clock = [n \in {casts[d].node} |-> casts[d].version]
      /\ casts[c].version # casts[d].version
  BY <1>1 DEF Clocks
<1>3. \A b \in Broadcasts : casts[b].version \in Nat \ {0}
  <2> SUFFICES ASSUME NEW b \in Broadcasts PROVE casts[b].version \in Nat \ {0}
    OBVIOUS
  <2>1. casts[b] \in CastRecs
    BY ElementOfSeq DEF BusTypes, Broadcasts
  <2>2. casts[b].room \in Rooms
    BY <2>1 DEF CastRecs
  <2>3. casts[b].version \in 1..versions[casts[b].room]
    BY DEF Clocks
  <2>4. versions[casts[b].room] \in 0..Len(casts) /\ Len(casts) \in Nat
    BY <2>2, LenProperties DEF BusTypes
  <2> QED
    BY <2>3, <2>4
<1>4. casts[c].version \in Nat \ {0} /\ casts[d].version \in Nat \ {0}
  BY <1>1, <1>3
<1> DEFINE x == casts[c].clock
           y == casts[d].clock
           a == casts[c].node
           b == casts[d].node
           v == casts[c].version
           w == casts[d].version
<1>5. v \in Nat \ {0} /\ w \in Nat \ {0} /\ v # w
  BY <1>2, <1>4
<1>6. NamesOne(x, a, v) /\ NamesOne(y, b, w)
  BY <1>2, <1>4 DEF NamesOne
<1> HIDE DEF x, y, a, b, v, w
<1>7. /\ a # b => Compare(x, y) = Concurrent
      /\ a = b /\ v < w => Compare(x, y) = -1
      /\ a = b /\ w < v => Compare(x, y) = 1
  BY <1>5, <1>6, ClocksCompare
<1>8. v < w \/ w < v
  BY <1>5
<1>9. Compare(x, y) = IF a # b THEN Concurrent ELSE IF v < w THEN -1 ELSE 1
  BY <1>5, <1>7, <1>8
<1> QED
  BY <1>9 DEF x, y, a, b, v, w

\* The clocks of a room's broadcasts claim no order that their versions contradict (broadcast_to_room).
THEOREM ClocksAlwaysFollowVersions == Spec => []ClocksFollowVersions
BY Invariance, ClocksFromInv, PTL

LEMMA StateOutlivesStep ==
  ASSUME IInv, Next
  PROVE  \A s \in DOMAIN sessions :
           (\E i \in DOMAIN Received(s) :
              /\ Received(s)[i].priority = "state"
              /\ Received(s)[i] \notin Elements(Received(s)'))
           => \A i \in DOMAIN sessions'[s].queue : sessions'[s].queue[i].priority = "state"
<1> SUFFICES ASSUME NEW s \in DOMAIN sessions, NEW i \in DOMAIN Received(s),
                    Received(s)[i].priority = "state", Received(s)[i] \notin Elements(Received(s)')
             PROVE  \A j \in DOMAIN sessions'[s].queue : sessions'[s].queue[j].priority = "state"
  OBVIOUS
<1> USE DEF IInv
<1>1. s \in 1..Len(sessions)
  BY LenProperties DEF SessionTypes
<1>2. sessions[s] \in SessionRecs /\ Len(sessions[s].queue) <= QueueMax
  BY <1>1, ElementOfSeq DEF SessionTypes
<1>3. Received(s)' # Received(s)
  BY DEF Elements
<1>4. ~ UNCHANGED sessions
  BY <1>3 DEF Received
<1>5. \A t \in DOMAIN sessions : ~ Edit(t)
  BY <1>1, <1>3, EditFacts
<1>6. \A e \in Entrances : ~ Connect(e[1], e[2], e[3])
  <2> SUFFICES ASSUME NEW e \in Entrances, Connect(e[1], e[2], e[3]) PROVE FALSE
    OBVIOUS
  <2>1. e[1] \in Nodes /\ e[2] \in Users /\ e[3] \in Rooms
    BY GatewayAssumption
  <2>2. sessions'[s] = sessions[s]
    BY <1>1, <2>1, ConnectFacts
  <2> QED
    BY <1>3, <2>2 DEF Received
<1>7. \E n \in Nodes : Deliver(n)
  BY <1>4, <1>5, <1>6 DEF Next, Edit, Refuse, Publish, TakeVersion, Tick
<1>8. PICK n \in Nodes : Deliver(n)
  BY <1>7
<1> DEFINE sent  == sessions[s].sent
           queue == sessions[s].queue
           new   == sessions'[s].queue
           m     == Handed(n)
<1>9. /\ m \in Messages /\ sessions'[s].sent = sent
      /\ new = queue \/ new = PushDeque(queue, m, QueueMax)
  BY <1>1, <1>8, DeliverFacts
<1>10. sent \in Seq(Messages) /\ queue \in Seq(Messages)
  BY <1>2 DEF SessionRecs
<1>11. Received(s) = sent \o queue /\ Received(s)' = sent \o new
  BY <1>9 DEF Received
<1>12. new = PushDeque(queue, m, QueueMax)
  BY <1>3, <1>9, <1>11
<1>13. new \in Seq(Messages) /\ KeepsState(new, Append(queue, m))
  <2>1. \A x \in Messages : x.priority \in Priorities
    BY DEF Messages
  <2> HIDE DEF queue, m, new
  <2>2. Len(queue) <= QueueMax
    BY <1>2 DEF queue
  <2> QED
    BY <1>9, <1>10, <1>12, <2>1, <2>2, PushFacts, GatewayAssumption
<1> DEFINE x == Received(s)[i]
<1>14. x \notin Elements(sent \o new) /\ x.priority = "state" /\ i \in DOMAIN (sent \o queue) /\ x = (sent \o queue)[i]
  BY <1>11
<1> HIDE DEF sent, queue, new, m, x
<1>15. /\ Len(sent) \in Nat /\ Len(queue) \in Nat /\ Len(new) \in Nat /\ DOMAIN new = 1..Len(new)
  BY <1>10, <1>13, LenProperties
<1>16. /\ DOMAIN (sent \o queue) = 1..(Len(sent) + Len(queue))
       /\ \A k \in 1..(Len(sent) + Len(queue)) :
            (sent \o queue)[k] = IF k <= Len(sent) THEN sent[k] ELSE queue[k - Len(sent)]
  BY <1>10, ConcatProperties, LenProperties
<1>17. /\ DOMAIN (sent \o new) = 1..(Len(sent) + Len(new))
       /\ \A k \in 1..(Len(sent) + Len(new)) :
            (sent \o new)[k] = IF k <= Len(sent) THEN sent[k] ELSE new[k - Len(sent)]
  BY <1>10, <1>13, ConcatProperties, LenProperties
<1>18. \A k \in 1..(Len(sent) + Len(new)) : (sent \o new)[k] # x
  BY <1>14, <1>17 DEF Elements
<1>19. ~ (i <= Len(sent))
  <2> SUFFICES ASSUME i <= Len(sent) PROVE FALSE
    OBVIOUS
  <2>1. i \in 1..(Len(sent) + Len(new)) /\ (sent \o new)[i] = x
    BY <1>14, <1>15, <1>16, <1>17
  <2> QED
    BY <1>18, <2>1
<1>20. i - Len(sent) \in 1..Len(queue) /\ queue[i - Len(sent)] = x
  BY <1>14, <1>15, <1>16, <1>19
<1>21. PICK q \in 1..Len(queue) : queue[q] = x
  BY <1>20
<1>22. /\ Append(queue, m)[q] = x /\ q \in 1..Len(Append(queue, m))
  <2>1. Len(Append(queue, m)) = Len(queue) + 1 /\ Append(queue, m)[q] = queue[q]
    BY <1>9, <1>10, AppendFacts DEF m
  <2> QED
    BY <1>15, <1>21, <2>1
<1>23. ~ \E j \in 1..Len(new) : new[j] = x
  <2> SUFFICES ASSUME NEW j \in 1..Len(new), new[j] = x PROVE FALSE
    OBVIOUS
  <2>1. Len(sent) + j \in 1..(Len(sent) + Len(new)) /\ ~ (Len(sent) + j <= Len(sent)) /\ (Len(sent) + j) - Len(sent) = j
    BY <1>15
  <2>2. (sent \o new)[Len(sent) + j] = x
    BY <1>17, <2>1
  <2> QED
    BY <1>18, <2>1, <2>2
<1>24. \A j \in 1..Len(new) : new[j].priority = "state"
  BY <1>13, <1>14, <1>22, <1>23 DEF KeepsState
<1> QED
  BY <1>15, <1>24 DEF new

\* No queue drops a state message while it holds anything else (_trim_if_needed).
THEOREM StateAlwaysOutlives == Spec => StateOutlivesTheRest
<1>1. IInv /\ [Next]_vars
      => [\A s \in DOMAIN sessions :
            (\E i \in DOMAIN Received(s) :
               /\ Received(s)[i].priority = "state"
               /\ Received(s)[i] \notin Elements(Received(s)'))
            => \A i \in DOMAIN sessions'[s].queue : sessions'[s].queue[i].priority = "state"]_vars
  BY StateOutlivesStep
<1> QED
  BY <1>1, Invariance, PTL DEF Spec, StateOutlivesTheRest

-----------------------------------------------------------------------------
(* Nothing is lost on the way to a session but what its queue dropped        *)

Due(s) == {log[i] : i \in {j \in DOMAIN log :
             j > sessions[s].start /\ casts[log[j]].room = sessions[s].room}}
Got(s) == {Received(s)[i].cast : i \in DOMAIN Received(s)}
Missing(s) == Due(s) \ (Got(s) \cup Elements(pending[sessions[s].node]))
Reached(s) ==
  sessions[s].phase = "live" /\ Alone(s) => Cardinality(Missing(s)) <= sessions[s].dropped

\* Where a node says it subscribes a room, the bus agrees; a running session is in such a
\* room, and registered if its user has no other.
Registered ==
  /\ \A n \in Nodes : \A r \in rooms[n] : n \in Elements(handlers[r])
  /\ \A s \in 1..Len(sessions) :
       /\ sessions[s].phase = "live" => sessions[s].room \in rooms[sessions[s].node]
       /\ sessions[s].phase \in Held /\ Alone(s)
          => active[sessions[s].node][sessions[s].user] = s

ReachInv == Registered /\ \A s \in 1..Len(sessions) : Reached(s)

LEMMA MissingIsFinite ==
  ASSUME BusTypes, NEW s
  PROVE  /\ IsFiniteSet(Missing(s)) /\ Cardinality(Missing(s)) \in Nat
         /\ Missing(s) \subseteq Broadcasts
<1>1. Due(s) \subseteq Broadcasts
  <2>1. \A i \in DOMAIN log : log[i] \in Broadcasts
    BY ElementOfSeq, LenProperties DEF BusTypes
  <2> QED
    BY <2>1 DEF Due
<1>2. IsFiniteSet(Broadcasts)
  <2>1. Len(casts) \in Nat
    BY LenProperties DEF BusTypes
  <2> QED
    BY <2>1, UpToFinite DEF Broadcasts
<1>3. Missing(s) \subseteq Broadcasts
  BY <1>1 DEF Missing
<1> QED
  BY <1>2, <1>3, FS_Subset, FS_CardinalityType

\* A set that gains no element, or one, is no larger, or larger by one.
LEMMA Grown ==
  ASSUME NEW A, NEW B, IsFiniteSet(A)
  PROVE  /\ B \subseteq A => Cardinality(B) <= Cardinality(A)
         /\ \A x : B \subseteq A \cup {x} => Cardinality(B) <= Cardinality(A) + 1
<1>1. Cardinality(A) \in Nat
  BY FS_CardinalityType
<1>2. ASSUME B \subseteq A PROVE Cardinality(B) <= Cardinality(A)
  BY <1>2, FS_Subset
<1>3. ASSUME NEW x, B \subseteq A \cup {x} PROVE Cardinality(B) <= Cardinality(A) + 1
  <2> DEFINE C == A \cup {x}
  <2>1. IsFiniteSet(C) /\ Cardinality(C) \in {Cardinality(A), Cardinality(A) + 1}
    BY FS_AddElement
  <2> HIDE DEF C
  <2>2. B \subseteq C
    BY <1>3 DEF C
  <2>3. Cardinality(B) <= Cardinality(C) /\ IsFiniteSet(B)
    BY <2>1, <2>2, FS_Subset
  <2>4. Cardinality(B) \in Nat
    BY <2>3, FS_CardinalityType
  <2> QED
    BY <1>1, <2>1, <2>3, <2>4
<1> QED
  BY <1>2, <1>3

\* A queue loses at most one message to a push, and none while it has room.
LosesOne(new, queue, message, max) ==
  \E at \in Nat : /\ Len(queue) < max => at = 0
                  /\ \A i \in 1..Len(Append(queue, message)) :
                       i # at => \E j \in 1..Len(new) : new[j] = Append(queue, message)[i]

LEMMA PushLoses ==
  ASSUME NEW S, NEW queue \in Seq(S), NEW message \in S, NEW max \in Nat \ {0}, Len(queue) <= max,
         \A m \in S : m.priority \in Priorities
  PROVE  LosesOne(PushDeque(queue, message, max), queue, message, max)
<1> DEFINE longer == Append(queue, message)
           new    == PushDeque(queue, message, max)
<1>1. longer \in Seq(S) /\ Len(queue) \in Nat /\ Len(longer) = Len(queue) + 1
  BY AppendFacts
<1>2. CASE Len(longer) > max
  <2> DEFINE at == DropIndex(longer)
             list == ListRemove(longer, at)
             n == Len(longer)
  <2> HIDE DEF longer
  <2>1. at \in 1..n /\ n \in Nat
    BY <1>1, DropFacts
  <2> HIDE DEF at
  <2>2. /\ DequeRemove(longer, at) = list /\ Len(list) = n - 1
        /\ \A i \in 1..(n - 1) : list[i] = IF i < at THEN longer[i] ELSE longer[i + 1]
    BY <1>1, <2>1, ListRemoveFacts, RotationsRemove
  <2>3. new = list
    BY <1>2, <2>2 DEF PushDeque, longer, at
  <2> HIDE DEF list, new, n
  <2>4. ASSUME NEW i \in 1..n, i # at PROVE \E j \in 1..(n - 1) : list[j] = longer[i]
    <3>1. CASE i < at
      <4>1. i \in 1..(n - 1)
        BY <2>1, <3>1
      <4> QED
        BY <2>2, <3>1, <4>1
    <3>2. CASE i > at
      <4>1. i - 1 \in 1..(n - 1) /\ ~ (i - 1 < at) /\ (i - 1) + 1 = i
        BY <2>1, <3>2
      <4> QED
        BY <2>2, <4>1
    <3> QED
      BY <2>1, <2>4, <3>1, <3>2
  <2>5. ~ (Len(queue) < max) /\ at \in Nat
    BY <1>1, <1>2, <2>1
  <2>6. \A i \in 1..Len(longer) : i # at => \E j \in 1..Len(new) : new[j] = longer[i]
    BY <2>2, <2>3, <2>4 DEF n
  <2>7. LosesOne(new, queue, message, max)
    BY <2>5, <2>6 DEF LosesOne, longer
  <2> QED
    BY <2>7 DEF new
<1>3. CASE ~ (Len(longer) > max)
  <2>1. new = longer
    BY <1>3 DEF PushDeque
  <2> HIDE DEF new, longer
  <2>2. \A i \in 1..Len(longer) : \E j \in 1..Len(new) : new[j] = longer[i]
    BY <2>1
  <2>3. LosesOne(new, queue, message, max)
    <3>1. 0 \in Nat
      OBVIOUS
    <3> QED
      BY <2>2, <3>1 DEF LosesOne, longer
  <2> QED
    BY <2>3 DEF new
<1> QED
  BY <1>2, <1>3

\* A user that has one session on a node had no other before.
LEMMA AloneBefore ==
  ASSUME NEW s \in DOMAIN sessions, DOMAIN sessions \subseteq DOMAIN sessions',
         \A t \in DOMAIN sessions : Same(t), Alone(s)'
  PROVE  Alone(s)
BY DEF Alone, Same

LEMMA ReachedKept ==
  ASSUME BusTypes, NEW s, Reached(s), Alone(s)' => Alone(s), sessions[s].dropped \in Nat,
         sessions'[s].phase = "live" => sessions[s].phase = "live",
         Missing(s)' \subseteq Missing(s), sessions'[s].dropped = sessions[s].dropped
  PROVE  Reached(s)'
<1> DEFINE A == Missing(s)
           B == Missing(s)'
<1>1. IsFiniteSet(A) /\ Cardinality(A) \in Nat
  BY MissingIsFinite
<1>2. Cardinality(B) <= Cardinality(A) /\ Cardinality(B) \in Nat
  <2>1. B \subseteq A /\ IsFiniteSet(B)
    BY <1>1, FS_Subset
  <2> HIDE DEF A, B
  <2> QED
    BY <1>1, <2>1, Grown, FS_CardinalityType
<1>3. SUFFICES ASSUME sessions'[s].phase = "live", Alone(s)'
               PROVE  Cardinality(B) <= sessions'[s].dropped
  BY DEF Reached
<1>4. Cardinality(A) <= sessions[s].dropped
  BY <1>3 DEF Reached
<1> HIDE DEF A, B
<1> QED
  BY <1>1, <1>2, <1>4

LEMMA SessionFacts ==
  ASSUME SessionTypes
  PROVE  /\ Len(sessions) \in Nat /\ DOMAIN sessions = 1..Len(sessions)
         /\ \A s \in 1..Len(sessions) :
              /\ sessions[s] \in SessionRecs
              /\ Received(s) \in Seq(Messages)
              /\ DOMAIN Received(s) = 1..Len(Received(s))
<1>1. Len(sessions) \in Nat /\ DOMAIN sessions = 1..Len(sessions)
      /\ \A s \in 1..Len(sessions) : sessions[s] \in SessionRecs
  BY LenProperties, ElementOfSeq DEF SessionTypes
<1>2. \A s \in 1..Len(sessions) : Received(s) \in Seq(Messages)
  BY <1>1, ConcatProperties DEF Received, SessionRecs
<1> QED
  BY <1>1, <1>2, LenProperties

\* Nothing has been published since a session began.
LEMMA NothingDue ==
  ASSUME BusTypes', NEW s, sessions'[s].start = Len(log'), sessions'[s].dropped \in Nat
  PROVE  Reached(s)'
<1>1. DOMAIN log' = 1..Len(log') /\ Len(log') \in Nat
  BY LenProperties DEF BusTypes
<1>2. Missing(s)' = {}
  BY <1>1 DEF Missing, Due
<1> QED
  BY <1>2, FS_EmptySet DEF Reached

\* Steps that leave the log, what waits and what a session received as they are.
LEMMA MissingSame ==
  ASSUME NEW s, Same(s), Received(s)' = Received(s), sessions'[s].start = sessions[s].start,
         log' = log, pending' = pending, casts' = casts
  PROVE  Missing(s)' = Missing(s)
<1>1. Due(s)' = Due(s) /\ Got(s)' = Got(s)
  BY DEF Due, Got, Same
<1>2. pending'[sessions'[s].node] = pending[sessions[s].node]
  BY DEF Same
<1> QED
  BY <1>1, <1>2 DEF Missing, Elements

LEMMA AddedFacts ==
  ASSUME NEW seq \in Seq(Nodes), NEW node \in Nodes
  PROVE  node \in Elements(Added(seq, node)) /\ Elements(seq) \subseteq Elements(Added(seq, node))
<1> DEFINE new == Added(seq, node)
<1>1. CASE node \in Elements(seq)
  BY <1>1 DEF Added
<1>2. CASE node \notin Elements(seq)
  <2>1. new = Append(seq, node)
    BY <1>2 DEF Added
  <2> HIDE DEF new
  <2>2. /\ new \in Seq(Nodes) /\ Len(seq) \in Nat /\ Len(new) = Len(seq) + 1
        /\ DOMAIN seq = 1..Len(seq)
        /\ new[Len(seq) + 1] = node /\ \A i \in 1..Len(seq) : new[i] = seq[i]
    BY <2>1, AppendFacts
  <2>3. DOMAIN new = 1..Len(new)
    BY <2>2, LenProperties
  <2>4. Len(seq) + 1 \in DOMAIN new /\ \A i \in DOMAIN seq : i \in DOMAIN new
    BY <2>2, <2>3
  <2> QED
    BY <2>2, <2>4 DEF Elements, new
<1> QED
  BY <1>1, <1>2

LEMMA EditReach ==
  ASSUME GateTypes, SessionTypes, BusTypes, ReachInv, NEW s \in DOMAIN sessions, Edit(s),
         SessionTypes', BusTypes'
  PROVE  ReachInv'
<1> DEFINE k == Len(sessions)
           node == sessions[s].node
           user == sessions[s].user
           room == sessions[s].room
<1>1. /\ s \in 1..k /\ sessions' \in Seq(SessionRecs) /\ Len(sessions') = k
      /\ \A t \in 1..k : Same(t) /\ Received(t)' = Received(t)
      /\ \A t \in 1..k : t # s => sessions'[t] = sessions[t]
      /\ UNCHANGED <<casts, log, pending>>
  BY EditFacts
<1>2. /\ k \in Nat /\ DOMAIN sessions = 1..k /\ DOMAIN sessions' = 1..k
      /\ \A t \in 1..k : sessions[t] \in SessionRecs
  BY <1>1, SessionFacts, LenProperties
<1>3. node \in Nodes /\ user \in Users /\ room \in Rooms
  BY <1>1, <1>2 DEF SessionRecs
<1>4. \A t \in 1..k : Alone(t)' => Alone(t)
  BY <1>1, <1>2, AloneBefore
<1>5. ASSUME NEW t \in 1..k, t # s PROVE Reached(t)'
  <2>1. Missing(t)' = Missing(t)
    BY <1>1, <1>5, MissingSame
  <2>2. sessions[t].dropped \in Nat
    BY <1>2 DEF SessionRecs
  <2> QED
    BY <1>1, <1>4, <1>5, <2>1, <2>2, ReachedKept DEF ReachInv
<1>6. \/ Subscribed(s)
      \/ /\ SubscribeFails(s) \/ SendQueue(s) \/ End(s)
         /\ rooms' = rooms /\ handlers' = handlers
  BY DEF Edit, SubscribeFails, SendQueue, Expire, Disconnect, End, busVars
<1> HIDE DEF k
<1>7. CASE Subscribed(s)
  <2>1. /\ handlers' = [handlers EXCEPT ![room] = Added(@, node)]
        /\ rooms' = [rooms EXCEPT ![node] = @ \cup {room}]
        /\ sessions' = [sessions EXCEPT ![s].phase = "live", ![s].start = Len(log)]
        /\ active' = active /\ sessions[s].phase = "subscribing"
    BY <1>7 DEF Subscribed
  <2>2. sessions'[s].phase = "live" /\ sessions'[s].start = Len(log)
        /\ sessions'[s].dropped = sessions[s].dropped
    BY <1>1, <1>2, <2>1 DEF SessionRecs
  <2>3. Reached(s)'
    <3>1. sessions'[s].start = Len(log') /\ sessions'[s].dropped \in Nat
      BY <1>1, <1>2, <2>2 DEF SessionRecs
    <3> QED
      BY <3>1, NothingDue
  <2>4. /\ room \in rooms'[node] /\ \A n \in Nodes : rooms[n] \subseteq rooms'[n]
        /\ \A n \in Nodes : \A r \in rooms'[n] : r \in rooms[n] \/ (n = node /\ r = room)
    BY <1>3, <2>1 DEF SessionTypes
  <2>5. /\ node \in Elements(handlers'[room])
        /\ \A r \in Rooms : Elements(handlers[r]) \subseteq Elements(handlers'[r])
    <3>1. handlers[room] \in Seq(Nodes)
      BY <1>3 DEF BusTypes
    <3>2. /\ node \in Elements(Added(handlers[room], node))
          /\ Elements(handlers[room]) \subseteq Elements(Added(handlers[room], node))
      BY <1>3, <3>1, AddedFacts
    <3>3. /\ handlers'[room] = Added(handlers[room], node)
          /\ \A r \in Rooms : r # room => handlers'[r] = handlers[r]
      BY <1>3, <2>1 DEF BusTypes
    <3> QED
      BY <3>2, <3>3
  <2>6. \A n \in Nodes : \A r \in rooms'[n] : n \in Elements(handlers'[r])
    <3>1. \A n \in Nodes : \A r \in rooms[n] : r \in Rooms /\ n \in Elements(handlers[r])
      BY DEF ReachInv, Registered, SessionTypes
    <3> QED
      BY <2>4, <2>5, <3>1
  <2>7. ASSUME NEW t \in 1..k
        PROVE  /\ sessions'[t].phase = "live" => sessions'[t].room \in rooms'[sessions'[t].node]
               /\ sessions'[t].phase \in Held /\ Alone(t)'
                  => active'[sessions'[t].node][sessions'[t].user] = t
    <3>1. /\ sessions[t].phase = "live" => sessions[t].room \in rooms[sessions[t].node]
          /\ sessions[t].phase \in Held /\ Alone(t)
             => active[sessions[t].node][sessions[t].user] = t
      BY DEF ReachInv, Registered, k
    <3>2. sessions[t].node \in Nodes
      BY <1>2 DEF SessionRecs
    <3>3. CASE t = s
      BY <1>1, <1>4, <2>1, <2>4, <3>1, <3>3 DEF Same, Held
    <3>4. CASE t # s
      BY <1>1, <1>4, <2>1, <2>4, <3>1, <3>2, <3>4
    <3> QED
      BY <3>3, <3>4
  <2> QED
    BY <1>1, <1>5, <2>3, <2>6, <2>7 DEF ReachInv, Registered
<1>8. CASE /\ SubscribeFails(s) \/ SendQueue(s) \/ End(s)
           /\ rooms' = rooms /\ handlers' = handlers
  <2>1. /\ sessions'[s].phase = "live" =>
             /\ sessions[s].phase = "live" /\ sessions'[s].start = sessions[s].start
        /\ sessions'[s].dropped = sessions[s].dropped
        /\ sessions'[s].phase \in Held => sessions[s].phase \in Held /\ active' = active
    <3>1. CASE SubscribeFails(s)
      BY <1>1, <1>2, <3>1 DEF SubscribeFails, SessionRecs, Held
    <3>2. CASE SendQueue(s)
      BY <1>1, <1>2, <3>2 DEF SendQueue, SessionRecs, Held
    <3>3. CASE End(s)
      BY <1>1, <1>2, <3>3 DEF End, SessionRecs, Held
    <3> QED
      BY <1>8, <3>1, <3>2, <3>3
  <2>2. Reached(s)'
    <3>1. CASE sessions'[s].phase = "live"
      <4>1. Missing(s)' = Missing(s)
        BY <1>1, <2>1, <3>1, MissingSame
      <4>2. sessions[s].dropped \in Nat
        BY <1>1, <1>2 DEF SessionRecs
      <4> QED
        BY <1>1, <1>4, <2>1, <3>1, <4>1, <4>2, ReachedKept DEF ReachInv, k
    <3>2. CASE sessions'[s].phase # "live"
      BY <3>2 DEF Reached
    <3> QED
      BY <3>1, <3>2
  <2>3. ASSUME NEW t \in 1..k
        PROVE  /\ sessions'[t].phase = "live" => sessions'[t].room \in rooms'[sessions'[t].node]
               /\ sessions'[t].phase \in Held /\ Alone(t)'
                  => active'[sessions'[t].node][sessions'[t].user] = t
    <3>1. /\ sessions[t].phase = "live" => sessions[t].room \in rooms[sessions[t].node]
          /\ sessions[t].phase \in Held /\ Alone(t)
             => active[sessions[t].node][sessions[t].user] = t
      BY DEF ReachInv, Registered, k
    <3>2. CASE t = s
      BY <1>1, <1>4, <1>8, <2>1, <3>1, <3>2 DEF Same
    <3>3. CASE t # s
      <4>1. \/ active' = active
            \/ active' = [active EXCEPT ![node][user] = 0]
        BY <1>8 DEF SubscribeFails, SendQueue, End
      <4>2. Alone(t) => sessions[t].node # node \/ sessions[t].user # user
        BY <1>1, <1>2, <3>3 DEF Alone
      <4>3. sessions[t].node \in Nodes /\ sessions[t].user \in Users
        BY <1>2 DEF SessionRecs
      <4>4. Alone(t) => active'[sessions[t].node][sessions[t].user]
                          = active[sessions[t].node][sessions[t].user]
        <5>1. DOMAIN active = Nodes /\ \A n \in Nodes : DOMAIN active[n] = Users
          BY DEF SessionTypes
        <5>2. CASE active' = [active EXCEPT ![node][user] = 0]
          <6>1. sessions[t].node # node => active'[sessions[t].node] = active[sessions[t].node]
            BY <4>3, <5>1, <5>2
          <6>2. ASSUME NEW u \in Users, u # user PROVE active'[node][u] = active[node][u]
            BY <1>3, <5>1, <5>2, <6>2
          <6> QED
            BY <4>2, <4>3, <6>1, <6>2
        <5> QED
          BY <4>1, <5>2
      <4> QED
        BY <1>1, <1>4, <1>8, <3>1, <3>3, <4>4
    <3> QED
      BY <3>2, <3>3
  <2> QED
    BY <1>1, <1>5, <1>8, <2>2, <2>3 DEF ReachInv, Registered
<1> QED
  BY <1>6, <1>7, <1>8

LEMMA ConnectReach ==
  ASSUME GateTypes, SessionTypes, BusTypes, ReachInv, SessionTypes', BusTypes',
         NEW node \in Nodes, NEW user \in Users, NEW room \in Rooms, Connect(node, user, room)
  PROVE  ReachInv'
<1> DEFINE k   == Len(sessions)
           rec == NewSession(node, user, room,
                             IF room \in rooms[node] THEN "live" ELSE "subscribing")
<1>1. /\ k \in Nat /\ sessions' \in Seq(SessionRecs) /\ Len(sessions') = k + 1
      /\ \A t \in 1..k : sessions'[t] = sessions[t]
      /\ \A t \in 1..Len(sessions') : t \in 1..k \/ t = k + 1
  BY ConnectFacts
<1>2. /\ DOMAIN sessions = 1..k /\ DOMAIN sessions' = 1..(k + 1)
      /\ \A t \in 1..k : sessions[t] \in SessionRecs /\ t \in 1..(k + 1) /\ t # k + 1
  BY <1>1, SessionFacts, LenProperties
<1>3. /\ sessions' = Append(sessions, rec) /\ active' = [active EXCEPT ![node][user] = k + 1]
      /\ UNCHANGED <<rooms, casts, log, versions, handlers, pending>>
  BY DEF Connect, busVars
<1>4. /\ rec.node = node /\ rec.user = user /\ rec.room = room
      /\ rec.phase = "live" => room \in rooms[node]
      /\ rec.start = Len(log) /\ rec.dropped = 0
  BY DEF NewSession
<1> HIDE DEF rec, k
<1>5. sessions'[k + 1] = rec
  BY <1>1, <1>3, AppendFacts DEF k
<1>6. \A t \in 1..k : Same(t) /\ Received(t)' = Received(t)
  BY <1>1 DEF Same, Received
<1>7. \A t \in 1..k : Alone(t)' => Alone(t) /\ (sessions[t].node # node \/ sessions[t].user # user)
  <2> SUFFICES ASSUME NEW t \in 1..k, Alone(t)'
               PROVE  Alone(t) /\ (sessions[t].node # node \/ sessions[t].user # user)
    OBVIOUS
  <2>1. Alone(t)
    BY <1>2, <1>6, AloneBefore
  <2>2. k + 1 \in DOMAIN sessions' \ {t}
    BY <1>1, <1>2
  <2>3. sessions'[k + 1].node # sessions'[t].node \/ sessions'[k + 1].user # sessions'[t].user
    BY <2>2 DEF Alone
  <2> QED
    BY <1>1, <1>4, <1>5, <2>1, <2>3
<1>8. ASSUME NEW t \in 1..k PROVE Reached(t)'
  <2>1. Missing(t)' = Missing(t)
    BY <1>1, <1>3, <1>6, MissingSame
  <2>2. sessions[t].dropped \in Nat
    BY <1>2 DEF SessionRecs
  <2> QED
    BY <1>1, <1>7, <2>1, <2>2, ReachedKept DEF ReachInv, k
<1>9. ASSUME NEW t \in {k + 1} PROVE Reached(t)'
  <2>1. sessions'[t] = rec /\ log' = log
    BY <1>3, <1>5
  <2>2. sessions'[t].start = Len(log') /\ sessions'[t].dropped = 0
    BY <1>4, <2>1
  <2>3. BusTypes' /\ sessions'[t].start = Len(log') /\ sessions'[t].dropped \in Nat
    BY <2>2
  <2> QED
    BY <2>3, NothingDue
<1>10. ASSUME NEW t \in 1..k, sessions[t].phase \in Held, Alone(t)'
       PROVE  active'[sessions[t].node][sessions[t].user] = t
  <2>1. active[sessions[t].node][sessions[t].user] = t
    BY <1>7, <1>10 DEF ReachInv, Registered, k
  <2>2. sessions[t].node \in Nodes /\ sessions[t].user \in Users
    BY <1>2 DEF SessionRecs
  <2>3. DOMAIN active = Nodes /\ \A n \in Nodes : DOMAIN active[n] = Users
    BY DEF SessionTypes
  <2>4. sessions[t].node # node => active'[sessions[t].node] = active[sessions[t].node]
    BY <1>3, <2>2, <2>3
  <2>5. ASSUME NEW u \in Users, u # user PROVE active'[node][u] = active[node][u]
    BY <1>3, <2>3, <2>5
  <2> QED
    BY <1>7, <1>10, <2>1, <2>2, <2>4, <2>5
<1>11. active'[node][user] = k + 1
  <2>1. DOMAIN active = Nodes /\ \A n \in Nodes : DOMAIN active[n] = Users
    BY DEF SessionTypes
  <2> QED
    BY <1>3, <2>1
<1>12. ASSUME NEW t \in 1..(k + 1)
       PROVE  /\ sessions'[t].phase = "live" => sessions'[t].room \in rooms'[sessions'[t].node]
              /\ sessions'[t].phase \in Held /\ Alone(t)'
                 => active'[sessions'[t].node][sessions'[t].user] = t
  <2>1. CASE t \in 1..k
    BY <1>1, <1>3, <1>10, <2>1 DEF ReachInv, Registered, k
  <2>2. CASE t = k + 1
    BY <1>3, <1>4, <1>5, <1>11, <2>2
  <2> QED
    BY <1>1, <2>1, <2>2
<1>13. Registered'
  BY <1>1, <1>3, <1>12 DEF ReachInv, Registered
<1>14. ASSUME NEW t \in 1..Len(sessions') PROVE Reached(t)'
  <2>1. CASE t \in 1..k
    BY <1>8, <2>1
  <2>2. CASE t = k + 1
    BY <1>9, <2>2
  <2> QED
    BY <1>1, <2>1, <2>2
<1> QED
  BY <1>13, <1>14 DEF ReachInv

\* Every node that has a running session of the room gets its copy.
LEMMA PublishReach ==
  ASSUME GateTypes, SessionTypes, BusTypes, Orders, ReachInv, NEW c \in DOMAIN casts, Publish(c),
         SessionTypes', BusTypes'
  PROVE  ReachInv'
<1> DEFINE k == Len(sessions)
           hs == handlers[casts[c].room]
           at(n) == {i \in DOMAIN hs : hs[i] = n}
           copies(n) == Cardinality(at(n))
<1>1. /\ log' = Append(log, c) /\ pending' = [n \in Nodes |-> pending[n] \o [i \in 1..copies(n) |-> c]]
      /\ UNCHANGED <<now, gate, active, rooms, sessions, handlers, versions, casts>>
  BY DEF Publish
<1>2. /\ k \in Nat /\ DOMAIN sessions = 1..k
      /\ \A t \in 1..k : sessions[t] \in SessionRecs /\ Received(t) \in Seq(Messages)
  BY SessionFacts
<1>3. c \in Broadcasts /\ casts[c].room \in Rooms
  <2>1. c \in Broadcasts
    BY LenProperties DEF BusTypes, Broadcasts
  <2>2. casts[c] \in CastRecs
    BY <2>1, ElementOfSeq DEF BusTypes, Broadcasts
  <2> QED
    BY <2>1, <2>2 DEF CastRecs
<1>4. hs \in Seq(Nodes) /\ DOMAIN hs = 1..Len(hs) /\ Len(hs) \in Nat
  BY <1>3, LenProperties DEF BusTypes
<1>5. ASSUME NEW n \in Nodes
      PROVE  /\ copies(n) \in Nat /\ (n \in Elements(hs) => copies(n) > 0)
  <2> DEFINE is == at(n)
  <2>1. IsFiniteSet(is)
    <3>1. IsFiniteSet(1..Len(hs))
      BY ONLY <1>4, UpToFinite
    <3>2. is \subseteq 1..Len(hs)
      BY <1>4
    <3> QED
      BY <3>1, <3>2, FS_Subset
  <2>2. Cardinality(is) \in Nat /\ (Cardinality(is) = 0 <=> is = {})
    BY <2>1, FS_CardinalityType, FS_EmptySet
  <2>3. n \in Elements(hs) => is # {}
    BY DEF Elements
  <2> HIDE DEF is
  <2>4. Cardinality(is) \in Nat /\ (n \in Elements(hs) => Cardinality(is) > 0)
    BY <2>2, <2>3
  <2> QED
    BY <2>4 DEF is
<1> HIDE DEF copies, at
<1>6. ASSUME NEW n \in Nodes
      PROVE  /\ Elements(pending[n]) \subseteq Elements(pending'[n])
             /\ n \in Elements(hs) => c \in Elements(pending'[n])
  <2> DEFINE old  == pending[n]
             m    == copies(n)
             more == [i \in 1..m |-> c]
             new  == pending'[n]
  <2>1. old \in Seq(Broadcasts) /\ m \in Nat
    BY <1>5 DEF BusTypes
  <2>2. new = old \o more
    BY <1>1
  <2> HIDE DEF m, old, new
  <2>3. more \in [1..m -> Broadcasts] /\ \A i \in 1..m : more[i] = c
    BY <1>3
  <2> HIDE DEF more
  <2>4. more \in Seq(Broadcasts) /\ Len(more) = m
    BY <2>1, <2>3, FunctionFacts
  <2>5. /\ new \in Seq(Broadcasts) /\ Len(new) = Len(old) + m
        /\ \A i \in 1..(Len(old) + m) : new[i] = IF i <= Len(old) THEN old[i] ELSE more[i - Len(old)]
    BY <2>1, <2>2, <2>4, ConcatProperties
  <2>6. /\ Len(old) \in Nat /\ DOMAIN old = 1..Len(old) /\ DOMAIN new = 1..(Len(old) + m)
    BY <2>1, <2>5, LenProperties
  <2>7. \A i \in DOMAIN old : i \in DOMAIN new /\ new[i] = old[i]
    BY <2>1, <2>5, <2>6
  <2>8. m > 0 => Len(old) + m \in DOMAIN new /\ new[Len(old) + m] = c
    BY <2>1, <2>3, <2>5, <2>6
  <2>9. Elements(old) \subseteq Elements(new)
    BY <2>7 DEF Elements
  <2>10. m > 0 => c \in Elements(new)
    BY <2>8 DEF Elements
  <2> QED
    BY <1>5, <2>9, <2>10 DEF m, old, new
<1>7. /\ log' \in Seq(Broadcasts) /\ Len(log') = Len(log) + 1 /\ log'[Len(log) + 1] = c
      /\ \A i \in 1..Len(log) : log'[i] = log[i]
      /\ Len(log) \in Nat /\ DOMAIN log = 1..Len(log) /\ DOMAIN log' = 1..(Len(log) + 1)
  <2>1. log \in Seq(Broadcasts)
    BY DEF BusTypes
  <2>2. /\ log' \in Seq(Broadcasts) /\ Len(log') = Len(log) + 1 /\ log'[Len(log) + 1] = c
        /\ \A i \in 1..Len(log) : log'[i] = log[i]
    BY <1>1, <1>3, <2>1, AppendProperties
  <2> QED
    BY <2>1, <2>2, LenProperties
<1> HIDE DEF hs, k
<1>8. ASSUME NEW t \in 1..k PROVE Reached(t)'
  <2>0. sessions[t].node \in Nodes /\ sessions[t].dropped \in Nat
    BY <1>2 DEF SessionRecs
  <2>1. Received(t)' = Received(t) /\ (Alone(t)' <=> Alone(t)) /\ Got(t)' = Got(t)
    BY <1>1 DEF Received, Alone, Got
  <2>2. CASE sessions[t].phase # "live"
    BY <1>1, <2>2 DEF Reached
  <2>3. CASE sessions[t].phase = "live"
    <3>1. casts[c].room = sessions[t].room => sessions[t].node \in Elements(hs)
      BY <2>0, <2>3 DEF ReachInv, Registered, k, hs
    <3>2. ASSUME NEW x \in Missing(t)' PROVE x \in Missing(t)
      <4>1. PICK i \in DOMAIN log' : i > sessions[t].start /\ casts[log'[i]].room = sessions[t].room
                                     /\ x = log'[i]
        BY <1>1, <3>2 DEF Missing, Due
      <4>2. x \notin Got(t) /\ x \notin Elements(pending'[sessions[t].node])
        BY <1>1, <2>1, <3>2 DEF Missing
      <4>3. x # c
        <5> SUFFICES ASSUME x = c PROVE FALSE
          OBVIOUS
        <5> QED
          BY <1>6, <2>0, <3>1, <4>1, <4>2
      <4>4. i \in DOMAIN log /\ log'[i] = log[i]
        BY <1>7, <4>1, <4>3
      <4>5. x \in Due(t)
        BY <4>1, <4>4 DEF Due
      <4> QED
        BY <1>6, <2>0, <4>2, <4>5 DEF Missing
    <3> QED
      BY <1>1, <2>0, <2>1, <3>2, ReachedKept DEF ReachInv, k
  <2> QED
    BY <2>2, <2>3
<1>9. Registered'
  <2>1. \A t \in 1..k : Alone(t)' <=> Alone(t)
    BY <1>1 DEF Alone
  <2> QED
    BY <1>1, <2>1 DEF ReachInv, Registered, k
<1> QED
  BY <1>1, <1>8, <1>9 DEF ReachInv, k

LEMMA TakeVersionReach ==
  ASSUME SessionTypes, BusTypes, ReachInv, TakeVersion
  PROVE  ReachInv'
<1>1. /\ UNCHANGED <<now, gate, active, rooms, sessions, handlers, log, pending>>
      /\ \E cast : casts' = Append(casts, cast)
  BY DEF TakeVersion
<1>2. \A c \in Broadcasts : casts'[c] = casts[c]
  BY <1>1, AppendFacts DEF BusTypes, Broadcasts
<1>3. \A i \in DOMAIN log : casts'[log[i]] = casts[log[i]]
  BY <1>2, ElementOfSeq, LenProperties DEF BusTypes
<1>4. \A t \in 1..Len(sessions) : Missing(t)' = Missing(t) /\ (Alone(t)' <=> Alone(t))
  BY <1>1, <1>3 DEF Missing, Due, Got, Received, Elements, Alone
<1> QED
  BY <1>1, <1>4 DEF ReachInv, Reached, Registered

\* What a handler does to one session.
LEMMA HandOut ==
  ASSUME SessionTypes, NEW n \in Nodes, Deliver(n), NEW t \in 1..Len(sessions)
  PROVE  /\ sessions'[t].phase = sessions[t].phase /\ sessions'[t].start = sessions[t].start
         /\ IF IsFor(t, n, casts[Head(pending[n])].room)
            THEN /\ sessions'[t].queue = PushDeque(sessions[t].queue, Handed(n), QueueMax)
                 /\ sessions'[t].dropped = sessions[t].dropped
                      + (IF Len(sessions[t].queue) = QueueMax THEN 1 ELSE 0)
            ELSE sessions'[t] = sessions[t]
<1> DEFINE m == Handed(n)
           room == casts[Head(pending[n])].room
           queue == PushDeque(sessions[t].queue, m, QueueMax)
           lost == sessions[t].dropped + (IF Len(sessions[t].queue) = QueueMax THEN 1 ELSE 0)
<1>1. t \in DOMAIN sessions /\ sessions[t] \in SessionRecs
  BY SessionFacts
<1>2. sessions' = [s \in DOMAIN sessions |->
                     IF IsFor(s, n, room)
                     THEN [sessions[s] EXCEPT
                             !.queue = PushDeque(@, m, QueueMax),
                             !.dropped = @ + (IF Len(sessions[s].queue) = QueueMax THEN 1 ELSE 0)]
                     ELSE sessions[s]]
  BY DEF Deliver, Handed
<1>3. sessions'[t] = IF IsFor(t, n, room)
                     THEN [sessions[t] EXCEPT !.queue = queue, !.dropped = lost]
                     ELSE sessions[t]
  BY <1>1, <1>2
<1> HIDE DEF queue, lost
<1>4. /\ sessions'[t].phase = sessions[t].phase /\ sessions'[t].start = sessions[t].start
      /\ IF IsFor(t, n, room) THEN sessions'[t].queue = queue /\ sessions'[t].dropped = lost
                              ELSE sessions'[t] = sessions[t]
  BY <1>1, <1>3 DEF SessionRecs
<1> QED
  BY <1>4 DEF queue, lost

\* A handler's copy reaches the queue of every session it is for; what the queue loses to
\* it is counted.
LEMMA DeliverReach ==
  ASSUME GateTypes, SessionTypes, BusTypes, ReachInv, NEW n \in Nodes, Deliver(n),
         SessionTypes', BusTypes'
  PROVE  ReachInv'
<1> DEFINE k == Len(sessions)
           c == Head(pending[n])
           m == Handed(n)
<1>1. /\ pending[n] # <<>> /\ c \in Broadcasts /\ m \in Messages
      /\ sessions' \in Seq(SessionRecs) /\ Len(sessions') = k
      /\ \A t \in 1..k : Same(t) /\ sessions'[t].sent = sessions[t].sent
  BY DeliverFacts
<1>2. /\ k \in Nat /\ DOMAIN sessions = 1..k /\ DOMAIN sessions' = 1..k
      /\ \A t \in 1..k : sessions[t] \in SessionRecs
  BY <1>1, SessionFacts, LenProperties
<1>3. /\ pending' = [pending EXCEPT ![n] = Tail(@)]
      /\ UNCHANGED <<now, gate, active, rooms, handlers, versions, casts, log>>
  BY DEF Deliver, busVars
<1>4. m.cast = c
  BY DEF Handed
<1>5. Elements(pending[n]) \subseteq Elements(pending'[n]) \cup {c}
      /\ \A x \in Nodes : x # n => pending'[x] = pending[x]
  <2> DEFINE old == pending[n]
             tail == Tail(old)
  <2>1. old \in Seq(Broadcasts) /\ pending'[n] = tail /\ \A x \in Nodes : x # n => pending'[x] = pending[x]
    BY <1>3 DEF BusTypes
  <2>2. c = old[1] /\ tail \in Seq(Broadcasts) /\ Len(tail) = Len(old) - 1
        /\ \A i \in 1..Len(tail) : tail[i] = old[i + 1]
    BY <1>1, <2>1, HeadTailProperties
  <2> HIDE DEF old, tail, c
  <2>3. DOMAIN old = 1..Len(old) /\ DOMAIN tail = 1..Len(tail) /\ Len(old) \in Nat
    BY <2>1, <2>2, LenProperties
  <2>4. \A i \in DOMAIN old : i = 1 \/ (i - 1 \in DOMAIN tail /\ tail[i - 1] = old[i])
    <3> SUFFICES ASSUME NEW i \in DOMAIN old, i # 1
                 PROVE  i - 1 \in DOMAIN tail /\ tail[i - 1] = old[i]
      OBVIOUS
    <3>1. i - 1 \in 1..Len(tail) /\ (i - 1) + 1 = i
      BY <2>2, <2>3
    <3> QED
      BY <2>2, <2>3, <3>1
  <2>5. Elements(old) \subseteq Elements(tail) \cup {c}
    BY <2>2, <2>4 DEF Elements
  <2> QED
    BY <2>1, <2>5 DEF old
<1>6. \A t \in 1..k : Alone(t)' => Alone(t)
  BY <1>1, <1>2, AloneBefore
<1> HIDE DEF k, c, m
<1>7. ASSUME NEW t \in 1..k PROVE Reached(t)'
  <2> DEFINE node == sessions[t].node
             old  == Received(t)
             new  == Received(t)'
             sent == sessions[t].sent
             queue == sessions[t].queue
             after == sessions'[t].queue
  <2>1. /\ node \in Nodes /\ sessions[t].dropped \in Nat /\ sent \in Seq(Messages)
        /\ queue \in Seq(Messages) /\ Len(queue) <= QueueMax
        /\ sessions'[t].sent = sent /\ Same(t)
    BY <1>1, <1>2 DEF SessionRecs, SessionTypes, k
  <2>2. /\ sessions'[t].phase = sessions[t].phase /\ sessions'[t].start = sessions[t].start
        /\ IF IsFor(t, n, casts[c].room)
           THEN /\ after = PushDeque(queue, m, QueueMax)
                /\ sessions'[t].dropped = sessions[t].dropped
                     + (IF Len(queue) = QueueMax THEN 1 ELSE 0)
           ELSE sessions'[t] = sessions[t]
    BY HandOut DEF c, m, k
  <2>3. Due(t)' = Due(t)
    BY <1>3, <2>1, <2>2 DEF Due, Same
  <2>4. pending'[sessions'[t].node] = pending'[node]
    BY <2>1 DEF Same
  <2>5. CASE sessions[t].phase # "live" \/ ~ Alone(t)
    BY <1>6, <2>2, <2>5 DEF Reached
  <2>6. CASE sessions[t].phase = "live" /\ Alone(t) /\ ~ IsFor(t, n, casts[c].room)
    <3>1. Got(t)' = Got(t) /\ sessions'[t].dropped = sessions[t].dropped
      BY <2>1, <2>2, <2>6 DEF Got, Received
    <3>2. node # n \/ sessions[t].room # casts[c].room
      BY <2>6 DEF IsFor, ReachInv, Registered, Held, k
    <3>3. sessions[t].room # casts[c].room => c \notin Due(t)
      BY DEF Due
    <3>4. Missing(t)' \subseteq Missing(t)
      <4> SUFFICES ASSUME NEW x \in Missing(t)' PROVE x \in Missing(t)
        OBVIOUS
      <4>1. x \in Due(t) /\ x \notin Got(t) /\ x \notin Elements(pending'[node])
        BY <2>3, <2>4, <3>1 DEF Missing, Elements
      <4>2. x \notin Elements(pending[node])
        BY <1>5, <2>1, <3>2, <3>3, <4>1
      <4> QED
        BY <4>1, <4>2 DEF Missing
    <3> QED
      BY <1>6, <2>1, <2>2, <3>1, <3>4, ReachedKept DEF ReachInv, k
  <2>7. CASE sessions[t].phase = "live" /\ Alone(t) /\ IsFor(t, n, casts[c].room)
    <3> DEFINE longer == Append(queue, m)
               lost == IF Len(queue) = QueueMax THEN 1 ELSE 0
    <3>1. node = n /\ sessions'[t].dropped = sessions[t].dropped + lost
      BY <2>2, <2>7 DEF IsFor
    <3>2. after \in Seq(Messages)
      <4>1. sessions'[t] \in SessionRecs
        BY <1>1, ElementOfSeq
      <4> QED
        BY <4>1 DEF SessionRecs
    <3>3. PICK at \in Nat : /\ Len(queue) < QueueMax => at = 0
                            /\ \A i \in 1..Len(longer) :
                                 i # at => \E j \in 1..Len(after) : after[j] = longer[i]
      <4>1. \A x \in Messages : x.priority \in Priorities
        BY DEF Messages
      <4>2. after = PushDeque(queue, m, QueueMax) /\ QueueMax \in Nat \ {0} /\ m \in Messages
        BY <1>1, <2>2, <2>7, GatewayAssumption
      <4>3. queue \in Seq(Messages) /\ Len(queue) <= QueueMax
        BY <2>1
      <4> HIDE DEF queue, after
      <4>4. LosesOne(PushDeque(queue, m, QueueMax), queue, m, QueueMax)
        BY <4>1, <4>2, <4>3, PushLoses
      <4> QED
        BY <4>2, <4>4 DEF LosesOne
    <3> DEFINE x == longer[at].cast
    <3>4. /\ Len(queue) \in Nat /\ Len(longer) = Len(queue) + 1 /\ longer[Len(queue) + 1] = m
          /\ \A i \in 1..Len(queue) : longer[i] = queue[i]
      BY <1>1, <2>1, AppendFacts
    <3>5. /\ old = sent \o queue /\ new = sent \o after
          /\ DOMAIN old = 1..(Len(sent) + Len(queue)) /\ DOMAIN new = 1..(Len(sent) + Len(after))
          /\ Len(sent) \in Nat /\ Len(after) \in Nat
          /\ \A i \in 1..(Len(sent) + Len(queue)) :
               old[i] = IF i <= Len(sent) THEN sent[i] ELSE queue[i - Len(sent)]
          /\ \A i \in 1..(Len(sent) + Len(after)) :
               new[i] = IF i <= Len(sent) THEN sent[i] ELSE after[i - Len(sent)]
      <4>1. old = sent \o queue /\ new = sent \o after
        BY <2>1 DEF Received
      <4> HIDE DEF sent, queue, after, old, new
      <4> QED
        BY <2>1, <3>2, <4>1, ConcatProperties, LenProperties
    <3> HIDE DEF longer, queue, after, sent, old, new
    <3>6. \A j \in 1..Len(after) : after[j].cast \in {new[i].cast : i \in DOMAIN new}
      <4> SUFFICES ASSUME NEW j \in 1..Len(after)
                   PROVE  after[j].cast \in {new[i].cast : i \in DOMAIN new}
        OBVIOUS
      <4>1. Len(sent) + j \in DOMAIN new /\ new[Len(sent) + j] = after[j]
        BY <3>5
      <4> QED
        BY <4>1
    <3>7. \A i \in 1..Len(longer) : i # at => longer[i].cast \in {new[j].cast : j \in DOMAIN new}
      BY <3>3, <3>6
    <3>8. \A i \in DOMAIN old : \/ old[i].cast \in {new[j].cast : j \in DOMAIN new}
                                \/ at \in 1..Len(longer) /\ old[i].cast = x
      <4> SUFFICES ASSUME NEW i \in DOMAIN old
                   PROVE  \/ old[i].cast \in {new[j].cast : j \in DOMAIN new}
                          \/ at \in 1..Len(longer) /\ old[i].cast = x
        OBVIOUS
      <4>1. CASE i <= Len(sent)
        <5>1. i \in DOMAIN new /\ new[i] = old[i]
          BY <3>5, <4>1
        <5> QED
          BY <5>1
      <4>2. CASE i > Len(sent)
        <5>1. i - Len(sent) \in 1..Len(queue) /\ old[i] = queue[i - Len(sent)]
          BY <3>4, <3>5, <4>2
        <5>2. i - Len(sent) \in 1..Len(longer) /\ old[i] = longer[i - Len(sent)]
          BY <3>4, <5>1
        <5> QED
          BY <3>7, <5>2
      <4> QED
        BY <3>4, <3>5, <4>1, <4>2
    <3>9. \/ c \in {new[j].cast : j \in DOMAIN new}
          \/ at \in 1..Len(longer) /\ c = x
      <4>1. Len(queue) + 1 \in 1..Len(longer) /\ longer[Len(queue) + 1].cast = c
        BY <1>4, <3>4
      <4> QED
        BY <3>7, <4>1
    <3>10. Got(t) = {old[i].cast : i \in DOMAIN old} /\ Got(t)' = {new[i].cast : i \in DOMAIN new}
      BY DEF Got, old, new
    <3>11. at = 0 => at \notin 1..Len(longer)
      BY <3>4
    <3>12. ASSUME NEW y \in Missing(t)' PROVE y \in Missing(t) \/ (at # 0 /\ y = x)
      <4>1. y \in Due(t) /\ y \notin Got(t)' /\ y \notin Elements(pending'[node])
        BY <2>3, <2>4 DEF Missing, Elements
      <4>2. y \notin Elements(pending[node]) \/ y = c
        BY <1>5, <3>1, <4>1
      <4>3. CASE y = c
        BY <3>9, <3>10, <3>11, <4>1, <4>3
      <4>4. CASE y # c
        <5>1. y \in Got(t) => at # 0 /\ y = x
          BY <3>8, <3>10, <3>11, <4>1
        <5> QED
          BY <4>1, <4>2, <4>4, <5>1 DEF Missing
      <4> QED
        BY <4>3, <4>4
    <3>13. Cardinality(Missing(t)') <= Cardinality(Missing(t)) + lost
      <4> DEFINE A == Missing(t)
                 B == Missing(t)'
      <4>1. IsFiniteSet(A) /\ Cardinality(A) \in Nat
        BY MissingIsFinite
      <4> HIDE DEF x
      <4>2. CASE at = 0
        <5>1. B \subseteq A
          BY <3>12, <4>2
        <5> HIDE DEF A, B
        <5>2. Cardinality(B) <= Cardinality(A) /\ IsFiniteSet(B)
          BY <4>1, <5>1, FS_Subset
        <5>3. Cardinality(B) \in Nat
          BY <5>2, FS_CardinalityType
        <5> QED
          BY <4>1, <5>2, <5>3 DEF A, B
      <4>3. CASE at # 0
        <5>1. B \subseteq A \cup {x}
          BY <3>12
        <5>2. lost = 1
          BY <2>1, <3>3, <3>4, <4>3, GatewayAssumption DEF queue
        <5> HIDE DEF A, B, lost
        <5>3. Cardinality(B) <= Cardinality(A) + 1
          BY <4>1, <5>1, Grown
        <5> QED
          BY <5>2, <5>3 DEF A, B
      <4> QED
        BY <4>2, <4>3
    <3>14. Cardinality(Missing(t)) <= sessions[t].dropped
      BY <2>7 DEF ReachInv, Reached, k
    <3>15. Cardinality(Missing(t)) \in Nat /\ Cardinality(Missing(t)') \in Nat
      <4>1. Cardinality(Missing(t)) \in Nat
        BY MissingIsFinite
      <4>2. Cardinality(Missing(t)') \in Nat
        <5>1. IsFiniteSet(Missing(t)) /\ Missing(t)' \subseteq Missing(t) \cup {x}
          BY <3>12, MissingIsFinite
        <5>2. IsFiniteSet(Missing(t) \cup {x})
          BY <5>1, FS_AddElement
        <5>3. IsFiniteSet(Missing(t)')
          BY <5>1, <5>2, FS_Subset
        <5> QED
          BY <5>3, FS_CardinalityType
      <4> QED
        BY <4>1, <4>2
    <3>16. lost \in {0, 1}
      OBVIOUS
    <3> HIDE DEF lost
    <3>17. Cardinality(Missing(t)') <= sessions'[t].dropped
      BY <2>1, <3>1, <3>13, <3>14, <3>15, <3>16
    <3> QED
      BY <3>17 DEF Reached
  <2> QED
    BY <2>5, <2>6, <2>7
<1>8. Registered'
  <2>1. ASSUME NEW t \in 1..k
        PROVE  /\ sessions'[t].phase = sessions[t].phase /\ Same(t)
    <3>1. sessions'[t].phase = sessions[t].phase
      BY HandOut DEF k
    <3> QED
      BY <1>1, <3>1
  <2> QED
    BY <1>1, <1>3, <1>6, <2>1 DEF ReachInv, Registered, Same, k
<1> QED
  BY <1>1, <1>7, <1>8 DEF ReachInv

LEMMA InitReach == ASSUME Init PROVE ReachInv
<1>1. Len(sessions) = 0 /\ 1..Len(sessions) = {}
  BY EmptySeq DEF Init
<1> QED
  BY <1>1 DEF Init, ReachInv, Registered

LEMMA NextReaches == ASSUME IInv, ReachInv, [Next]_vars, IInv' PROVE ReachInv'
<1>1. GateTypes /\ SessionTypes /\ BusTypes /\ Orders /\ SessionTypes' /\ BusTypes'
  BY DEF IInv
<1>2. CASE UNCHANGED <<active, rooms, sessions, handlers, casts, log, pending>>
  <2>1. Registered'
    BY <1>2 DEF ReachInv, Registered, Elements, Alone
  <2>2. \A s : Missing(s)' = Missing(s)
    BY <1>2 DEF Missing, Due, Got, Received, Elements
  <2>3. \A s : Alone(s)' <=> Alone(s)
    BY <1>2 DEF Alone
  <2>4. \A s : Reached(s)' <=> Reached(s)
    BY <1>2, <2>2, <2>3 DEF Reached
  <2> QED
    BY <1>2, <2>1, <2>4 DEF ReachInv
<1>3. ASSUME NEW e \in Entrances, Connect(e[1], e[2], e[3]) PROVE ReachInv'
  <2>1. e[1] \in Nodes /\ e[2] \in Users /\ e[3] \in Rooms
    BY GatewayAssumption
  <2> QED
    BY <1>1, <1>3, <2>1, ConnectReach
<1>4. ASSUME NEW n \in Nodes, Deliver(n) PROVE ReachInv'
  BY <1>1, <1>4, DeliverReach
<1>5. ASSUME NEW s \in DOMAIN sessions, Edit(s) PROVE ReachInv'
  BY <1>1, <1>5, EditReach
<1>6. ASSUME NEW c \in DOMAIN casts, Publish(c) PROVE ReachInv'
  BY <1>1, <1>6, PublishReach
<1>7. CASE TakeVersion
  BY <1>1, <1>7, TakeVersionReach
<1>8. ASSUME Tick \/ (\E n \in Nodes : Refuse(n)) \/ UNCHANGED vars
      PROVE  UNCHANGED <<active, rooms, sessions, handlers, casts, log, pending>>
  BY <1>8 DEF Tick, Refuse, vars, busVars
<1> QED
  BY <1>2, <1>3, <1>4, <1>5, <1>6, <1>7, <1>8 DEF Next, Edit

\* A running session whose user has no other on its node gets every event its room publishes
\* from then on, but for as many as its queue has dropped: whoever subscribed the room first, the
\* node is a handler of it, and the registration that delivery goes by is this session's
\* (_ensure_room_subscription, handle_connection, _fanout_event).
THEOREM RoomAlwaysReachesSession == Spec => []RoomReachesSession
<1>1. Init => IInv /\ ReachInv
  BY InitInv, InitReach
<1>2. IInv /\ ReachInv /\ [Next]_vars => IInv' /\ ReachInv'
  BY NextPreserves, NextReaches
<1>3. IInv /\ ReachInv => RoomReachesSession
  <2> SUFFICES ASSUME IInv, ReachInv, NEW s \in DOMAIN sessions,
                      sessions[s].phase = "live", Alone(s)
               PROVE  Cardinality(Missing(s)) <= sessions[s].dropped
    BY DEF RoomReachesSession, Missing, Due, Got
  <2>1. s \in 1..Len(sessions)
    BY SessionFacts DEF IInv
  <2> QED
    BY <2>1 DEF ReachInv, Reached
<1> QED
  BY <1>1, <1>2, <1>3, PTL DEF Spec
=============================================================================
