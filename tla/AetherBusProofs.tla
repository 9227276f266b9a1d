---------------------------- MODULE AetherBusProofs ---------------------------
(***************************************************************************)
(* The bus of the API gateway: for any number of publishers, messages,     *)
(* handlers, slots and restarts, no slot and no task is lost, handlers     *)
(* start in the order of the queue, a shutdown leaves nothing running and  *)
(* states that were built from the same updates agree.                     *)
(*                                                                         *)
(* What an action does to the tasks is stated once, as the states it gives *)
(* them (Restated); each part of the invariant follows from that.          *)
(***************************************************************************)
EXTENDS AetherBusExtreme, SequenceTheorems, FiniteSetTheorems,
        WellFoundedInduction, TLAPS

LEMMA LeastNatural ==
  ASSUME NEW T \in SUBSET Nat, T # {}
  PROVE  \E x \in T : \A y \in T : x <= y
<1>1. PICK x \in T : \A y \in T : ~ (<<y, x>> \in OpToRel(<, Nat))
  BY NatLessThanWellFounded, WFMin
<1> SUFFICES ASSUME NEW y \in T, ~ (x <= y) PROVE FALSE
  OBVIOUS
<1>2. x \in Nat /\ y \in Nat /\ y < x
  OBVIOUS
<1>3. <<y, x>> \in OpToRel(<, Nat)
  BY <1>2 DEF OpToRel
<1> QED
  BY <1>1, <1>3

LEMMA FirstIsFirst ==
  ASSUME NEW T \in SUBSET Nat, T # {}
  PROVE  First(T) \in T /\ \A y \in T : First(T) <= y
BY LeastNatural DEF First

\* The tasks there are, each where it was, in the states new gives them.
Restated(new) ==
  /\ tasks' \in Seq(Task) /\ DOMAIN tasks' = DOMAIN tasks
  /\ \A i \in DOMAIN tasks :
       /\ tasks'[i].message = tasks[i].message
       /\ tasks'[i].handler = tasks[i].handler
       /\ tasks'[i].set = tasks[i].set
       /\ tasks'[i].state = new[i]

LEMMA PutState ==
  ASSUME NEW ts \in Seq(Task), NEW i \in DOMAIN ts, NEW s \in TaskStates
  PROVE  LET t == [ts EXCEPT ![i].state = s]
         IN /\ t \in Seq(Task) /\ DOMAIN t = DOMAIN ts
            /\ \A j \in DOMAIN ts :
                 /\ t[j].message = ts[j].message /\ t[j].handler = ts[j].handler
                 /\ t[j].set = ts[j].set
                 /\ t[j].state = IF j = i THEN s ELSE ts[j].state
<1> DEFINE e == [ts[i] EXCEPT !.state = s]
           t == [ts EXCEPT ![i] = e]
<1>1. DOMAIN ts = 1..Len(ts) /\ \A j \in DOMAIN ts : ts[j] \in Task
  BY LenProperties, ElementOfSeq
<1>2. e \in Task /\ e.message = ts[i].message /\ e.handler = ts[i].handler
      /\ e.set = ts[i].set /\ e.state = s
  BY <1>1 DEF Task
<1> HIDE DEF e
<1>3. t \in Seq(Task) /\ DOMAIN t = DOMAIN ts
  BY <1>1, <1>2, ExceptSeq, LenProperties
<1>4. \A j \in DOMAIN ts : t[j] = IF j = i THEN e ELSE ts[j]
  OBVIOUS
<1>5. t = [ts EXCEPT ![i].state = s]
  BY DEF e
<1> HIDE DEF t
<1> QED
  BY <1>2, <1>3, <1>4, <1>5

\* One task changes its state.
LEMMA RestateOne ==
  ASSUME tasks \in Seq(Task), NEW i \in DOMAIN tasks, NEW s \in TaskStates,
         tasks' = [tasks EXCEPT ![i].state = s]
  PROVE  Restated([j \in DOMAIN tasks |-> IF j = i THEN s ELSE tasks[j].state])
BY PutState DEF Restated

\* Two do.
LEMMA RestateTwo ==
  ASSUME tasks \in Seq(Task), NEW i \in DOMAIN tasks, NEW s \in TaskStates,
         NEW k \in DOMAIN tasks, NEW r \in TaskStates, i # k,
         tasks' = [tasks EXCEPT ![i].state = s, ![k].state = r]
  PROVE  Restated([j \in DOMAIN tasks |->
                     IF j = i THEN s ELSE IF j = k THEN r ELSE tasks[j].state])
<1> DEFINE t == [tasks EXCEPT ![i].state = s]
<1>1. /\ t \in Seq(Task) /\ DOMAIN t = DOMAIN tasks
      /\ \A j \in DOMAIN tasks :
           /\ t[j].message = tasks[j].message /\ t[j].handler = tasks[j].handler
           /\ t[j].set = tasks[j].set
           /\ t[j].state = IF j = i THEN s ELSE tasks[j].state
  BY PutState
<1>2. tasks' = [t EXCEPT ![k].state = r] /\ k \in DOMAIN t
  OBVIOUS
<1> HIDE DEF t
<1>3. /\ tasks' \in Seq(Task) /\ DOMAIN tasks' = DOMAIN t
      /\ \A j \in DOMAIN t :
           /\ tasks'[j].message = t[j].message /\ tasks'[j].handler = t[j].handler
           /\ tasks'[j].set = t[j].set
           /\ tasks'[j].state = IF j = k THEN r ELSE t[j].state
  <2>1. t \in Seq(Task)
    BY <1>1
  <2> QED
    BY ONLY <1>2, <2>1, r \in TaskStates, PutState
<1> DEFINE new == [j \in DOMAIN tasks |->
                     IF j = i THEN s ELSE IF j = k THEN r ELSE tasks[j].state]
<1>4. \A j \in DOMAIN tasks :
        /\ tasks'[j].message = tasks[j].message /\ tasks'[j].handler = tasks[j].handler
        /\ tasks'[j].set = tasks[j].set
  BY ONLY <1>1, <1>3
<1>5. \A j \in DOMAIN tasks : tasks'[j].state = new[j]
  <2>1. \A j \in DOMAIN tasks :
          tasks'[j].state = IF j = k THEN r ELSE IF j = i THEN s ELSE tasks[j].state
    BY ONLY <1>1, <1>3
  <2>2. i # k
    OBVIOUS
  <2> QED
    BY ONLY <2>1, <2>2
<1>6. tasks' \in Seq(Task) /\ DOMAIN tasks' = DOMAIN tasks
  BY ONLY <1>1, <1>3
<1> HIDE DEF new
<1>7. Restated(new)
  BY ONLY <1>4, <1>5, <1>6 DEF Restated
<1> QED
  BY ONLY <1>7 DEF new

\* The indexes of tasks in some states.
LEMMA InIndexes ==
  ASSUME tasks \in Seq(Task), NEW S
  PROVE  /\ In(S) \subseteq DOMAIN tasks /\ In(S) \in SUBSET Nat
         /\ DOMAIN tasks = 1..Len(tasks) /\ Len(tasks) \in Nat
         /\ \A i \in DOMAIN tasks : tasks[i] \in Task
         /\ IsFiniteSet(In(S)) /\ Cardinality(In(S)) \in Nat
         /\ In(S) # {} => First(In(S)) \in In(S) /\ \A j \in In(S) : First(In(S)) <= j
<1>1. DOMAIN tasks = 1..Len(tasks) /\ Len(tasks) \in Nat
      /\ \A i \in DOMAIN tasks : tasks[i] \in Task
  BY LenProperties, ElementOfSeq
<1>2. In(S) \subseteq 1..Len(tasks) /\ In(S) \in SUBSET Nat
  BY <1>1 DEF In
<1>3. IsFiniteSet(In(S)) /\ Cardinality(In(S)) \in Nat
  <2>1. IsFiniteSet(1..Len(tasks))
    BY <1>1, FS_Interval
  <2>2. IsFiniteSet(In(S))
    BY <1>2, <2>1, FS_Subset
  <2> QED
    BY <2>2, FS_CardinalityType
<1> QED
  BY <1>1, <1>2, <1>3, FirstIsFirst

-----------------------------------------------------------------------------
(* The invariant                                                             *)

\* Whoever waits in put() waits for a message of its own, once; what was accepted is
\* what the publishers are done with, each message once.
QueueInv ==
  /\ sent \in [Publishers -> Nat]
  /\ \A p \in Publishers :
       /\ sent[p] <= Len(Script[p])
       /\ publishing[p] # "idle" => sent[p] < Len(Script[p])
  /\ putters \in Seq(Publishers)
  /\ \A i, j \in DOMAIN putters : putters[i] = putters[j] => i = j
  /\ \A n \in DOMAIN accepted :
       \E p \in Publishers : \E k \in 1..sent[p] : accepted[n] = Script[p][k]
  /\ \A m, n \in DOMAIN accepted : accepted[m] = accepted[n] => m = n

\* A task that has not come as far as another one was created after it.
StartedInOrder ==
  \A i, j \in DOMAIN tasks : i < j =>
    /\ tasks[i].state = "created" => tasks[j].state \in {"created", "cancelled"}
    /\ tasks[i].state = "waiting" => tasks[j].state \in {"created", "waiting", "cancelled"}

\* The tasks follow the messages that were taken.
DispatchedInOrder ==
  /\ \A i \in DOMAIN tasks : \E n \in 1..taken : accepted[n] = tasks[i].message
  /\ \A i, j \in DOMAIN tasks : \A m, n \in DOMAIN accepted :
       i < j /\ accepted[m] = tasks[i].message /\ accepted[n] = tasks[j].message
       => m <= n

\* A shutdown nobody started over knows every task there still is.
StopInv ==
  /\ running => restarted
  /\ stopping = "tasks" /\ ~restarted => background \subseteq awaited
  /\ stopping = "no" /\ ~restarted => background = {}

\* A state built from versioned updates alone is the newest of them.
NewestApplied ==
  /\ state \in [Handlers -> [message : Messages \cup {0}, version : Int]]
  /\ \A h \in Handlers :
       (\A m \in Applied(h) : VersionOf[m] # NoVersion) =>
         /\ \A m \in Applied(h) : VersionOf[m] <= state[h].version
         /\ \/ state[h] = NoState
            \/ \E m \in Applied(h) : /\ VersionOf[m] > -1
                                     /\ state[h].message = m
                                     /\ state[h].version = VersionOf[m]

BusInv ==
  /\ TypeOK /\ QueueInv /\ SlotsReturned /\ LiveTasksAreHeld
  /\ StartedInOrder /\ DispatchedInOrder /\ StopInv /\ NewestApplied

-----------------------------------------------------------------------------
(* What the actions do to the tasks                                          *)

LEMMA StartHandlerEffect ==
  ASSUME tasks \in Seq(Task), StartHandler
  PROVE  \E i \in DOMAIN tasks :
           /\ tasks[i].state = "created"
           /\ \A j \in DOMAIN tasks : j < i => tasks[j].state # "created"
           /\ \/ /\ SlotIsFree /\ slots' = slots - 1
                 /\ Restated([j \in DOMAIN tasks |->
                                IF j = i THEN "running" ELSE tasks[j].state])
              \/ /\ slots' = slots
                 /\ Restated([j \in DOMAIN tasks |->
                                IF j = i THEN "waiting" ELSE tasks[j].state])
<1> DEFINE i == First(In({"created"}))
<1>1. /\ i \in In({"created"}) /\ \A j \in In({"created"}) : i <= j
      /\ DOMAIN tasks \subseteq Nat
  <2>1. In({"created"}) # {}
    BY DEF StartHandler
  <2> QED
    BY <2>1, InIndexes
<1>2. \/ SlotIsFree /\ tasks' = [tasks EXCEPT ![i].state = "running"] /\ slots' = slots - 1
      \/ tasks' = [tasks EXCEPT ![i].state = "waiting"] /\ slots' = slots
  BY DEF StartHandler
<1> HIDE DEF i
<1>3. i \in DOMAIN tasks /\ tasks[i].state = "created"
  BY <1>1 DEF In
<1>4. \A j \in DOMAIN tasks : j < i => tasks[j].state # "created"
  BY <1>1, <1>3 DEF In
<1>5. "running" \in TaskStates /\ "waiting" \in TaskStates
  BY DEF TaskStates
<1> QED
  BY <1>2, <1>3, <1>4, <1>5, RestateOne

LEMMA EnterEffect ==
  ASSUME tasks \in Seq(Task), Enter
  PROVE  \E i \in DOMAIN tasks :
           /\ tasks[i].state = "granted"
           /\ \/ /\ slots' = slots
                 /\ Restated([j \in DOMAIN tasks |->
                                IF j = i THEN "running" ELSE tasks[j].state])
              \/ \E k \in DOMAIN tasks :
                   /\ slots > 0 /\ slots' = slots - 1
                   /\ tasks[k].state = "waiting"
                   /\ \A j \in DOMAIN tasks : j < k => tasks[j].state # "waiting"
                   /\ Restated([j \in DOMAIN tasks |->
                                  IF j = i THEN "running"
                                  ELSE IF j = k THEN "granted" ELSE tasks[j].state])
<1> DEFINE i == First(In({"granted", "revoked"}))
           k == First(In({"waiting"}))
<1>1. i \in DOMAIN tasks
  <2>1. In({"granted", "revoked"}) # {}
    BY DEF Enter
  <2>2. i \in In({"granted", "revoked"})
    BY <2>1, InIndexes
  <2> QED
    BY <2>2, InIndexes
<1>2. /\ tasks[i].state = "granted"
      /\ \/ /\ slots > 0 /\ In({"waiting"}) # {} /\ slots' = slots - 1
            /\ tasks' = [tasks EXCEPT ![i].state = "running", ![k].state = "granted"]
         \/ slots' = slots /\ tasks' = [tasks EXCEPT ![i].state = "running"]
  BY DEF Enter
<1> HIDE DEF i
<1>3. "running" \in TaskStates /\ "granted" \in TaskStates
  BY DEF TaskStates
<1>4. CASE slots' = slots /\ tasks' = [tasks EXCEPT ![i].state = "running"]
  BY <1>1, <1>2, <1>3, <1>4, RestateOne
<1>5. CASE /\ slots > 0 /\ In({"waiting"}) # {} /\ slots' = slots - 1
           /\ tasks' = [tasks EXCEPT ![i].state = "running", ![k].state = "granted"]
  <2>1. k \in In({"waiting"}) /\ \A j \in In({"waiting"}) : k <= j
    BY <1>5, InIndexes
  <2> HIDE DEF k
  <2>2. /\ k \in DOMAIN tasks /\ tasks[k].state = "waiting"
        /\ \A j \in DOMAIN tasks : j < k => tasks[j].state # "waiting"
    <3>1. DOMAIN tasks \subseteq Nat
      BY InIndexes
    <3> QED
      BY <2>1, <3>1 DEF In
  <2>3. i # k
    BY <1>2, <2>2
  <2>4. Restated([j \in DOMAIN tasks |-> IF j = i THEN "running"
                     ELSE IF j = k THEN "granted" ELSE tasks[j].state])
    <3>1. k \in DOMAIN tasks
      BY <2>2
    <3>2. tasks' = [tasks EXCEPT ![i].state = "running", ![k].state = "granted"]
      BY <1>5
    <3>3. tasks \in Seq(Task)
      OBVIOUS
    <3> QED
      BY ONLY <1>1, <1>3, <2>3, <3>1, <3>2, <3>3, RestateTwo
  <2> QED
    BY <1>1, <1>2, <1>5, <2>2, <2>4
<1> QED
  BY <1>2, <1>4, <1>5

LEMMA EndHolderEffect ==
  ASSUME tasks \in Seq(Task), NEW i \in DOMAIN tasks, NEW end \in Ended,
         tasks[i].state \in {"running", "cancelling", "revoked"}, EndHolder(i, end)
  PROVE  \/ /\ slots' = slots + 1
            /\ Restated([j \in DOMAIN tasks |-> IF j = i THEN end ELSE tasks[j].state])
         \/ \E k \in DOMAIN tasks :
              /\ slots' = slots
              /\ tasks[k].state = "waiting"
              /\ \A j \in DOMAIN tasks : j < k => tasks[j].state # "waiting"
              /\ Restated([j \in DOMAIN tasks |->
                             IF j = i THEN end
                             ELSE IF j = k THEN "granted" ELSE tasks[j].state])
<1> DEFINE k == First(In({"waiting"}))
<1>1. \/ /\ In({"waiting"}) # {} /\ slots' = slots
         /\ tasks' = [tasks EXCEPT ![i].state = end, ![k].state = "granted"]
      \/ slots' = slots + 1 /\ tasks' = [tasks EXCEPT ![i].state = end]
  BY DEF EndHolder
<1>2. end \in TaskStates /\ "granted" \in TaskStates
  BY DEF TaskStates, Ended
<1>3. CASE slots' = slots + 1 /\ tasks' = [tasks EXCEPT ![i].state = end]
  BY <1>2, <1>3, RestateOne
<1>4. CASE /\ In({"waiting"}) # {} /\ slots' = slots
           /\ tasks' = [tasks EXCEPT ![i].state = end, ![k].state = "granted"]
  <2>1. k \in In({"waiting"}) /\ \A j \in In({"waiting"}) : k <= j
    BY <1>4, InIndexes
  <2> HIDE DEF k
  <2>2. /\ k \in DOMAIN tasks /\ tasks[k].state = "waiting"
        /\ \A j \in DOMAIN tasks : j < k => tasks[j].state # "waiting"
    <3>1. DOMAIN tasks \subseteq Nat
      BY InIndexes
    <3> QED
      BY <2>1, <3>1 DEF In
  <2>3. i # k
    BY <2>2
  <2>4. Restated([j \in DOMAIN tasks |-> IF j = i THEN end
                     ELSE IF j = k THEN "granted" ELSE tasks[j].state])
    BY <1>2, <1>4, <2>2, <2>3, RestateTwo
  <2> QED
    BY <1>4, <2>2, <2>4
<1> QED
  BY <1>1, <1>3, <1>4

\* What a cancellation makes of a task in state s.
AfterCancel(s) ==
  CASE s \in {"created", "waiting"} -> "cancelled"
    [] s = "granted" -> "revoked"
    [] s = "running" -> "cancelling"
    [] OTHER -> s

LEMMA CancelEffect ==
  ASSUME tasks \in Seq(Task), CancelHandlers
  PROVE  Restated([j \in DOMAIN tasks |-> IF j \in background
                                          THEN AfterCancel(tasks[j].state)
                                          ELSE tasks[j].state])
<1>1. DOMAIN tasks = 1..Len(tasks) /\ Len(tasks) \in Nat
      /\ \A i \in DOMAIN tasks : tasks[i] \in Task
  BY InIndexes
<1>2. ASSUME NEW e \in Task
      PROVE  /\ Cancelled(e) \in Task /\ Cancelled(e).state = AfterCancel(e.state)
             /\ Cancelled(e).message = e.message /\ Cancelled(e).handler = e.handler
             /\ Cancelled(e).set = e.set
  <2>1. Cancelled(e) = [e EXCEPT !.state = AfterCancel(e.state)]
    BY DEF Cancelled, AfterCancel
  <2>2. AfterCancel(e.state) \in TaskStates
    BY DEF AfterCancel, TaskStates, Task
  <2> QED
    BY <2>1, <2>2 DEF Task
<1>3. tasks' = [i \in DOMAIN tasks |-> IF i \in background THEN Cancelled(tasks[i])
                                                           ELSE tasks[i]]
  BY DEF CancelHandlers
<1>4. tasks' \in [1..Len(tasks) -> Task]
  BY <1>1, <1>2, <1>3
<1>5. tasks' \in Seq(Task)
  BY <1>1, <1>4, IsASeq
<1> QED
  BY <1>1, <1>2, <1>3, <1>5 DEF Restated

\* Dealing out n things w at a time.
LEMMA Division ==
  ASSUME NEW w \in Nat, w > 0, NEW a \in Nat
  PROVE  a \div w \in Nat /\ w * (a \div w) <= a /\ a < w * (a \div w) + w
OBVIOUS

LEMMA Product ==
  ASSUME NEW w \in Nat, w > 0, NEW x \in Int, NEW y \in Int, w * x < w * y + w
  PROVE  x <= y
<1> SUFFICES ASSUME x >= y + 1 PROVE FALSE
  OBVIOUS
<1>1. w * x >= w * (y + 1)
  OBVIOUS
<1>2. w * (y + 1) = w * y + w
  OBVIOUS
<1>3. w * x \in Int /\ w * y \in Int
  OBVIOUS
<1> QED
  BY <1>1, <1>2, <1>3

LEMMA DealOut ==
  ASSUME NEW w \in Nat, w > 0, NEW a \in Nat, NEW b \in Nat, a <= b, NEW k \in Nat, b < k * w
  PROVE  a \div w \in 0..(k - 1) /\ b \div w \in 0..(k - 1) /\ a \div w <= b \div w
<1> DEFINE x == a \div w
           y == b \div w
<1>1. /\ x \in Nat /\ w * x <= a /\ a < w * x + w
      /\ y \in Nat /\ w * y <= b /\ b < w * y + w
  BY Division
<1> HIDE DEF x, y
<1>2. w * x \in Int /\ w * y \in Int /\ w * (k - 1) \in Int /\ k - 1 \in Int
      /\ k * w = w * (k - 1) + w
  BY <1>1
<1>3. x <= y
  BY <1>1, <1>2, Product
<1>4. y <= k - 1
  BY <1>1, <1>2, Product
<1> QED
  BY <1>1, <1>3, <1>4 DEF x, y

\* Every handler has a place in the order of a dispatch.
LEMMA HandlerOrderType ==
  ASSUME TypeOK, NEW n \in 1..Cardinality(subscribers)
  PROVE  HandlerAt(n) \in Handlers
<1>1. IsFiniteSet(subscribers)
  BY BusAssumption, FS_Subset DEF TypeOK
<1>2. ExistsBijection(1..Cardinality(subscribers), subscribers)
  BY <1>1, FS_CardinalityType
<1>3. \E f \in [1..Cardinality(subscribers) -> subscribers] :
        \A h \in subscribers : \E k \in 1..Cardinality(subscribers) : f[k] = h
  BY <1>2 DEF ExistsBijection, Bijection, Surjection
<1>4. HandlerOrder \in [1..Cardinality(subscribers) -> subscribers]
  BY <1>3 DEF HandlerOrder
<1> QED
  BY <1>4 DEF HandlerAt, TypeOK

\* The worker leaves the tasks there are and adds new ones, which follow the messages
\* that were waiting.
LEMMA ProcessQueueEffect ==
  ASSUME TypeOK, ProcessQueue
  PROVE  /\ tasks' \in Seq(Task) /\ Len(tasks') >= Len(tasks)
         /\ \A i \in 1..Len(tasks) : tasks'[i] = tasks[i]
         /\ background' = background \cup (Len(tasks) + 1)..Len(tasks')
         /\ \A i \in (Len(tasks) + 1)..Len(tasks') :
              tasks'[i].state = "created" /\ tasks'[i].set = setNo
         /\ \E q \in [(Len(tasks) + 1)..Len(tasks') -> (taken + 1)..Len(accepted)] :
              /\ \A i \in (Len(tasks) + 1)..Len(tasks') :
                   tasks'[i].message = accepted[q[i]]
              /\ \A i, j \in (Len(tasks) + 1)..Len(tasks') : i < j => q[i] <= q[j]
<1> DEFINE w == Cardinality(subscribers)
           messages == SubSeq(accepted, taken + 1, Len(accepted))
           size == Len(messages) * w
           new == Created(messages)
           L == Len(tasks)
<1>1. w \in Nat /\ L \in Nat /\ taken \in Nat /\ Len(accepted) \in Nat
      /\ taken <= Len(accepted) /\ tasks \in Seq(Task) /\ accepted \in Seq(Messages)
  <2>1. IsFiniteSet(subscribers)
    BY BusAssumption, FS_Subset DEF TypeOK
  <2> QED
    BY <2>1, FS_CardinalityType, LenProperties DEF TypeOK
<1>2. /\ messages \in Seq(Messages) /\ Len(messages) = Len(accepted) - taken
      /\ \A i \in 1..Len(messages) : messages[i] = accepted[taken + i]
            /\ messages[i] \in Messages
  <2>1. \A i \in (taken + 1)..Len(accepted) : accepted[i] \in Messages
    BY <1>1, ElementOfSeq
  <2>2. taken + 1 \in Int /\ Len(accepted) \in Int
    BY <1>1
  <2>3. /\ messages \in Seq(Messages)
        /\ Len(messages) = IF taken + 1 <= Len(accepted)
                           THEN Len(accepted) - (taken + 1) + 1 ELSE 0
        /\ \A i \in 1..(Len(accepted) - (taken + 1) + 1) :
             messages[i] = accepted[(taken + 1) + i - 1]
    BY <2>1, <2>2, SubSeqProperties
  <2> HIDE DEF messages
  <2>4. Len(messages) = Len(accepted) - taken
    BY <1>1, <2>3
  <2>5. \A i \in 1..Len(messages) : (taken + 1) + i - 1 = taken + i
          /\ i \in 1..(Len(accepted) - (taken + 1) + 1)
    BY <1>1, <2>4
  <2>6. \A i \in 1..Len(messages) : messages[i] = accepted[taken + i]
    BY <2>3, <2>5
  <2> QED
    BY <2>3, <2>4, <2>6, ElementOfSeq
<1> HIDE DEF messages, w
<1>3. size \in Nat
  BY <1>1, <1>2
<1>4. new = [n \in 1..size |->
        [message |-> messages[((n - 1) \div w) + 1],
         handler |-> HandlerAt(((n - 1) % w) + 1),
         state |-> "created", set |-> setNo]]
  BY DEF Created, w
<1>5. ASSUME NEW n \in 1..size
      PROVE  /\ w > 0 /\ n - 1 \in Nat /\ n - 1 < Len(messages) * w
             /\ ((n - 1) \div w) + 1 \in 1..Len(messages)
             /\ ((n - 1) % w) + 1 \in 1..w
  <2>1. w > 0
    <3>1. CASE w = 0
      BY <1>2, <1>3, <3>1
    <3> QED
      BY <1>1, <3>1
  <2>2. n - 1 \in Nat /\ n - 1 < Len(messages) * w
    BY <1>3
  <2>3. Len(messages) \in Nat
    BY <1>1, <1>2
  <2>4. (n - 1) \div w \in 0..(Len(messages) - 1)
    BY <1>1, <2>1, <2>2, <2>3, DealOut
  <2>5. (n - 1) % w \in 0..(w - 1)
    BY <1>1, <2>1, <2>2
  <2> HIDE DEF size
  <2> QED
    BY <1>1, <2>1, <2>2, <2>3, <2>4, <2>5
<1> HIDE DEF size
<1>6. ASSUME NEW n \in 1..size PROVE new[n] \in Task
  <2>1. messages[((n - 1) \div w) + 1] \in Messages
    BY <1>2, <1>5
  <2>2. HandlerAt(((n - 1) % w) + 1) \in Handlers
    BY <1>5, HandlerOrderType DEF w
  <2> QED
    BY <1>4, <2>1, <2>2 DEF Task, TaskStates, TypeOK
<1>7. new \in [1..size -> Task]
  BY <1>4, <1>6
<1>8. new \in Seq(Task) /\ Len(new) = size
  <2>1. new \in Seq(Task)
    BY <1>3, <1>7, IsASeq
  <2>2. DOMAIN new = 1..size
    BY <1>7
  <2> HIDE DEF new
  <2> QED
    BY <1>3, <2>1, <2>2
<1>9. /\ tasks' = tasks \o new /\ background' = background \cup {L + n : n \in DOMAIN new}
  BY DEF ProcessQueue, messages
<1> HIDE DEF new
<1>10. /\ tasks' \in Seq(Task) /\ Len(tasks') = L + size
       /\ \A i \in 1..(L + size) : tasks'[i] = IF i <= L THEN tasks[i] ELSE new[i - L]
  BY <1>1, <1>8, <1>9, ConcatProperties
<1>11. background' = background \cup (L + 1)..(L + size)
  <2>1. DOMAIN new = 1..size
    BY <1>7
  <2>2. {L + n : n \in 1..size} = (L + 1)..(L + size)
    <3>1. \A x \in (L + 1)..(L + size) : x - L \in 1..size /\ x = L + (x - L)
      BY <1>1, <1>3
    <3>2. \A n \in 1..size : L + n \in (L + 1)..(L + size)
      BY <1>1, <1>3
    <3> QED
      BY <3>1, <3>2
  <2> QED
    BY <1>9, <2>1, <2>2
<1> DEFINE q == [i \in (L + 1)..(L + size) |-> taken + (((i - L - 1) \div w) + 1)]
<1>12. ASSUME NEW i \in (L + 1)..(L + size)
       PROVE  /\ i - L \in 1..size /\ i - L - 1 = (i - L) - 1 /\ tasks'[i] = new[i - L]
              /\ q[i] \in (taken + 1)..Len(accepted)
              /\ messages[((i - L - 1) \div w) + 1] = accepted[q[i]]
  <2>1. i - L \in 1..size /\ i - L - 1 = (i - L) - 1 /\ i \in 1..(L + size) /\ ~ (i <= L)
    BY <1>1, <1>3
  <2>2. ((i - L - 1) \div w) + 1 \in 1..Len(messages)
    BY <1>5, <2>1
  <2>3. q[i] = taken + (((i - L - 1) \div w) + 1)
    OBVIOUS
  <2> HIDE DEF q
  <2>4. q[i] \in (taken + 1)..Len(accepted)
    BY <1>1, <1>2, <2>2, <2>3
  <2> QED
    BY <1>2, <1>10, <2>1, <2>2, <2>3, <2>4
<1>13. ASSUME NEW i \in (L + 1)..(L + size), NEW j \in (L + 1)..(L + size), i < j
       PROVE  q[i] <= q[j]
  <2>1. i - L \in 1..size /\ j - L \in 1..size
    BY <1>12
  <2>2. /\ w > 0 /\ i - L - 1 \in Nat /\ j - L - 1 \in Nat /\ i - L - 1 <= j - L - 1
        /\ j - L - 1 < Len(messages) * w
    BY <1>1, <1>5, <1>12, <1>13, <2>1
  <2>3. Len(messages) \in Nat
    BY <1>1, <1>2
  <2>4. (i - L - 1) \div w <= (j - L - 1) \div w
        /\ (i - L - 1) \div w \in Int /\ (j - L - 1) \div w \in Int
    <3> DEFINE a == i - L - 1
               b == j - L - 1
               k == Len(messages)
    <3>1. w \in Nat /\ w > 0 /\ a \in Nat /\ b \in Nat /\ a <= b /\ k \in Nat /\ b < k * w
      BY <1>1, <2>2, <2>3
    <3> HIDE DEF a, b, k
    <3>2. a \div w \in 0..(k - 1) /\ b \div w \in 0..(k - 1) /\ a \div w <= b \div w
      BY ONLY <3>1, DealOut
    <3>3. a \div w <= b \div w /\ a \div w \in Int /\ b \div w \in Int
      BY <3>1, <3>2
    <3> QED
      BY <3>3 DEF a, b
  <2>5. /\ q[i] = taken + (((i - L - 1) \div w) + 1)
        /\ q[j] = taken + (((j - L - 1) \div w) + 1)
    OBVIOUS
  <2> HIDE DEF q
  <2> QED
    BY <1>1, <2>4, <2>5
<1>14. \A i \in (L + 1)..(L + size) :
         /\ tasks'[i].state = "created" /\ tasks'[i].set = setNo
         /\ tasks'[i].message = accepted[q[i]]
  <2> SUFFICES ASSUME NEW i \in (L + 1)..(L + size)
               PROVE  /\ tasks'[i].state = "created" /\ tasks'[i].set = setNo
                      /\ tasks'[i].message = accepted[q[i]]
    OBVIOUS
  <2>1. /\ tasks'[i] = new[i - L] /\ i - L \in 1..size /\ i - L - 1 = (i - L) - 1
        /\ messages[((i - L - 1) \div w) + 1] = accepted[q[i]]
    BY <1>12
  <2>2. /\ new[i - L].state = "created" /\ new[i - L].set = setNo
        /\ new[i - L].message = messages[((i - L - 1) \div w) + 1]
    BY <1>4, <2>1
  <2> HIDE DEF q
  <2> QED
    BY <2>1, <2>2
<1>15. q \in [(L + 1)..(L + size) -> (taken + 1)..Len(accepted)]
  BY <1>12
<1> HIDE DEF q
<1>16. Len(tasks') >= L /\ \A i \in 1..L : tasks'[i] = tasks[i]
  BY <1>1, <1>3, <1>10
<1> QED
  BY <1>10, <1>11, <1>13, <1>14, <1>15, <1>16

-----------------------------------------------------------------------------
(* Publishing                                                                *)

\* The conjuncts of TypeOK about the queue.
QueueType ==
  /\ accepted \in Seq(Messages) /\ taken \in 0..Len(accepted) /\ QueueLen <= QueueMax
  /\ publishing \in [Publishers -> {"idle", "blocked", "woken"}]
  /\ {putters[i] : i \in DOMAIN putters} = {p \in Publishers : publishing[p] = "blocked"}

LEMMA EnqueueKeeps ==
  ASSUME QueueType, QueueInv, NEW p \in Publishers, publishing[p] # "blocked",
         sent[p] < Len(Script[p]), ~Full, Enqueue(p), putters' = putters, taken' = taken
  PROVE  QueueType' /\ QueueInv'
<1> DEFINE x == NextOf(p)
           L == Len(accepted)
<1>1. L \in Nat /\ taken \in Nat /\ taken <= L /\ accepted \in Seq(Messages)
      /\ DOMAIN accepted = 1..L
  BY LenProperties DEF QueueType
<1>2. sent[p] \in Nat /\ Script[p] \in Seq(Messages) /\ Len(Script[p]) \in Nat
      /\ DOMAIN Script[p] = 1..Len(Script[p])
  BY BusAssumption, LenProperties DEF QueueInv
<1>3. sent[p] + 1 \in 1..Len(Script[p]) /\ x = Script[p][sent[p] + 1] /\ x \in Messages
  <2>1. sent[p] + 1 \in 1..Len(Script[p])
    BY <1>2
  <2> QED
    BY <1>2, <2>1, ElementOfSeq DEF NextOf
<1> HIDE DEF x
<1>4. /\ accepted' \in Seq(Messages) /\ Len(accepted') = L + 1
      /\ accepted'[L + 1] = x /\ \A i \in 1..L : accepted'[i] = accepted[i]
      /\ DOMAIN accepted' = 1..(L + 1)
  <2>1. accepted' = Append(accepted, x)
    BY DEF Enqueue, x
  <2>2. /\ accepted' \in Seq(Messages) /\ Len(accepted') = L + 1
        /\ accepted'[L + 1] = x /\ \A i \in 1..L : accepted'[i] = accepted[i]
    BY <1>1, <1>3, <2>1, AppendProperties
  <2> QED
    BY <2>2, LenProperties
<1>5. /\ sent' \in [Publishers -> Nat] /\ sent'[p] = sent[p] + 1
      /\ \A q \in Publishers : q # p => sent'[q] = sent[q]
      /\ publishing' \in [Publishers -> {"idle", "blocked", "woken"}]
      /\ publishing'[p] = "idle"
      /\ \A q \in Publishers : q # p => publishing'[q] = publishing[q]
  BY <1>2 DEF Enqueue, QueueInv, QueueType
<1>6. {q \in Publishers : publishing'[q] = "blocked"}
        = {q \in Publishers : publishing[q] = "blocked"}
  BY <1>5
<1>7. QueueType'
  <2>1. taken' \in 0..Len(accepted') /\ QueueLen' <= QueueMax
    <3>1. L - taken < QueueMax
      BY <1>1, BusAssumption DEF Full, QueueLen
    <3> QED
      BY <1>1, <1>4, <3>1, BusAssumption DEF QueueLen
  <2> QED
    BY <1>4, <1>5, <1>6, <2>1 DEF QueueType
<1>8. ASSUME NEW q \in Publishers
      PROVE  /\ sent'[q] <= Len(Script[q])
             /\ publishing'[q] # "idle" => sent'[q] < Len(Script[q])
  <2>1. CASE q = p
    BY <1>2, <1>3, <1>5, <2>1
  <2>2. CASE q # p
    BY <1>5, <2>2 DEF QueueInv
  <2> QED
    BY <2>1, <2>2
<1>9. \A n \in 1..L : \E q \in Publishers : \E k \in 1..sent[q] :
        accepted[n] = Script[q][k]
  BY <1>1 DEF QueueInv
<1>10. \A n \in 1..L : accepted[n] # x
  <2> SUFFICES ASSUME NEW n \in 1..L, accepted[n] = x PROVE FALSE
    OBVIOUS
  <2>1. PICK q \in Publishers : \E k \in 1..sent[q] : accepted[n] = Script[q][k]
    BY <1>9
  <2>1a. PICK k \in 1..sent[q] : accepted[n] = Script[q][k]
    BY <2>1
  <2>2. k \in DOMAIN Script[q]
    <3>1. Script[q] \in Seq(Messages) /\ sent[q] \in Nat /\ sent[q] <= Len(Script[q])
      BY BusAssumption DEF QueueInv
    <3> QED
      BY <3>1, LenProperties
  <2>3. q = p /\ k = sent[p] + 1
    BY <1>2, <1>3, <2>1a, <2>2, EnvelopeAssumption
  <2> QED
    BY <1>2, <2>3
<1>11. ASSUME NEW n \in 1..(L + 1)
       PROVE  \E q \in Publishers : \E k \in 1..sent'[q] : accepted'[n] = Script[q][k]
  <2>1. CASE n = L + 1
    <3>1. sent[p] + 1 \in 1..sent'[p]
      BY <1>2, <1>5
    <3> QED
      BY <1>3, <1>4, <2>1, <3>1
  <2>2. CASE n \in 1..L
    <3>1. PICK q \in Publishers : \E k \in 1..sent[q] : accepted[n] = Script[q][k]
      BY <1>9, <2>2
    <3>1a. PICK k \in 1..sent[q] : accepted[n] = Script[q][k]
      BY <3>1
    <3>2. sent[q] \in Nat /\ sent'[q] \in Nat /\ sent[q] <= sent'[q]
      <4>1. sent[q] \in Nat /\ sent'[q] \in Nat
        BY <1>5 DEF QueueInv
      <4>2. sent'[q] = sent[q] \/ sent'[q] = sent[q] + 1
        BY <1>5
      <4> QED
        BY ONLY <4>1, <4>2
    <3>3. k \in 1..sent'[q]
      BY <3>2
    <3> QED
      BY <1>4, <2>2, <3>1a, <3>3
  <2> QED
    BY <1>1, <2>1, <2>2
<1>12. ASSUME NEW m \in 1..(L + 1), NEW n \in 1..(L + 1), accepted'[m] = accepted'[n]
       PROVE  m = n
  <2>1. \A i \in 1..(L + 1) : i = L + 1 \/ i \in 1..L
    BY <1>1
  <2>2. CASE m \in 1..L /\ n \in 1..L
    BY <1>1, <1>4, <1>12, <2>2 DEF QueueInv
  <2>3. CASE m = L + 1 \/ n = L + 1
    BY <1>4, <1>10, <1>12, <2>1, <2>3
  <2> QED
    BY <2>1, <2>2, <2>3
<1>13. QueueInv'
  BY <1>4, <1>5, <1>8, <1>11, <1>12 DEF QueueInv
<1> QED
  BY <1>7, <1>13

\* A publisher that is not in the line yet waits at its end.
LEMMA BlockKeeps ==
  ASSUME QueueType, QueueInv, NEW p \in Publishers, publishing[p] # "blocked",
         sent[p] < Len(Script[p]), Block(p), taken' = taken
  PROVE  QueueType' /\ QueueInv'
<1> DEFINE L == Len(putters)
<1>1. L \in Nat /\ putters \in Seq(Publishers) /\ DOMAIN putters = 1..L
  BY LenProperties DEF QueueInv
<1>2. /\ putters' \in Seq(Publishers) /\ Len(putters') = L + 1
      /\ putters'[L + 1] = p /\ \A i \in 1..L : putters'[i] = putters[i]
      /\ DOMAIN putters' = 1..(L + 1)
  <2>1. putters' = Append(putters, p)
    BY DEF Block
  <2>2. /\ putters' \in Seq(Publishers) /\ Len(putters') = L + 1
        /\ putters'[L + 1] = p /\ \A i \in 1..L : putters'[i] = putters[i]
    BY <1>1, <2>1, AppendProperties
  <2> QED
    BY <2>2, LenProperties
<1>3. \A i \in 1..(L + 1) : i = L + 1 \/ i \in 1..L
  BY <1>1
<1>4. \A i \in 1..L : putters[i] # p
  <2>1. \A i \in DOMAIN putters : putters[i] \in {q \in Publishers : publishing[q] = "blocked"}
    BY DEF QueueType
  <2> QED
    BY <1>1, <2>1
<1>5. /\ publishing' \in [Publishers -> {"idle", "blocked", "woken"}]
      /\ publishing'[p] = "blocked"
      /\ \A q \in Publishers : q # p => publishing'[q] = publishing[q]
      /\ accepted' = accepted /\ sent' = sent
  BY DEF Block, QueueType
<1>6. {putters'[i] : i \in DOMAIN putters'} = {q \in Publishers : publishing'[q] = "blocked"}
  <2>1. {putters'[i] : i \in DOMAIN putters'} = {putters[i] : i \in DOMAIN putters} \cup {p}
    <3>1. L + 1 \in 1..(L + 1) /\ \A i \in 1..L : i \in 1..(L + 1)
      BY <1>1
    <3> HIDE DEF L
    <3> QED
      BY <1>1, <1>2, <1>3, <3>1
  <2>2. {q \in Publishers : publishing'[q] = "blocked"}
          = {q \in Publishers : publishing[q] = "blocked"} \cup {p}
    BY <1>5
  <2> QED
    BY <2>1, <2>2 DEF QueueType
<1>7. QueueType'
  BY <1>5, <1>6 DEF QueueType, QueueLen
<1>8. \A i, j \in DOMAIN putters' : putters'[i] = putters'[j] => i = j
  <2> SUFFICES ASSUME NEW i \in 1..(L + 1), NEW j \in 1..(L + 1), putters'[i] = putters'[j]
               PROVE  i = j
    BY <1>2
  <2>1. CASE i \in 1..L /\ j \in 1..L
    BY <1>1, <1>2, <2>1 DEF QueueInv
  <2>2. CASE i = L + 1 \/ j = L + 1
    BY <1>2, <1>3, <1>4, <2>2
  <2> QED
    BY <1>3, <2>1, <2>2
<1>9. QueueInv'
  <2>1. \A q \in Publishers : /\ sent'[q] <= Len(Script[q])
                              /\ publishing'[q] # "idle" => sent'[q] < Len(Script[q])
    BY <1>5 DEF QueueInv
  <2>2. sent' \in [Publishers -> Nat]
    BY <1>5 DEF QueueInv
  <2>3. /\ \A n \in DOMAIN accepted' :
             \E q \in Publishers : \E k \in 1..sent'[q] : accepted'[n] = Script[q][k]
        /\ \A m, n \in DOMAIN accepted' : accepted'[m] = accepted'[n] => m = n
    BY <1>5 DEF QueueInv
  <2> QED
    BY <1>2, <1>8, <2>1, <2>2, <2>3 DEF QueueInv
<1> QED
  BY <1>7, <1>9

\* A message that is refused is done with, and nothing else changes.
LEMMA RefuseKeeps ==
  ASSUME QueueType, QueueInv, NEW p \in Publishers, publishing[p] = "idle",
         sent[p] < Len(Script[p]), Refuse(p), taken' = taken
  PROVE  QueueType' /\ QueueInv'
<1>1. /\ sent' \in [Publishers -> Nat] /\ sent'[p] = sent[p] + 1
      /\ \A q \in Publishers : q # p => sent'[q] = sent[q]
      /\ accepted' = accepted /\ publishing' = publishing /\ putters' = putters
  BY DEF Refuse, QueueInv
<1>2. QueueType'
  BY <1>1 DEF QueueType, QueueLen
<1>3. sent[p] \in Nat /\ Len(Script[p]) \in Nat
  <2>1. Script[p] \in Seq(Messages)
    BY BusAssumption
  <2> QED
    BY <2>1, LenProperties DEF QueueInv
<1>4. ASSUME NEW q \in Publishers
      PROVE  /\ sent'[q] <= Len(Script[q])
             /\ publishing'[q] # "idle" => sent'[q] < Len(Script[q])
             /\ 1..sent[q] \subseteq 1..sent'[q]
  <2>1. CASE q = p
    BY <1>1, <1>3, <2>1
  <2>2. CASE q # p
    BY <1>1, <2>2 DEF QueueInv
  <2> QED
    BY <2>1, <2>2
<1>5. \A n \in DOMAIN accepted' :
        \E q \in Publishers : \E k \in 1..sent'[q] : accepted'[n] = Script[q][k]
  <2> SUFFICES ASSUME NEW n \in DOMAIN accepted
               PROVE  \E q \in Publishers : \E k \in 1..sent'[q] : accepted[n] = Script[q][k]
    BY <1>1
  <2>1. PICK q \in Publishers : \E k \in 1..sent[q] : accepted[n] = Script[q][k]
    BY DEF QueueInv
  <2>1a. PICK k \in 1..sent[q] : accepted[n] = Script[q][k]
    BY <2>1
  <2>2. k \in 1..sent'[q]
    BY <1>4
  <2> QED
    BY <2>1a, <2>2
<1>6. QueueInv'
  BY <1>1, <1>4, <1>5 DEF QueueInv
<1> QED
  BY <1>2, <1>6

\* The worker takes all there is and wakes the first in the line.
LEMMA WakeKeeps ==
  ASSUME QueueType, QueueInv, NEW count \in Nat, Wake(count),
         accepted' = accepted, sent' = sent, taken' = Len(accepted)
  PROVE  QueueType' /\ QueueInv'
<1> DEFINE L == Len(putters)
           woken == IF count < L THEN count ELSE L
           first == {putters[i] : i \in 1..woken}
<1>1. L \in Nat /\ putters \in Seq(Publishers) /\ DOMAIN putters = 1..L
      /\ \A i \in 1..L : putters[i] \in Publishers
  BY LenProperties, ElementOfSeq DEF QueueInv
<1>2. woken \in Nat /\ woken <= L
  BY <1>1
<1>3. /\ putters' = SubSeq(putters, woken + 1, L)
      /\ publishing' = [p \in Publishers |-> IF p \in first THEN "woken" ELSE publishing[p]]
  BY DEF Wake
<1> HIDE DEF woken
<1>4. /\ putters' \in Seq(Publishers) /\ DOMAIN putters' = 1..(L - woken)
      /\ \A i \in 1..(L - woken) : putters'[i] = putters[woken + i]
  <2>1. woken + 1 \in Int /\ L \in Int /\ \A i \in (woken + 1)..L : putters[i] \in Publishers
    BY <1>1, <1>2
  <2>2. /\ putters' \in Seq(Publishers)
        /\ Len(putters') = IF woken + 1 <= L THEN L - (woken + 1) + 1 ELSE 0
        /\ \A i \in 1..(L - (woken + 1) + 1) : putters'[i] = putters[(woken + 1) + i - 1]
    BY <1>3, <2>1, SubSeqProperties
  <2>3. Len(putters') = L - woken
    <3> DEFINE n == Len(putters')
    <3>1. n = IF woken + 1 <= L THEN L - (woken + 1) + 1 ELSE 0
      BY <2>2
    <3> HIDE DEF n, L
    <3>2. n = L - woken
      BY <1>1, <1>2, <3>1
    <3> QED
      BY <3>2 DEF n
  <2>4. \A i \in 1..(L - woken) : (woken + 1) + i - 1 = woken + i
          /\ i \in 1..(L - (woken + 1) + 1)
    BY <1>1, <1>2
  <2> QED
    BY <2>2, <2>3, <2>4, LenProperties
<1>5. \A i \in 1..L : i \in 1..woken \/ (i - woken \in 1..(L - woken) /\ i = woken + (i - woken))
  BY <1>1, <1>2
<1>6. \A i \in 1..(L - woken) : woken + i \in 1..L /\ woken + i \notin 1..woken
  BY <1>1, <1>2
<1>7. {putters'[i] : i \in DOMAIN putters'} = {p \in Publishers : publishing'[p] = "blocked"}
  <2>0. {putters[i] : i \in 1..L} = {p \in Publishers : publishing[p] = "blocked"}
    BY <1>1 DEF QueueType
  <2>1. ASSUME NEW i \in 1..(L - woken)
        PROVE  putters'[i] \in Publishers /\ publishing'[putters'[i]] = "blocked"
    <3>1. putters'[i] = putters[woken + i] /\ woken + i \in 1..L /\ woken + i \notin 1..woken
      BY <1>4, <1>6
    <3>2. putters[woken + i] \notin first
      <4> SUFFICES ASSUME NEW j \in 1..woken, putters[woken + i] = putters[j] PROVE FALSE
        OBVIOUS
      <4>1. j \in 1..L
        BY <1>1, <1>2
      <4>2. woken + i = j
        BY <1>1, <3>1, <4>1 DEF QueueInv
      <4> QED
        BY <3>1, <4>2
    <3>3. putters[woken + i] \in {p \in Publishers : publishing[p] = "blocked"}
      BY <2>0, <3>1
    <3> HIDE DEF first
    <3> QED
      BY <1>3, <3>1, <3>2, <3>3
  <2>2. ASSUME NEW p \in Publishers, publishing'[p] = "blocked"
        PROVE  \E i \in 1..(L - woken) : p = putters'[i]
    <3>1. p \notin first /\ publishing[p] = "blocked"
      BY <1>3, <2>2
    <3>2. PICK i \in 1..L : p = putters[i]
      BY <2>0, <3>1
    <3>3. i \notin 1..woken
      BY <3>1, <3>2
    <3>4. i - woken \in 1..(L - woken) /\ i = woken + (i - woken)
      BY <1>5, <3>3
    <3> QED
      BY <1>4, <3>2, <3>4
  <2>3. DOMAIN putters' = 1..(L - woken)
    BY <1>4
  <2> HIDE DEF L, first
  <2> QED
    BY <2>1, <2>2, <2>3
<1>8. publishing' \in [Publishers -> {"idle", "blocked", "woken"}]
  BY <1>3 DEF QueueType
<1>9. QueueType'
  <2>1. Len(accepted) \in Nat
    BY LenProperties DEF QueueType
  <2>2. taken' \in 0..Len(accepted') /\ QueueLen' <= QueueMax
    BY <2>1, BusAssumption DEF QueueLen
  <2> QED
    BY <1>7, <1>8, <2>2 DEF QueueType
<1>10. \A i, j \in DOMAIN putters' : putters'[i] = putters'[j] => i = j
  <2> SUFFICES ASSUME NEW i \in 1..(L - woken), NEW j \in 1..(L - woken),
                      putters'[i] = putters'[j]
               PROVE  i = j
    BY <1>4
  <2>1. woken + i = woken + j
    BY <1>1, <1>4, <1>6 DEF QueueInv
  <2> QED
    BY <1>2, <2>1
<1>11. \A p \in Publishers : publishing'[p] # "idle" => publishing[p] # "idle"
  <2> SUFFICES ASSUME NEW p \in Publishers, publishing[p] = "idle"
               PROVE  publishing'[p] = "idle"
    OBVIOUS
  <2>1. p \notin first
    <3> SUFFICES ASSUME NEW i \in 1..woken, p = putters[i] PROVE FALSE
      OBVIOUS
    <3>1. i \in DOMAIN putters
      BY <1>1, <1>2
    <3>2. p \in {putters[j] : j \in DOMAIN putters}
      BY <3>1
    <3> QED
      BY <3>2 DEF QueueType
  <2> QED
    BY <1>3, <2>1
<1>12. QueueInv'
  BY <1>4, <1>10, <1>11 DEF QueueInv
<1> QED
  BY <1>9, <1>12

-----------------------------------------------------------------------------
(* What follows from the states the tasks get                                *)

\* The conjuncts of TypeOK about anything but the queue.
TaskType ==
  /\ limit \in Limits /\ running \in BOOLEAN /\ restarted \in BOOLEAN
  /\ subscribers \subseteq Handlers
  /\ tasks \in Seq(Task) /\ \A i \in DOMAIN tasks : tasks[i].set <= setNo
  /\ slots \in 0..MaxHandlers /\ setNo \in Nat
  /\ background \subseteq DOMAIN tasks /\ awaited \subseteq DOMAIN tasks
  /\ stopping \in {"no", "worker", "tasks"}

LEMMA TypeParts ==
  /\ TypeOK <=> QueueType /\ TaskType
  /\ TypeOK' <=> QueueType' /\ TaskType'
BY DEF TypeOK, QueueType, TaskType

\* One task changes its state to s, and the indexes of the tasks in a set of states
\* gain or lose it.
LEMMA InOne ==
  ASSUME tasks \in Seq(Task), NEW CONSTANT S, NEW i \in DOMAIN tasks, NEW s,
         Restated([j \in DOMAIN tasks |-> IF j = i THEN s ELSE tasks[j].state])
  PROVE  In(S)' = IF s \in S THEN In(S) \cup {i} ELSE In(S) \ {i}
BY DEF Restated, In

\* Two tasks do.
LEMMA InTwo ==
  ASSUME tasks \in Seq(Task), NEW CONSTANT S, NEW i \in DOMAIN tasks, NEW s,
         NEW k \in DOMAIN tasks, NEW r, i # k,
         Restated([j \in DOMAIN tasks |->
                     IF j = i THEN s ELSE IF j = k THEN r ELSE tasks[j].state])
  PROVE  In(S)' = LET one == IF s \in S THEN In(S) \cup {i} ELSE In(S) \ {i}
                  IN IF r \in S THEN one \cup {k} ELSE one \ {k}
BY DEF Restated, In

\* One more task holds a slot, one less, or as many as before.
LEMMA OneMore ==
  ASSUME tasks \in Seq(Task), SlotsReturned, NEW k, k \notin In(Holding),
         In(Holding)' = In(Holding) \cup {k}, slots \in 0..MaxHandlers,
         slots > 0, slots' = slots - 1
  PROVE  SlotsReturned' /\ slots' \in 0..MaxHandlers
<1> DEFINE c == Cardinality(In(Holding))
           d == Cardinality(In(Holding)')
<1>1. IsFiniteSet(In(Holding)) /\ c \in Nat
  BY InIndexes
<1>2. d = c + 1
  BY <1>1, FS_AddElement
<1>3. slots + c = MaxHandlers
  BY DEF SlotsReturned
<1> HIDE DEF c, d
<1>4. slots' + d = MaxHandlers /\ slots' \in 0..MaxHandlers
  BY <1>1, <1>2, <1>3
<1> QED
  BY <1>4 DEF SlotsReturned, d

LEMMA OneLess ==
  ASSUME tasks \in Seq(Task), SlotsReturned, NEW k \in In(Holding),
         In(Holding)' = In(Holding) \ {k}, slots \in 0..MaxHandlers, slots' = slots + 1
  PROVE  SlotsReturned' /\ slots' \in 0..MaxHandlers
<1> DEFINE c == Cardinality(In(Holding))
           d == Cardinality(In(Holding)')
<1>1. IsFiniteSet(In(Holding)) /\ c \in Nat
  BY InIndexes
<1>2. d = c - 1 /\ d \in Nat
  <2>1. d = c - 1 /\ IsFiniteSet(In(Holding)')
    BY <1>1, FS_RemoveElement
  <2> QED
    BY <2>1, FS_CardinalityType
<1>3. slots + c = MaxHandlers
  BY DEF SlotsReturned
<1> HIDE DEF c, d
<1>4. slots' + d = MaxHandlers /\ slots' \in 0..MaxHandlers
  BY <1>1, <1>2, <1>3
<1> QED
  BY <1>4 DEF SlotsReturned, d

\* A task gives its slot to another one.
LEMMA OneForOne ==
  ASSUME tasks \in Seq(Task), SlotsReturned, NEW i \in In(Holding),
         NEW k, k \notin In(Holding),
         In(Holding)' = (In(Holding) \ {i}) \cup {k}, slots' = slots
  PROVE  SlotsReturned'
<1> DEFINE c == Cardinality(In(Holding))
           rest == In(Holding) \ {i}
           d == Cardinality(In(Holding)')
<1>1. IsFiniteSet(In(Holding)) /\ c \in Nat
  BY InIndexes
<1>2. IsFiniteSet(rest) /\ Cardinality(rest) = c - 1
  BY <1>1, FS_RemoveElement
<1>3. d = Cardinality(rest) + 1
  <2>1. k \notin rest
    OBVIOUS
  <2> HIDE DEF rest
  <2>2. In(Holding)' = rest \cup {k}
    BY DEF rest
  <2> QED
    BY <1>2, <2>1, <2>2, FS_AddElement
<1>4. d = c
  <2> HIDE DEF c, d, rest
  <2> QED
    BY <1>1, <1>2, <1>3
<1> QED
  BY <1>4 DEF SlotsReturned

\* What a handler has applied depends on the tasks that are done alone.
LEMMA AppliedSame ==
  ASSUME tasks \in Seq(Task), NEW new, Restated(new),
         \A j \in DOMAIN tasks : new[j] = "done" <=> tasks[j].state = "done"
  PROVE  \A h \in Handlers : Applied(h)' = Applied(h)
BY DEF Restated, Applied, In

\* States nobody updates, of handlers that have applied what they had.
LEMMA NewestKept ==
  ASSUME NewestApplied, state' = state, \A h \in Handlers : Applied(h)' = Applied(h)
  PROVE  NewestApplied'
BY DEF NewestApplied

\* The order of the dispatch is not a matter of states.
LEMMA DispatchKept ==
  ASSUME DispatchedInOrder, tasks \in Seq(Task), NEW new, Restated(new),
         accepted' = accepted, taken' = taken
  PROVE  DispatchedInOrder'
BY DEF DispatchedInOrder, Restated

LEMMA QueueKept ==
  ASSUME QueueInv, QueueType, UNCHANGED queueVars
  PROVE  QueueInv' /\ QueueType'
BY DEF QueueInv, QueueType, queueVars, QueueLen

-----------------------------------------------------------------------------
(* Every action keeps the invariant                                          *)

\* Actions that leave the tasks and the queue's worker alone.
LEMMA PublishingKeeps ==
  ASSUME BusInv, QueueType', QueueInv', taken' = taken,
         \A n \in DOMAIN accepted : n \in DOMAIN accepted' /\ accepted'[n] = accepted[n],
         UNCHANGED <<limit, running, subscribers, starts, restarted, taskVars, stopVars>>
  PROVE  BusInv'
<1> USE DEF taskVars, stopVars
<1>1. TaskType'
  BY DEF BusInv, TypeOK, TaskType
<1>2. TypeOK'
  BY <1>1, TypeParts
<1>3. SlotsReturned' /\ LiveTasksAreHeld' /\ StartedInOrder' /\ StopInv'
  BY DEF BusInv, SlotsReturned, In, LiveTasksAreHeld, StartedInOrder, StopInv
<1>4. NewestApplied'
  BY DEF BusInv, NewestApplied, Applied, In
<1>5. DispatchedInOrder'
  <2>1. taken \in 0..Len(accepted) /\ DOMAIN accepted = 1..Len(accepted)
        /\ Len(accepted) \in Nat
    BY LenProperties DEF BusInv, TypeOK
  <2>2. \A i \in DOMAIN tasks : \E n \in 1..taken : n \in DOMAIN accepted
          /\ accepted[n] = tasks[i].message /\ accepted'[n] = tasks[i].message
    BY <2>1 DEF BusInv, DispatchedInOrder
  <2>3. ASSUME NEW i \in DOMAIN tasks, NEW n \in DOMAIN accepted',
               accepted'[n] = tasks[i].message
        PROVE  n \in DOMAIN accepted /\ accepted[n] = tasks[i].message
    <3>1. PICK k \in 1..taken : k \in DOMAIN accepted
            /\ accepted[k] = tasks[i].message /\ accepted'[k] = tasks[i].message
      BY <2>2
    <3>2. k \in DOMAIN accepted' /\ accepted'[k] = accepted'[n]
      BY <2>3, <3>1
    <3>3. k = n
      BY <3>2 DEF QueueInv
    <3> QED
      BY <3>1, <3>3
  <2> QED
    BY <2>2, <2>3 DEF BusInv, DispatchedInOrder
<1> QED
  BY <1>2, <1>3, <1>4, <1>5 DEF BusInv

LEMMA PublisherKeeps ==
  ASSUME BusInv, NEW p \in Publishers, Publish(p) \/ PublishNowait(p) \/ PutWoken(p)
  PROVE  BusInv'
<1>1. QueueType /\ QueueInv /\ taken' = taken /\ publishing[p] # "blocked"
      /\ sent[p] < Len(Script[p])
  <2>1. QueueType /\ QueueInv
    BY TypeParts DEF BusInv
  <2> QED
    BY <2>1 DEF Publish, PublishNowait, PutWoken, HasNext, QueueInv
<1>2. UNCHANGED <<limit, running, subscribers, starts, restarted, taskVars, stopVars>>
  BY DEF Publish, PublishNowait, PutWoken
<1>3. \/ publishing[p] = "idle" /\ Refuse(p)
      \/ Block(p)
      \/ ~Full /\ Enqueue(p) /\ putters' = putters
  BY DEF Publish, PublishNowait, PutWoken, HasNext
<1>4. QueueType' /\ QueueInv'
  BY <1>1, <1>3, RefuseKeeps, BlockKeeps, EnqueueKeeps
<1>5. \A n \in DOMAIN accepted : n \in DOMAIN accepted' /\ accepted'[n] = accepted[n]
  <2>1. CASE Refuse(p) \/ Block(p)
    BY <2>1 DEF Refuse, Block
  <2>2. CASE Enqueue(p)
    <3> DEFINE x == NextOf(p)
    <3>1. accepted' = Append(accepted, x) /\ accepted \in Seq(Messages)
      BY <1>1, <2>2 DEF Enqueue, QueueType
    <3>2. accepted' \in Seq(Messages)
      BY <1>4 DEF QueueType
    <3>3. /\ DOMAIN accepted = 1..Len(accepted) /\ Len(accepted) \in Nat
          /\ DOMAIN accepted' = 1..Len(accepted')
      BY <3>1, <3>2, LenProperties
    <3> HIDE DEF x
    <3>4. Len(accepted') = Len(accepted) + 1
          /\ \A n \in 1..Len(accepted) : accepted'[n] = accepted[n]
      BY <3>1
    <3> QED
      BY <3>3, <3>4
  <2> QED
    BY <1>3, <2>1, <2>2
<1> QED
  BY <1>1, <1>2, <1>4, <1>5, PublishingKeeps

LEMMA SwitchKeeps ==
  ASSUME BusInv, Start \/ Shutdown \/ (\E h \in Handlers : Subscribe(h))
  PROVE  BusInv'
<1>1. UNCHANGED <<limit, queueVars, taskVars, setNo, awaited>>
      /\ subscribers' \subseteq Handlers
  BY DEF Start, Shutdown, Subscribe, stopVars, BusInv, TypeOK
<1>2. QueueType' /\ QueueInv'
  BY <1>1, QueueKept, TypeParts DEF BusInv
<1>3. TaskType'
  BY <1>1 DEF Start, Shutdown, Subscribe, stopVars, taskVars, BusInv, TypeOK, TaskType
<1>4. SlotsReturned' /\ LiveTasksAreHeld' /\ StartedInOrder'
  BY <1>1 DEF taskVars, BusInv, SlotsReturned, In, LiveTasksAreHeld, StartedInOrder
<1>5. DispatchedInOrder' /\ NewestApplied'
  BY <1>1 DEF taskVars, queueVars, BusInv, DispatchedInOrder, NewestApplied, Applied, In
<1>6. StopInv'
  BY <1>1 DEF taskVars, stopVars, BusInv, StopInv, Start, Shutdown, Subscribe
<1> QED
  BY <1>2, <1>3, <1>4, <1>5, <1>6, TypeParts DEF BusInv

LEMMA ShutdownReturnsKeeps ==
  ASSUME BusInv, ShutdownReturns
  PROVE  BusInv'
<1>1. /\ UNCHANGED <<limit, running, subscribers, restarted, tasks, slots, state, queueVars>>
      /\ stopping = "tasks" /\ awaited \subseteq In(Ended)
      /\ background' = background \ In(Ended) /\ setNo' = setNo + 1
      /\ stopping' = "no" /\ awaited' = {}
  BY DEF ShutdownReturns
<1>2. QueueType' /\ QueueInv'
  BY <1>1, QueueKept, TypeParts DEF BusInv
<1>3. TaskType'
  <2>1. \A i \in DOMAIN tasks : tasks[i].set \in Nat /\ tasks[i].set <= setNo
    BY InIndexes DEF BusInv, TypeOK, Task
  <2>2. setNo \in Nat
    BY DEF BusInv, TypeOK
  <2>3. \A i \in DOMAIN tasks : tasks[i].set <= setNo + 1
    BY <2>1, <2>2
  <2> QED
    BY <1>1, <2>2, <2>3 DEF BusInv, TypeOK, TaskType
<1>4. SlotsReturned' /\ StartedInOrder' /\ LiveTasksAreHeld'
  BY <1>1 DEF BusInv, SlotsReturned, In, StartedInOrder, LiveTasksAreHeld
<1>5. DispatchedInOrder' /\ NewestApplied'
  BY <1>1 DEF queueVars, BusInv, DispatchedInOrder, NewestApplied, Applied, In
<1>6. StopInv'
  BY <1>1 DEF BusInv, StopInv
<1> QED
  BY <1>2, <1>3, <1>4, <1>5, <1>6, TypeParts DEF BusInv

\* One waiting shutdown: it finds every live task, as LiveTasksAreHeld says, so that
\* none of the tasks it leaves is still to start.
LEMMA CancelHandlersKeeps ==
  ASSUME BusInv, CancelHandlers
  PROVE  BusInv'
<1> DEFINE new == [j \in DOMAIN tasks |-> IF j \in background
                                          THEN AfterCancel(tasks[j].state)
                                          ELSE tasks[j].state]
<1>1. tasks \in Seq(Task) /\ Restated(new)
  BY CancelEffect DEF BusInv, TypeOK
<1>2. /\ UNCHANGED <<limit, running, subscribers, restarted, slots, state, setNo, queueVars>>
      /\ background' = {i \in background : tasks[i].set # setNo
                                             \/ tasks'[i].state \notin Ended}
      /\ awaited' = background
      /\ stopping' = IF background = {} THEN "no" ELSE "tasks"
  BY DEF CancelHandlers
<1>3. \A j \in DOMAIN tasks : new[j] \in IF tasks[j].state \in Ended THEN {tasks[j].state}
                                         ELSE {AfterCancel(tasks[j].state)}
  <2>1. \A j \in DOMAIN tasks : tasks[j].state \in Ended
                                => AfterCancel(tasks[j].state) = tasks[j].state
    BY DEF AfterCancel, Ended
  <2>2. \A j \in DOMAIN tasks : tasks[j].state \notin Ended => j \in background
    BY DEF BusInv, LiveTasksAreHeld, In
  <2> QED
    BY <2>1, <2>2
<1>4. \A j \in DOMAIN tasks :
        /\ new[j] = "done" <=> tasks[j].state = "done"
        /\ new[j] \in Holding <=> tasks[j].state \in Holding
        /\ new[j] \notin {"created", "waiting"}
        /\ new[j] \notin Ended => tasks[j].state \notin Ended
  <2>1. \A j \in DOMAIN tasks : tasks[j].state \in TaskStates
    BY <1>1, InIndexes DEF Task
  <2> SUFFICES ASSUME NEW j \in DOMAIN tasks
               PROVE  /\ new[j] = "done" <=> tasks[j].state = "done"
                      /\ new[j] \in Holding <=> tasks[j].state \in Holding
                      /\ new[j] \notin {"created", "waiting"}
                      /\ new[j] \notin Ended => tasks[j].state \notin Ended
    OBVIOUS
  <2>2. new[j] = IF tasks[j].state \in Ended THEN tasks[j].state
                                            ELSE AfterCancel(tasks[j].state)
    BY <1>3
  <2> HIDE DEF new
  <2> QED
    BY <2>1, <2>2 DEF AfterCancel, TaskStates, Holding, Ended
<1>5. QueueType' /\ QueueInv'
  BY <1>2, QueueKept, TypeParts DEF BusInv
<1>6. TaskType'
  BY <1>1, <1>2 DEF Restated, BusInv, TypeOK, TaskType
<1> HIDE DEF new
<1>7. In(Holding)' = In(Holding)
  BY <1>1, <1>4 DEF Restated, In
<1>8. SlotsReturned'
  BY <1>2, <1>7 DEF BusInv, SlotsReturned
<1>9. LiveTasksAreHeld'
  BY <1>1, <1>2, <1>4 DEF BusInv, LiveTasksAreHeld, Restated, In
<1>10. StartedInOrder'
  BY <1>1, <1>4 DEF StartedInOrder, Restated
<1>11. DispatchedInOrder'
  BY <1>1, <1>2, DispatchKept DEF BusInv, queueVars
<1>12. NewestApplied'
  BY <1>1, <1>2, <1>4, AppliedSame, NewestKept DEF BusInv
<1>13. StopInv'
  BY <1>2 DEF BusInv, StopInv
<1> QED
  BY <1>5, <1>6, <1>8, <1>9, <1>10, <1>11, <1>12, <1>13, TypeParts DEF BusInv

LEMMA StartHandlerKeeps ==
  ASSUME BusInv, StartHandler
  PROVE  BusInv'
<1>1. PICK i \in DOMAIN tasks :
        /\ tasks[i].state = "created"
        /\ \A j \in DOMAIN tasks : j < i => tasks[j].state # "created"
        /\ \/ /\ SlotIsFree /\ slots' = slots - 1
              /\ Restated([j \in DOMAIN tasks |->
                             IF j = i THEN "running" ELSE tasks[j].state])
           \/ /\ slots' = slots
              /\ Restated([j \in DOMAIN tasks |->
                             IF j = i THEN "waiting" ELSE tasks[j].state])
  BY StartHandlerEffect DEF BusInv, TypeOK
<1>2. /\ UNCHANGED <<limit, running, subscribers, restarted, background, state, queueVars,
                     stopVars>>
      /\ tasks \in Seq(Task) /\ SlotsReturned /\ slots \in 0..MaxHandlers
  BY DEF StartHandler, BusInv, TypeOK
<1>3. QueueType' /\ QueueInv'
  BY <1>2, QueueKept, TypeParts DEF BusInv
<1>4. PICK s \in {"running", "waiting"} :
        /\ Restated([j \in DOMAIN tasks |-> IF j = i THEN s ELSE tasks[j].state])
        /\ s = "running" => SlotIsFree /\ slots' = slots - 1
        /\ s = "waiting" => slots' = slots
  BY <1>1
<1> DEFINE new == [j \in DOMAIN tasks |-> IF j = i THEN s ELSE tasks[j].state]
<1>5. \A j \in DOMAIN tasks : new[j] = IF j = i THEN s ELSE tasks[j].state
  OBVIOUS
<1>6. SlotsReturned' /\ slots' \in 0..MaxHandlers
  <2>0. In(Holding)' = IF s \in Holding THEN In(Holding) \cup {i} ELSE In(Holding) \ {i}
    BY ONLY <1>2, <1>4, i \in DOMAIN tasks, InOne
  <2>1. i \notin In(Holding)
    BY <1>1 DEF In, Holding
  <2>2. CASE s = "running"
    <3>1. In(Holding)' = In(Holding) \cup {i}
      BY <2>0, <2>2 DEF Holding
    <3> QED
      BY <1>2, <1>4, <2>1, <2>2, <3>1, OneMore DEF SlotIsFree
  <2>3. CASE s = "waiting"
    <3>1. In(Holding)' = In(Holding)
      BY <2>0, <2>1, <2>3 DEF Holding
    <3> QED
      BY <1>2, <1>4, <2>3, <3>1 DEF SlotsReturned
  <2> QED
    BY <2>2, <2>3
<1>7. TaskType'
  BY <1>2, <1>4, <1>6 DEF Restated, BusInv, TypeOK, TaskType, stopVars
<1>8. In(Ended)' = In(Ended) /\ DOMAIN tasks' = DOMAIN tasks
  <2>1. i \notin In(Ended) /\ s \notin Ended
    BY <1>1 DEF In, Ended
  <2>2. In(Ended)' = IF s \in Ended THEN In(Ended) \cup {i} ELSE In(Ended) \ {i}
    BY ONLY <1>2, <1>4, i \in DOMAIN tasks, InOne
  <2> QED
    BY <1>4, <2>1, <2>2 DEF Restated
<1>9. LiveTasksAreHeld' /\ StopInv'
  BY <1>2, <1>8 DEF BusInv, LiveTasksAreHeld, StopInv, stopVars
<1> HIDE DEF new
<1>10. StartedInOrder'
  <2> SUFFICES ASSUME NEW a \in DOMAIN tasks, NEW b \in DOMAIN tasks, a < b
               PROVE  /\ new[a] = "created" => new[b] \in {"created", "cancelled"}
                      /\ new[a] = "waiting" => new[b] \in {"created", "waiting", "cancelled"}
    BY <1>4 DEF StartedInOrder, Restated, new
  <2>1. a \in Nat /\ b \in Nat /\ i \in Nat
    BY <1>2, InIndexes
  <2>2. /\ tasks[a].state = "created" => tasks[b].state \in {"created", "cancelled"}
        /\ tasks[a].state = "waiting" => tasks[b].state \in {"created", "waiting", "cancelled"}
    BY DEF BusInv, StartedInOrder
  <2>3. CASE new[a] = "created"
    <3>1. a # i /\ tasks[a].state = "created"
      BY <1>4, <1>5, <2>3
    <3>2. b # i
      BY <1>1, <2>1, <3>1
    <3> QED
      BY <1>5, <2>2, <2>3, <3>1, <3>2
  <2>4. CASE new[a] = "waiting"
    <3>1. s = "waiting"
      <4> SUFFICES ASSUME s = "running" PROVE FALSE
        BY <1>4
      <4>1. tasks[a].state = "waiting"
        BY <1>5, <2>4
      <4> QED
        BY <1>4, <4>1 DEF SlotIsFree, In
    <3>2. tasks[b].state \in {"created", "waiting", "cancelled"}
      BY <1>1, <1>5, <2>2, <2>4
    <3> QED
      BY <1>5, <2>4, <3>1, <3>2
  <2> QED
    BY <2>3, <2>4
<1>11. DispatchedInOrder'
  BY <1>2, <1>4, DispatchKept DEF BusInv, queueVars
<1>12. NewestApplied'
  <2>1. \A j \in DOMAIN tasks : new[j] = "done" <=> tasks[j].state = "done"
    BY <1>1, <1>4, <1>5
  <2>2. \A h \in Handlers : Applied(h)' = Applied(h)
    BY <1>2, <1>4, <2>1, AppliedSame DEF new
  <2> QED
    BY <1>2, <2>2, NewestKept DEF BusInv
<1> QED
  BY <1>3, <1>6, <1>7, <1>9, <1>10, <1>11, <1>12, TypeParts DEF BusInv

\* A task that is granted its slot was the first that waited, so that those before it
\* have left the line.
LEMMA LineKept ==
  ASSUME tasks \in Seq(Task), StartedInOrder, NEW i \in DOMAIN tasks, NEW s,
         tasks[i].state \notin {"created", "waiting", "cancelled"},
         s \notin {"created", "waiting"},
         \/ Restated([j \in DOMAIN tasks |-> IF j = i THEN s ELSE tasks[j].state])
         \/ \E k \in DOMAIN tasks :
              /\ tasks[k].state = "waiting"
              /\ \A j \in DOMAIN tasks : j < k => tasks[j].state # "waiting"
              /\ Restated([j \in DOMAIN tasks |->
                             IF j = i THEN s
                             ELSE IF j = k THEN "granted" ELSE tasks[j].state])
  PROVE  StartedInOrder'
<1>1. DOMAIN tasks \subseteq Nat
  BY InIndexes
<1>2. \A a, b \in DOMAIN tasks : a < b =>
        /\ tasks[a].state = "created" => tasks[b].state \in {"created", "cancelled"}
        /\ tasks[a].state = "waiting" => tasks[b].state \in {"created", "waiting", "cancelled"}
  BY DEF StartedInOrder
<1>3. CASE Restated([j \in DOMAIN tasks |-> IF j = i THEN s ELSE tasks[j].state])
  <2> DEFINE new == [j \in DOMAIN tasks |-> IF j = i THEN s ELSE tasks[j].state]
  <2>1. \A j \in DOMAIN tasks : new[j] = IF j = i THEN s ELSE tasks[j].state
    OBVIOUS
  <2> HIDE DEF new
  <2> SUFFICES ASSUME NEW a \in DOMAIN tasks, NEW b \in DOMAIN tasks, a < b
               PROVE  /\ new[a] = "created" => new[b] \in {"created", "cancelled"}
                      /\ new[a] = "waiting" => new[b] \in {"created", "waiting", "cancelled"}
    BY <1>3 DEF StartedInOrder, Restated, new
  <2>2. CASE new[a] \in {"created", "waiting"}
    <3>1. a # i /\ tasks[a].state = new[a]
      BY <2>1, <2>2
    <3>2. b # i
      BY <1>2, <2>2, <3>1
    <3> QED
      BY <1>2, <2>1, <2>2, <3>1, <3>2
  <2> QED
    BY <2>2
<1>4. ASSUME NEW k \in DOMAIN tasks, tasks[k].state = "waiting",
             \A j \in DOMAIN tasks : j < k => tasks[j].state # "waiting",
             Restated([j \in DOMAIN tasks |->
                         IF j = i THEN s ELSE IF j = k THEN "granted" ELSE tasks[j].state])
      PROVE  StartedInOrder'
  <2> DEFINE new == [j \in DOMAIN tasks |->
                       IF j = i THEN s ELSE IF j = k THEN "granted" ELSE tasks[j].state]
  <2>1. \A j \in DOMAIN tasks :
          new[j] = IF j = i THEN s ELSE IF j = k THEN "granted" ELSE tasks[j].state
    OBVIOUS
  <2> HIDE DEF new
  <2> SUFFICES ASSUME NEW a \in DOMAIN tasks, NEW b \in DOMAIN tasks, a < b
               PROVE  /\ new[a] = "created" => new[b] \in {"created", "cancelled"}
                      /\ new[a] = "waiting" => new[b] \in {"created", "waiting", "cancelled"}
    BY <1>4 DEF StartedInOrder, Restated, new
  <2>2. CASE new[a] \in {"created", "waiting"}
    <3>1. a # i /\ a # k /\ tasks[a].state = new[a]
      BY <2>1, <2>2
    <3>2. b # i
      BY <1>2, <2>2, <3>1
    <3>3. b # k
      BY <1>2, <1>4, <2>2, <3>1
    <3> QED
      BY <1>2, <2>1, <2>2, <3>1, <3>2, <3>3
  <2> QED
    BY <2>2
<1> QED
  BY <1>3, <1>4

LEMMA EnterKeeps ==
  ASSUME BusInv, Enter
  PROVE  BusInv'
<1> DEFINE s == "running"
<1>0. s = "running"
  OBVIOUS
<1>1. PICK i \in DOMAIN tasks :
        /\ tasks[i].state = "granted"
        /\ \/ /\ slots' = slots
              /\ Restated([j \in DOMAIN tasks |->
                             IF j = i THEN s ELSE tasks[j].state])
           \/ \E k \in DOMAIN tasks :
                /\ slots > 0 /\ slots' = slots - 1
                /\ tasks[k].state = "waiting"
                /\ \A j \in DOMAIN tasks : j < k => tasks[j].state # "waiting"
                /\ Restated([j \in DOMAIN tasks |->
                               IF j = i THEN s
                               ELSE IF j = k THEN "granted" ELSE tasks[j].state])
  BY EnterEffect DEF BusInv, TypeOK
<1> HIDE DEF s
<1>2. /\ UNCHANGED <<limit, running, subscribers, restarted, background, state, queueVars,
                     stopVars>>
      /\ tasks \in Seq(Task) /\ SlotsReturned /\ slots \in 0..MaxHandlers
  BY DEF Enter, BusInv, TypeOK
<1>3. QueueType' /\ QueueInv'
  BY <1>2, QueueKept, TypeParts DEF BusInv
<1>4. StartedInOrder'
  <2>1. /\ tasks[i].state \notin {"created", "waiting", "cancelled"} /\ StartedInOrder
        /\ s \notin {"created", "waiting"}
    BY <1>0, <1>1 DEF BusInv
  <2>2. CASE Restated([j \in DOMAIN tasks |-> IF j = i THEN s ELSE tasks[j].state])
    BY ONLY <1>2, <2>1, <2>2, i \in DOMAIN tasks, LineKept
  <2>3. ASSUME NEW k \in DOMAIN tasks, tasks[k].state = "waiting",
               \A j \in DOMAIN tasks : j < k => tasks[j].state # "waiting",
               Restated([j \in DOMAIN tasks |->
                           IF j = i THEN s
                           ELSE IF j = k THEN "granted" ELSE tasks[j].state])
        PROVE  StartedInOrder'
    BY ONLY <1>2, <2>1, <2>3, i \in DOMAIN tasks, LineKept
  <2> QED
    BY <1>1, <2>2, <2>3
<1>5. i \in In(Holding) /\ i \notin In(Ended) /\ s \in Holding /\ s \notin Ended
      /\ "granted" \in Holding /\ "granted" \notin Ended
  BY <1>0, <1>1 DEF In, Holding, Ended
<1>6. CASE /\ slots' = slots
           /\ Restated([j \in DOMAIN tasks |-> IF j = i THEN s ELSE tasks[j].state])
  <2> DEFINE new == [j \in DOMAIN tasks |-> IF j = i THEN s ELSE tasks[j].state]
  <2>1. In(Holding)' = In(Holding) /\ In(Ended)' = In(Ended)
    <3>1. In(Holding)' = IF s \in Holding THEN In(Holding) \cup {i}
                                                  ELSE In(Holding) \ {i}
      BY ONLY <1>2, <1>6, i \in DOMAIN tasks, InOne
    <3>2. In(Ended)' = IF s \in Ended THEN In(Ended) \cup {i} ELSE In(Ended) \ {i}
      BY ONLY <1>2, <1>6, i \in DOMAIN tasks, InOne
    <3> QED
      BY <1>5, <3>1, <3>2
  <2>2. SlotsReturned' /\ slots' \in 0..MaxHandlers
    BY <1>2, <1>6, <2>1 DEF SlotsReturned
  <2>3. DispatchedInOrder'
    BY <1>2, <1>6, DispatchKept DEF BusInv, queueVars
  <2>4. \A h \in Handlers : Applied(h)' = Applied(h)
    <3>1. \A j \in DOMAIN tasks : new[j] = "done" <=> tasks[j].state = "done"
      BY <1>0, <1>1
    <3> HIDE DEF new
    <3> QED
      BY <1>2, <1>6, <3>1, AppliedSame DEF new
  <2>5. DOMAIN tasks' = DOMAIN tasks /\ TaskType'
    BY <1>2, <1>6, <2>2 DEF Restated, BusInv, TypeOK, TaskType, stopVars
  <2> QED
    BY <1>2, <1>3, <1>4, <2>1, <2>2, <2>3, <2>4, <2>5, TypeParts, NewestKept
       DEF BusInv, LiveTasksAreHeld, StopInv, stopVars
<1>7. ASSUME NEW k \in DOMAIN tasks, slots > 0, slots' = slots - 1,
             tasks[k].state = "waiting",
             Restated([j \in DOMAIN tasks |->
                         IF j = i THEN s
                         ELSE IF j = k THEN "granted" ELSE tasks[j].state])
      PROVE  BusInv'
  <2> DEFINE new == [j \in DOMAIN tasks |->
                       IF j = i THEN s
                       ELSE IF j = k THEN "granted" ELSE tasks[j].state]
  <2>0. i # k /\ k \notin In(Holding) /\ k \notin In(Ended)
    BY <1>1, <1>7 DEF In, Holding, Ended
  <2>1. In(Holding)' = In(Holding) \cup {k} /\ In(Ended)' = In(Ended)
    <3>1. In(Holding)' = LET one == IF s \in Holding THEN In(Holding) \cup {i}
                                                       ELSE In(Holding) \ {i}
                         IN IF "granted" \in Holding THEN one \cup {k} ELSE one \ {k}
      BY ONLY <1>2, <1>7, <2>0, i \in DOMAIN tasks, InTwo
    <3>2. In(Ended)' = LET one == IF s \in Ended THEN In(Ended) \cup {i}
                                                     ELSE In(Ended) \ {i}
                       IN IF "granted" \in Ended THEN one \cup {k} ELSE one \ {k}
      BY ONLY <1>2, <1>7, <2>0, i \in DOMAIN tasks, InTwo
    <3> QED
      BY ONLY <1>5, <2>0, <3>1, <3>2
  <2>2. SlotsReturned' /\ slots' \in 0..MaxHandlers
    BY <1>2, <1>7, <2>0, <2>1, OneMore
  <2>3. DispatchedInOrder'
    BY <1>2, <1>7, DispatchKept DEF BusInv, queueVars
  <2>4. \A h \in Handlers : Applied(h)' = Applied(h)
    <3>1. \A j \in DOMAIN tasks : new[j] = "done" <=> tasks[j].state = "done"
      BY <1>0, <1>1, <1>7
    <3> HIDE DEF new
    <3> QED
      BY <1>2, <1>7, <3>1, AppliedSame DEF new
  <2>5. DOMAIN tasks' = DOMAIN tasks /\ TaskType'
    BY <1>2, <1>7, <2>2 DEF Restated, BusInv, TypeOK, TaskType, stopVars
  <2> QED
    BY <1>2, <1>3, <1>4, <2>1, <2>2, <2>3, <2>4, <2>5, TypeParts, NewestKept
       DEF BusInv, LiveTasksAreHeld, StopInv, stopVars
<1> QED
  BY <1>1, <1>6, <1>7

\* Whatever a task's end is, its slot is free again or has gone to the next in line.
LEMMA EndHolderKeeps ==
  ASSUME BusInv, NEW i \in DOMAIN tasks, NEW end \in Ended,
         tasks[i].state \in {"running", "cancelling", "revoked"}, EndHolder(i, end)
  PROVE  /\ QueueType' /\ QueueInv' /\ TaskType' /\ SlotsReturned' /\ LiveTasksAreHeld'
         /\ StartedInOrder' /\ DispatchedInOrder' /\ StopInv'
         /\ tasks' \in Seq(Task) /\ DOMAIN tasks' = DOMAIN tasks
         /\ \A j \in DOMAIN tasks :
              /\ tasks'[j].message = tasks[j].message
              /\ tasks'[j].handler = tasks[j].handler
              /\ tasks'[j].state = "done" <=> IF j = i THEN end = "done"
                                                       ELSE tasks[j].state = "done"
<1>1. /\ UNCHANGED <<limit, running, subscribers, restarted, queueVars, stopVars>>
      /\ tasks \in Seq(Task) /\ SlotsReturned /\ slots \in 0..MaxHandlers
      /\ background' = background \/ background' = background \ {i}
      /\ background \subseteq DOMAIN tasks
  BY DEF EndHolder, Discard, BusInv, TypeOK
<1>2. QueueType' /\ QueueInv'
  BY <1>1, QueueKept, TypeParts DEF BusInv
<1>3. \/ /\ slots' = slots + 1
         /\ Restated([j \in DOMAIN tasks |-> IF j = i THEN end ELSE tasks[j].state])
      \/ \E k \in DOMAIN tasks :
           /\ slots' = slots
           /\ tasks[k].state = "waiting"
           /\ \A j \in DOMAIN tasks : j < k => tasks[j].state # "waiting"
           /\ Restated([j \in DOMAIN tasks |->
                          IF j = i THEN end
                          ELSE IF j = k THEN "granted" ELSE tasks[j].state])
  BY <1>1, EndHolderEffect
<1>4. StartedInOrder'
  <2>1. tasks[i].state \notin {"created", "waiting", "cancelled"} /\ end \notin {"created", "waiting"}
    BY DEF Ended
  <2> QED
    BY <1>1, <1>3, <2>1, LineKept DEF BusInv
<1>5. StopInv'
  BY <1>1 DEF BusInv, StopInv, stopVars
<1>6. i \in In(Holding) /\ end \notin Holding /\ "granted" \in Holding /\ "granted" \notin Ended
  BY DEF In, Holding, Ended
<1>7. CASE /\ slots' = slots + 1
           /\ Restated([j \in DOMAIN tasks |-> IF j = i THEN end ELSE tasks[j].state])
  <2>1. In(Holding)' = In(Holding) \ {i} /\ In(Ended)' = In(Ended) \cup {i}
    <3>1. In(Holding)' = IF end \in Holding THEN In(Holding) \cup {i} ELSE In(Holding) \ {i}
      BY ONLY <1>1, <1>7, i \in DOMAIN tasks, InOne
    <3>2. In(Ended)' = IF end \in Ended THEN In(Ended) \cup {i} ELSE In(Ended) \ {i}
      BY ONLY <1>1, <1>7, i \in DOMAIN tasks, InOne
    <3> QED
      BY <1>6, <3>1, <3>2
  <2>2. SlotsReturned' /\ slots' \in 0..MaxHandlers
    BY <1>1, <1>6, <1>7, <2>1, OneLess
  <2>3. DispatchedInOrder'
    BY <1>1, <1>7, DispatchKept DEF BusInv, queueVars
  <2>4. DOMAIN tasks' = DOMAIN tasks /\ TaskType'
    BY <1>1, <1>7, <2>2 DEF Restated, BusInv, TypeOK, TaskType, stopVars
  <2>5. LiveTasksAreHeld'
    BY <1>1, <2>1, <2>4 DEF BusInv, LiveTasksAreHeld
  <2> QED
    BY <1>2, <1>4, <1>5, <1>7, <2>2, <2>3, <2>4, <2>5 DEF Restated
<1>8. ASSUME NEW k \in DOMAIN tasks, slots' = slots, tasks[k].state = "waiting",
             Restated([j \in DOMAIN tasks |->
                         IF j = i THEN end
                         ELSE IF j = k THEN "granted" ELSE tasks[j].state])
      PROVE  /\ TaskType' /\ SlotsReturned' /\ LiveTasksAreHeld' /\ DispatchedInOrder'
             /\ tasks' \in Seq(Task) /\ DOMAIN tasks' = DOMAIN tasks
             /\ \A j \in DOMAIN tasks :
                  /\ tasks'[j].message = tasks[j].message
                  /\ tasks'[j].handler = tasks[j].handler
                  /\ tasks'[j].state = "done" <=> IF j = i THEN end = "done"
                                                           ELSE tasks[j].state = "done"
  <2>0. i # k /\ k \notin In(Holding) /\ k \notin In(Ended)
    BY <1>8 DEF In, Holding, Ended
  <2>1. In(Holding)' = (In(Holding) \ {i}) \cup {k} /\ In(Ended)' = In(Ended) \cup {i}
    <3>1. In(Holding)' = LET one == IF end \in Holding THEN In(Holding) \cup {i}
                                                       ELSE In(Holding) \ {i}
                         IN IF "granted" \in Holding THEN one \cup {k} ELSE one \ {k}
      BY ONLY <1>1, <1>8, <2>0, i \in DOMAIN tasks, InTwo
    <3>2. In(Ended)' = LET one == IF end \in Ended THEN In(Ended) \cup {i}
                                                   ELSE In(Ended) \ {i}
                       IN IF "granted" \in Ended THEN one \cup {k} ELSE one \ {k}
      BY ONLY <1>1, <1>8, <2>0, i \in DOMAIN tasks, InTwo
    <3> QED
      BY <1>6, <2>0, <3>1, <3>2
  <2>2. SlotsReturned'
    BY <1>1, <1>6, <1>8, <2>0, <2>1, OneForOne
  <2>3. DispatchedInOrder'
    BY <1>1, <1>8, DispatchKept DEF BusInv, queueVars
  <2>4. DOMAIN tasks' = DOMAIN tasks /\ TaskType'
    BY <1>1, <1>8 DEF Restated, BusInv, TypeOK, TaskType, stopVars
  <2>5. LiveTasksAreHeld'
    BY <1>1, <2>1, <2>4 DEF BusInv, LiveTasksAreHeld
  <2> QED
    BY <1>8, <2>2, <2>3, <2>4, <2>5 DEF Restated
<1> QED
  BY <1>2, <1>3, <1>4, <1>5, <1>7, <1>8

\* What update_state makes of a state is of the right kind, and no older.
LEMMA UpdateStateType ==
  ASSUME NEW old \in [message : Messages \cup {0}, version : Int], NEW m \in Messages
  PROVE  /\ UpdateState(old, m) \in [message : Messages \cup {0}, version : Int]
         /\ UpdateState(old, m).version >= old.version
         /\ VersionOf[m] # NoVersion =>
              /\ VersionOf[m] \in Int /\ VersionOf[m] <= UpdateState(old, m).version
              /\ \/ UpdateState(old, m) = old
                 \/ /\ VersionOf[m] > old.version
                    /\ UpdateState(old, m) = [message |-> m, version |-> VersionOf[m]]
<1> DEFINE version == IF VersionOf[m] = NoVersion THEN old.version + 1 ELSE VersionOf[m]
<1>1. version \in Int /\ old.version \in Int /\ (VersionOf[m] # NoVersion => VersionOf[m] \in Int)
  BY EnvelopeAssumption
<1>2. UpdateState(old, m) = IF version > old.version THEN [message |-> m, version |-> version]
                                                     ELSE old
  BY DEF UpdateState
<1>3. VersionOf[m] # NoVersion => version = VersionOf[m]
  OBVIOUS
<1> HIDE DEF version
<1>4. CASE version > old.version
  BY <1>1, <1>2, <1>3, <1>4
<1>5. CASE ~ (version > old.version)
  BY <1>1, <1>2, <1>3, <1>5
<1> QED
  BY <1>4, <1>5

LEMMA FinishKeeps ==
  ASSUME BusInv, NEW i \in DOMAIN tasks, Finish(i)
  PROVE  BusInv'
<1> DEFINE g == tasks[i].handler
           m == tasks[i].message
<1>1. tasks \in Seq(Task) /\ "done" \in Ended /\ g \in Handlers /\ m \in Messages
  <2>1. tasks \in Seq(Task)
    BY DEF BusInv, TypeOK
  <2> QED
    BY <2>1, InIndexes DEF Ended, Task
<1>2. /\ tasks[i].state \in {"running", "cancelling"} /\ EndHolder(i, "done")
      /\ state' = [state EXCEPT ![g] = UpdateState(@, m)]
  BY DEF Finish
<1>3. /\ QueueType' /\ QueueInv' /\ TaskType' /\ SlotsReturned' /\ LiveTasksAreHeld'
      /\ StartedInOrder' /\ DispatchedInOrder' /\ StopInv'
      /\ tasks' \in Seq(Task) /\ DOMAIN tasks' = DOMAIN tasks
      /\ \A j \in DOMAIN tasks :
           /\ tasks'[j].message = tasks[j].message
           /\ tasks'[j].handler = tasks[j].handler
           /\ tasks'[j].state = "done" <=> j = i \/ tasks[j].state = "done"
  <2>1. tasks[i].state \in {"running", "cancelling", "revoked"}
    BY <1>2
  <2> DEFINE end == "done"
  <2>2. end \in Ended /\ EndHolder(i, end) /\ end = "done"
    BY <1>1, <1>2
  <2> HIDE DEF end
  <2>3. /\ QueueType' /\ QueueInv' /\ TaskType' /\ SlotsReturned' /\ LiveTasksAreHeld'
        /\ StartedInOrder' /\ DispatchedInOrder' /\ StopInv'
        /\ tasks' \in Seq(Task) /\ DOMAIN tasks' = DOMAIN tasks
        /\ \A j \in DOMAIN tasks :
             /\ tasks'[j].message = tasks[j].message
             /\ tasks'[j].handler = tasks[j].handler
             /\ tasks'[j].state = "done" <=> IF j = i THEN end = "done"
                                                      ELSE tasks[j].state = "done"
    BY <2>1, <2>2, EndHolderKeeps
  <2> QED
    BY <2>2, <2>3
<1>4. \A h \in Handlers : Applied(h)' = IF h = g THEN Applied(h) \cup {m} ELSE Applied(h)
  BY <1>3 DEF Applied, In
<1>5. /\ state' \in [Handlers -> [message : Messages \cup {0}, version : Int]]
      /\ state'[g] = UpdateState(state[g], m)
      /\ \A h \in Handlers : h # g => state'[h] = state[h]
  <2>1. state \in [Handlers -> [message : Messages \cup {0}, version : Int]]
    BY DEF BusInv, NewestApplied
  <2>2. UpdateState(state[g], m) \in [message : Messages \cup {0}, version : Int]
    BY <1>1, <2>1, UpdateStateType
  <2> HIDE DEF g, m
  <2> QED
    BY <1>1, <1>2, <2>1, <2>2
<1> HIDE DEF g, m
<1>6. ASSUME NEW h \in Handlers, \A n \in Applied(h)' : VersionOf[n] # NoVersion
      PROVE  /\ \A n \in Applied(h)' : VersionOf[n] <= state'[h].version
             /\ \/ state'[h] = NoState
                \/ \E n \in Applied(h)' : /\ VersionOf[n] > -1
                                          /\ state'[h].message = n
                                          /\ state'[h].version = VersionOf[n]
  <2>1. \A n \in Applied(h) : n \in Applied(h)' /\ VersionOf[n] # NoVersion
                              /\ VersionOf[n] \in Int
    <3>1. \A n \in Applied(h) : n \in Messages
      BY <1>1, InIndexes DEF Applied, Task
    <3> QED
      BY <1>4, <1>6, <3>1, EnvelopeAssumption
  <2>2. /\ \A n \in Applied(h) : VersionOf[n] <= state[h].version
        /\ \/ state[h] = NoState
           \/ \E n \in Applied(h) : /\ VersionOf[n] > -1
                                    /\ state[h].message = n
                                    /\ state[h].version = VersionOf[n]
    BY <2>1 DEF BusInv, NewestApplied
  <2>3. CASE h # g
    BY <1>4, <1>5, <2>1, <2>2, <2>3
  <2>4. CASE h = g
    <3>1. state[g] \in [message : Messages \cup {0}, version : Int]
      BY <1>1 DEF BusInv, NewestApplied
    <3>2. m \in Applied(h)' /\ VersionOf[m] # NoVersion
      BY <1>4, <1>6, <2>4
    <3>3. /\ state'[h] \in [message : Messages \cup {0}, version : Int]
          /\ state'[h].version >= state[h].version
          /\ VersionOf[m] \in Int /\ VersionOf[m] <= state'[h].version
          /\ \/ state'[h] = state[h]
             \/ /\ VersionOf[m] > state[h].version
                /\ state'[h] = [message |-> m, version |-> VersionOf[m]]
      BY <1>1, <1>5, <2>4, <3>1, <3>2, UpdateStateType
    <3>4. state[h].version \in Int /\ state'[h].version \in Int
      BY <2>4, <3>1, <3>3
    <3>5. \A n \in Applied(h)' : VersionOf[n] <= state'[h].version
      <4> SUFFICES ASSUME NEW n \in Applied(h)' PROVE VersionOf[n] <= state'[h].version
        OBVIOUS
      <4>1. n \in Applied(h) \/ n = m
        BY <1>4, <2>4
      <4>2. CASE n = m
        BY <3>3, <4>2
      <4>3. CASE n \in Applied(h)
        BY <2>1, <2>2, <3>3, <3>4, <4>3
      <4> QED
        BY <4>1, <4>2, <4>3
    <3>6. state[h].version >= -1
      <4>1. CASE state[h] = NoState
        BY <4>1 DEF NoState
      <4>2. CASE \E n \in Applied(h) : VersionOf[n] > -1 /\ state[h].version = VersionOf[n]
        BY <2>1, <4>2
      <4> QED
        BY <2>2, <4>1, <4>2
    <3>7. CASE state'[h] = state[h]
      BY <2>1, <2>2, <3>5, <3>7
    <3>8. CASE /\ VersionOf[m] > state[h].version
               /\ state'[h] = [message |-> m, version |-> VersionOf[m]]
      BY <3>2, <3>3, <3>4, <3>5, <3>6, <3>8
    <3> QED
      BY <3>3, <3>7, <3>8
  <2> QED
    BY <2>3, <2>4
<1>7. NewestApplied'
  BY <1>5, <1>6 DEF NewestApplied
<1> QED
  BY <1>3, <1>7, TypeParts DEF BusInv

LEMMA FailKeeps ==
  ASSUME BusInv, NEW i \in DOMAIN tasks, FailHandler(i) \/ CancelLands(i)
  PROVE  BusInv'
<1>1. PICK end \in {"failed", "cancelled"} :
        /\ tasks[i].state \in {"running", "cancelling", "revoked"}
        /\ EndHolder(i, end) /\ state' = state
  BY DEF FailHandler, CancelLands
<1>2. end \in Ended /\ end # "done"
  BY DEF Ended
<1>3. /\ QueueType' /\ QueueInv' /\ TaskType' /\ SlotsReturned' /\ LiveTasksAreHeld'
      /\ StartedInOrder' /\ DispatchedInOrder' /\ StopInv'
      /\ tasks' \in Seq(Task) /\ DOMAIN tasks' = DOMAIN tasks
      /\ \A j \in DOMAIN tasks :
           /\ tasks'[j].message = tasks[j].message
           /\ tasks'[j].handler = tasks[j].handler
           /\ tasks'[j].state = "done" <=> IF j = i THEN end = "done"
                                                    ELSE tasks[j].state = "done"
  BY <1>1, <1>2, EndHolderKeeps
<1>4. \A j \in DOMAIN tasks : tasks'[j].state = "done" <=> tasks[j].state = "done"
  BY <1>1, <1>2, <1>3
<1>5. \A h \in Handlers : Applied(h)' = Applied(h)
  BY <1>3, <1>4 DEF Applied, In
<1>6. NewestApplied'
  BY <1>1, <1>5, NewestKept DEF BusInv
<1> QED
  BY <1>3, <1>6, TypeParts DEF BusInv

LEMMA ProcessQueueKeeps ==
  ASSUME BusInv, ProcessQueue
  PROVE  BusInv'
<1> DEFINE L == Len(tasks)
           M == Len(tasks')
<1>1. /\ running /\ taken' = Len(accepted) /\ Wake(QueueLen)
      /\ UNCHANGED <<limit, running, subscribers, restarted, accepted, sent, slots, state,
                     stopVars>>
      /\ QueueType /\ QueueInv /\ TaskType
  BY TypeParts DEF ProcessQueue, BusInv
<1>2. QueueType' /\ QueueInv'
  <2>1. QueueLen \in Nat
    BY <1>1, LenProperties DEF QueueType, QueueLen
  <2> QED
    BY <1>1, <2>1, WakeKeeps
<1>3. /\ tasks' \in Seq(Task) /\ M >= L
      /\ \A i \in 1..L : tasks'[i] = tasks[i]
      /\ background' = background \cup (L + 1)..M
      /\ \A i \in (L + 1)..M : tasks'[i].state = "created" /\ tasks'[i].set = setNo
      /\ \E q \in [(L + 1)..M -> (taken + 1)..Len(accepted)] :
           /\ \A i \in (L + 1)..M : tasks'[i].message = accepted[q[i]]
           /\ \A i, j \in (L + 1)..M : i < j => q[i] <= q[j]
  BY ProcessQueueEffect DEF BusInv
<1>4. /\ L \in Nat /\ M \in Nat /\ DOMAIN tasks = 1..L /\ DOMAIN tasks' = 1..M
      /\ tasks \in Seq(Task)
  BY <1>1, <1>3, LenProperties DEF TaskType
<1> HIDE DEF L, M
<1>5. \A i \in 1..M : i \in 1..L \/ i \in (L + 1)..M
  BY <1>3, <1>4
<1>6. \A i \in 1..L : i \in 1..M
  BY <1>3, <1>4
<1>7. \A i \in (L + 1)..M : i \in 1..M /\ i \notin 1..L
  BY <1>3, <1>4
<1>8. TaskType'
  <2>1. setNo \in Nat /\ \A i \in 1..L : tasks[i].set <= setNo
    BY <1>1, <1>4 DEF TaskType
  <2>2. \A i \in 1..M : tasks'[i].set <= setNo
    BY <1>3, <1>5, <2>1
  <2>3. background' \subseteq 1..M /\ awaited' \subseteq 1..M
    BY <1>1, <1>3, <1>4, <1>6, <1>7 DEF TaskType, stopVars
  <2> QED
    BY <1>1, <1>3, <1>4, <2>1, <2>2, <2>3 DEF TaskType, stopVars
<1>9. ASSUME NEW CONSTANT S, "created" \notin S
      PROVE  In(S)' = In(S)
  BY <1>3, <1>4, <1>5, <1>6, <1>9 DEF In
<1>10. SlotsReturned'
  <2>1. In(Holding)' = In(Holding)
    BY <1>9 DEF Holding
  <2> QED
    BY <1>1, <2>1 DEF BusInv, SlotsReturned
<1>11. LiveTasksAreHeld'
  <2>1. In(Ended)' = In(Ended)
    BY <1>9 DEF Ended
  <2> QED
    BY <1>3, <1>4, <1>5, <2>1 DEF BusInv, LiveTasksAreHeld
<1>12. StartedInOrder'
  <2> SUFFICES ASSUME NEW a \in 1..M, NEW b \in 1..M, a < b
               PROVE  /\ tasks'[a].state = "created" =>
                           tasks'[b].state \in {"created", "cancelled"}
                      /\ tasks'[a].state = "waiting" =>
                           tasks'[b].state \in {"created", "waiting", "cancelled"}
    BY <1>4 DEF StartedInOrder
  <2>1. CASE b \in (L + 1)..M
    BY <1>3, <2>1
  <2>2. CASE b \in 1..L
    <3>1. a \in 1..L
      BY <1>4, <2>2
    <3> QED
      BY <1>3, <1>4, <2>2, <3>1 DEF BusInv, StartedInOrder
  <2> QED
    BY <1>5, <2>1, <2>2
<1>13. DispatchedInOrder'
  <2>1. PICK q \in [(L + 1)..M -> (taken + 1)..Len(accepted)] :
          /\ \A i \in (L + 1)..M : tasks'[i].message = accepted[q[i]]
          /\ \A i, j \in (L + 1)..M : i < j => q[i] <= q[j]
    BY <1>3
  <2>2. /\ taken \in Nat /\ Len(accepted) \in Nat /\ taken <= Len(accepted)
        /\ DOMAIN accepted = 1..Len(accepted)
    BY <1>1, LenProperties DEF QueueType
  <2>3. \A i \in (L + 1)..M : q[i] \in 1..Len(accepted) /\ q[i] > taken
    BY <2>1, <2>2
  <2>4. \A i \in 1..L : \E n \in 1..taken : accepted[n] = tasks[i].message
    BY <1>4 DEF BusInv, DispatchedInOrder
  <2>5. \A i \in 1..M : \E n \in 1..Len(accepted) : accepted[n] = tasks'[i].message
    <3> SUFFICES ASSUME NEW i \in 1..M
                 PROVE  \E n \in 1..Len(accepted) : accepted[n] = tasks'[i].message
      OBVIOUS
    <3>1. CASE i \in 1..L
      BY <1>3, <2>2, <2>4, <3>1
    <3>2. CASE i \in (L + 1)..M
      BY <2>1, <2>3, <3>2
    <3> QED
      BY <1>5, <3>1, <3>2
  <2>6. \A m, n \in 1..Len(accepted) : accepted[m] = accepted[n] => m = n
    BY <1>1, <2>2 DEF QueueInv
  <2>7. ASSUME NEW i \in 1..M, NEW j \in 1..M, i < j,
               NEW m \in 1..Len(accepted), NEW n \in 1..Len(accepted),
               accepted[m] = tasks'[i].message, accepted[n] = tasks'[j].message
        PROVE  m <= n
    <3>1. CASE i \in 1..L /\ j \in 1..L
      BY <1>3, <1>4, <2>2, <2>7, <3>1 DEF BusInv, DispatchedInOrder
    <3>2. CASE i \in (L + 1)..M /\ j \in (L + 1)..M
      BY <2>1, <2>3, <2>6, <2>7, <3>2
    <3>3. CASE i \in 1..L /\ j \in (L + 1)..M
      <4>1. PICK k \in 1..taken : accepted[k] = tasks[i].message
        BY <2>4, <3>3
      <4>2. k \in 1..Len(accepted)
        BY <2>2
      <4>3. m = k
        BY <1>3, <2>6, <2>7, <3>3, <4>1, <4>2
      <4>4. n = q[j]
        BY <2>1, <2>3, <2>6, <2>7, <3>3
      <4> QED
        BY <2>2, <2>3, <3>3, <4>3, <4>4
    <3>4. i \in (L + 1)..M => j \in (L + 1)..M
      BY <1>4, <2>7
    <3> QED
      BY <1>5, <3>1, <3>2, <3>3, <3>4
  <2> QED
    BY <1>1, <1>4, <2>2, <2>5, <2>7 DEF DispatchedInOrder
<1>14. StopInv'
  BY <1>1 DEF BusInv, StopInv, stopVars
<1>15. NewestApplied'
  <2>1. In({"done"})' = In({"done"}) /\ In({"done"}) \subseteq 1..L
    <3>1. In({"done"})' = In({"done"})
      BY <1>9
    <3> QED
      BY <1>4, <3>1, InIndexes
  <2>2. \A h \in Handlers : Applied(h)' = Applied(h)
    BY <1>3, <2>1 DEF Applied
  <2> QED
    BY <1>1, <2>2, NewestKept DEF BusInv
<1> QED
  BY <1>2, <1>8, <1>10, <1>11, <1>12, <1>13, <1>14, <1>15, TypeParts DEF BusInv

LEMMA BusInvHolds == Spec => []BusInv
<1>1. ASSUME Init PROVE BusInv
  <2> USE <1>1 DEF Init
  <2>1. tasks = <<>> /\ \A S : In(S) = {}
    BY DEF In
  <2>2. TypeOK
    <3>1. accepted \in Seq(Messages) /\ Len(accepted) = 0 /\ tasks \in Seq(Task)
          /\ DOMAIN tasks = {} /\ DOMAIN putters = {}
      OBVIOUS
    <3>2. taken \in 0..Len(accepted) /\ QueueLen <= QueueMax
      BY <3>1, BusAssumption DEF QueueLen
    <3>3. publishing \in [Publishers -> {"idle", "blocked", "woken"}]
          /\ {putters[i] : i \in DOMAIN putters} = {p \in Publishers : publishing[p] = "blocked"}
      BY <3>1
    <3>4. slots \in 0..MaxHandlers /\ setNo \in Nat /\ subscribers \subseteq Handlers
      BY BusAssumption
    <3> QED
      BY <3>1, <3>2, <3>3, <3>4 DEF TypeOK
  <2>3. QueueInv
    <3>1. \A p \in Publishers : Len(Script[p]) \in Nat
      BY BusAssumption, LenProperties
    <3> QED
      BY <3>1 DEF QueueInv
  <2>4. SlotsReturned
    <3>1. In(Holding) = {} /\ MaxHandlers \in Nat
      BY <2>1, BusAssumption
    <3>2. Cardinality(In(Holding)) = 0
      BY <3>1, FS_EmptySet
    <3> QED
      BY <3>1, <3>2 DEF SlotsReturned
  <2>5. LiveTasksAreHeld /\ StartedInOrder /\ DispatchedInOrder /\ StopInv
    BY <2>1 DEF LiveTasksAreHeld, StartedInOrder, DispatchedInOrder, StopInv
  <2>6. NewestApplied
    BY <2>1 DEF NewestApplied, Applied, NoState
  <2> QED
    BY <2>2, <2>3, <2>4, <2>5, <2>6 DEF BusInv
<1>2. BusInv /\ [Next]_vars => BusInv'
  <2> SUFFICES ASSUME BusInv, [Next]_vars PROVE BusInv'
    OBVIOUS
  <2>1. CASE \E p \in Publishers : Publish(p) \/ PublishNowait(p) \/ PutWoken(p)
    BY <2>1, PublisherKeeps
  <2>2. CASE Start \/ Shutdown \/ (\E h \in Handlers : Subscribe(h))
    BY <2>2, SwitchKeeps
  <2>3. CASE ProcessQueue
    BY <2>3, ProcessQueueKeeps
  <2>4. CASE StartHandler
    BY <2>4, StartHandlerKeeps
  <2>5. CASE Enter
    BY <2>5, EnterKeeps
  <2>6. CASE \E i \in DOMAIN tasks : TaskEnds(i) \/ FailHandler(i)
    BY <2>6, FinishKeeps, FailKeeps DEF TaskEnds
  <2>7. CASE CancelHandlers
    BY <2>7, CancelHandlersKeeps
  <2>8. CASE ShutdownReturns
    BY <2>8, ShutdownReturnsKeeps
  <2>9. CASE UNCHANGED vars
    <3>1. QueueType' /\ QueueInv'
      BY <2>9, QueueKept, TypeParts DEF BusInv, vars
    <3>2. taken' = taken /\ accepted' = accepted
          /\ UNCHANGED <<limit, running, subscribers, starts, restarted, taskVars, stopVars>>
      BY <2>9 DEF vars, queueVars
    <3> QED
      BY <3>1, <3>2, PublishingKeeps
  <2> QED
    BY <2>1, <2>2, <2>3, <2>4, <2>5, <2>6, <2>7, <2>8, <2>9 DEF Next
<1> QED
  BY <1>1, <1>2, PTL DEF Spec

-----------------------------------------------------------------------------
(* Nobody is overlooked                                                      *)

\* Each free place of the queue is meant for a publisher that was woken.
PlacesInv ==
  /\ IsFiniteSet(Woken)
  /\ putters # <<>> => QueueLen + Cardinality(Woken) >= QueueMax

\* A free slot has a task before those that wait.
GrantsInv == slots > 0 /\ In({"waiting"}) # {} => In({"granted", "revoked"}) # {}

LEMMA PlacesKept ==
  ASSUME PlacesInv, UNCHANGED queueVars
  PROVE  PlacesInv'
BY DEF PlacesInv, Woken, QueueLen, queueVars

LEMMA QueueSizes ==
  ASSUME BusInv, PlacesInv
  PROVE  /\ QueueLen \in Nat /\ Cardinality(Woken) \in Nat
         /\ QueueMax \in Nat \ {0} /\ (Full <=> QueueLen >= QueueMax)
<1>1. Len(accepted) \in Nat /\ taken \in 0..Len(accepted)
  BY LenProperties DEF BusInv, TypeOK
<1>2. QueueLen \in Nat
  BY <1>1 DEF QueueLen
<1>3. Cardinality(Woken) \in Nat
  BY FS_CardinalityType DEF PlacesInv
<1> QED
  BY <1>2, <1>3, BusAssumption DEF Full

\* A publisher that was woken takes a place or finds the queue full; one that was not
\* leaves those that were alone.
LEMMA PublisherKeepsPlaces ==
  ASSUME BusInv, PlacesInv, NEW p \in Publishers,
         Publish(p) \/ PublishNowait(p) \/ PutWoken(p)
  PROVE  PlacesInv'
<1>1. /\ QueueLen \in Nat /\ Cardinality(Woken) \in Nat /\ IsFiniteSet(Woken)
      /\ QueueMax \in Nat \ {0} /\ (Full <=> QueueLen >= QueueMax)
  BY QueueSizes DEF PlacesInv
<1>2. taken' = taken /\ publishing \in [Publishers -> {"idle", "blocked", "woken"}]
  BY DEF Publish, PublishNowait, PutWoken, BusInv, TypeOK
<1>3. Refuse(p) => publishing[p] = "idle"
  BY <1>2 DEF Publish, PublishNowait, PutWoken, HasNext, Refuse, Block, Enqueue
<1>4. CASE publishing' = publishing /\ putters' = putters /\ accepted' = accepted
  BY <1>2, <1>4 DEF PlacesInv, Woken, QueueLen
<1>5. CASE Full /\ Block(p)
  <2>1. Woken' \in SUBSET Woken
    BY <1>2, <1>5 DEF Block, Woken
  <2>2. IsFiniteSet(Woken') /\ Cardinality(Woken') \in Nat
    BY <1>1, <2>1, FS_Subset, FS_CardinalityType
  <2>3. QueueLen' = QueueLen
    BY <1>2, <1>5 DEF Block, QueueLen
  <2>4. QueueLen' + Cardinality(Woken') >= QueueMax
    BY <1>1, <1>5, <2>2, <2>3
  <2> QED
    BY <2>2, <2>4 DEF PlacesInv
<1>6. CASE Enqueue(p) /\ putters' = putters
  <2>1. Woken' = Woken \ {p}
    BY <1>2, <1>6 DEF Enqueue, Woken
  <2>2. /\ IsFiniteSet(Woken')
        /\ Cardinality(Woken') = IF p \in Woken THEN Cardinality(Woken) - 1 ELSE Cardinality(Woken)
    BY <1>1, <2>1, FS_RemoveElement
  <2>3. QueueLen' = QueueLen + 1
    <3> DEFINE x == NextOf(p)
    <3>1. accepted' = Append(accepted, x) /\ accepted \in Seq(Messages)
      BY <1>6 DEF Enqueue, BusInv, TypeOK
    <3> HIDE DEF x
    <3>2. Len(accepted') = Len(accepted) + 1
      BY <3>1
    <3>3. Len(accepted) \in Nat /\ taken \in Int
      BY LenProperties DEF BusInv, TypeOK
    <3> QED
      BY <1>2, <3>2, <3>3 DEF QueueLen
  <2>4. putters' # <<>> => QueueLen' + Cardinality(Woken') >= QueueMax
    <3> SUFFICES ASSUME putters' # <<>> PROVE QueueLen' + Cardinality(Woken') >= QueueMax
      OBVIOUS
    <3>1. QueueLen + Cardinality(Woken) >= QueueMax
      BY <1>6 DEF PlacesInv
    <3> QED
      BY <1>1, <2>2, <2>3, <3>1
  <2> QED
    BY <2>2, <2>4 DEF PlacesInv
<1>7. \/ Refuse(p) \/ (Full /\ Block(p)) \/ (Enqueue(p) /\ putters' = putters)
  BY DEF Publish, PublishNowait, PutWoken
<1> QED
  BY <1>4, <1>5, <1>6, <1>7 DEF Refuse

\* The worker takes what there is, and wakes as many as it takes.
LEMMA WorkerKeepsPlaces ==
  ASSUME BusInv, PlacesInv, ProcessQueue
  PROVE  PlacesInv'
<1> DEFINE L == Len(putters)
           count == QueueLen
           woken == IF count < L THEN count ELSE L
           first == {putters[i] : i \in 1..woken}
<1>1. /\ QueueLen \in Nat /\ Cardinality(Woken) \in Nat /\ IsFiniteSet(Woken)
      /\ QueueMax \in Nat \ {0}
  BY QueueSizes DEF PlacesInv
<1>2. /\ L \in Nat /\ putters \in Seq(Publishers) /\ DOMAIN putters = 1..L
      /\ \A i, j \in 1..L : putters[i] = putters[j] => i = j
      /\ \A i \in 1..L : putters[i] \in Publishers /\ publishing[putters[i]] = "blocked"
  <2>1. putters \in Seq(Publishers) /\ L \in Nat /\ DOMAIN putters = 1..L
    BY LenProperties DEF BusInv, QueueInv
  <2>2. \A i \in DOMAIN putters : putters[i] \in {p \in Publishers : publishing[p] = "blocked"}
    BY DEF BusInv, TypeOK
  <2>3. \A i, j \in DOMAIN putters : putters[i] = putters[j] => i = j
    BY DEF BusInv, QueueInv
  <2> HIDE DEF L
  <2> QED
    BY <2>1, <2>2, <2>3
<1>3. woken \in Nat /\ woken <= L /\ (woken = count \/ woken = L)
  BY <1>1, <1>2
<1>4. /\ putters' = SubSeq(putters, woken + 1, L)
      /\ publishing' = [p \in Publishers |-> IF p \in first THEN "woken" ELSE publishing[p]]
      /\ taken' = Len(accepted) /\ accepted' = accepted
  BY DEF ProcessQueue, Wake
<1> HIDE DEF woken, L
<1>5. QueueLen' = 0
  <2>1. Len(accepted) \in Nat
    BY LenProperties DEF BusInv, TypeOK
  <2> QED
    BY <1>4, <2>1 DEF QueueLen
<1>6. IsFiniteSet(first) /\ Cardinality(first) = woken
  <2> DEFINE f == [i \in 1..woken |-> putters[i]]
  <2>1. \A i \in 1..woken : i \in 1..L
    BY <1>2, <1>3
  <2>2. f \in Bijection(1..woken, first)
    <3>1. f \in [1..woken -> first]
      OBVIOUS
    <3>2. \A i, j \in 1..woken : f[i] = f[j] => i = j
      BY <1>2, <2>1
    <3>3. \A x \in first : \E i \in 1..woken : f[i] = x
      OBVIOUS
    <3> HIDE DEF f, first
    <3> QED
      BY <3>1, <3>2, <3>3 DEF Bijection, Injection, Surjection, IsInjective
  <2>3. ExistsBijection(1..woken, first)
    <3> HIDE DEF f, first
    <3> QED
      BY <2>2 DEF ExistsBijection
  <2>4. IsFiniteSet(1..woken) /\ Cardinality(1..woken) = woken
    BY <1>3, FS_Interval
  <2> HIDE DEF f, first
  <2> QED
    BY <2>3, <2>4, FS_Bijection
<1>7. Woken' = Woken \cup first /\ Woken \cap first = {}
  <2>1. \A p \in first : p \in Publishers /\ publishing[p] = "blocked"
    <3>1. \A i \in 1..woken : i \in 1..L
      BY <1>2, <1>3
    <3> QED
      BY <1>2, <3>1
  <2> HIDE DEF first
  <2> QED
    BY <1>4, <2>1 DEF Woken
<1> HIDE DEF first
<1>8. IsFiniteSet(Woken') /\ Cardinality(Woken') = Cardinality(Woken) + woken
  <2>1. /\ IsFiniteSet(Woken \cup first)
        /\ Cardinality(Woken \cup first) =
             Cardinality(Woken) + Cardinality(first) - Cardinality(Woken \cap first)
    BY <1>1, <1>6, FS_Union
  <2>2. Cardinality(Woken \cap first) = 0
    BY <1>7, FS_EmptySet
  <2> QED
    BY <1>1, <1>3, <1>6, <1>7, <2>1, <2>2
<1>9. putters' # <<>> => QueueLen' + Cardinality(Woken') >= QueueMax
  <2> SUFFICES ASSUME putters' # <<>> PROVE QueueLen' + Cardinality(Woken') >= QueueMax
    OBVIOUS
  <2>1. woken # L
    <3> SUFFICES ASSUME woken = L PROVE FALSE
      OBVIOUS
    <3>1. L + 1 \in Int /\ L \in Int /\ L < L + 1
      BY <1>2
    <3>2. putters' = <<>>
      BY <1>4, <3>1, SubSeqEmpty
    <3> QED
      BY <3>2
  <2>2. woken = QueueLen
    BY <1>3, <2>1
  <2>3. putters # <<>>
    <3> SUFFICES ASSUME putters = <<>> PROVE FALSE
      OBVIOUS
    <3>1. L = 0
      BY EmptySeq DEF L
    <3> QED
      BY <1>3, <2>1, <3>1
  <2>4. QueueLen + Cardinality(Woken) >= QueueMax
    BY <2>3 DEF PlacesInv
  <2> QED
    BY <1>1, <1>5, <1>8, <2>2, <2>4
<1> QED
  BY <1>8, <1>9 DEF PlacesInv

\* Tasks that leave the states of the semaphore's line, or never came to it, change
\* nothing about it.
LEMMA GrantsKept ==
  ASSUME GrantsInv, slots' = slots, In({"waiting"})' \subseteq In({"waiting"}),
         In({"granted", "revoked"}) \subseteq In({"granted", "revoked"})'
  PROVE  GrantsInv'
BY DEF GrantsInv

\* A task that cannot have a slot at once waits for a holder, or behind a granted one.
LEMMA StartHandlerKeepsGrants ==
  ASSUME BusInv, GrantsInv, StartHandler
  PROVE  GrantsInv'
<1>1. tasks \in Seq(Task) /\ slots \in Int
  BY BusAssumption DEF BusInv, TypeOK
<1>2. PICK i \in DOMAIN tasks :
           /\ tasks[i].state = "created"
           /\ \/ /\ SlotIsFree /\ slots' = slots - 1
                 /\ Restated([j \in DOMAIN tasks |->
                                IF j = i THEN "running" ELSE tasks[j].state])
              \/ /\ slots' = slots /\ ~SlotIsFree
                 /\ Restated([j \in DOMAIN tasks |->
                                IF j = i THEN "waiting" ELSE tasks[j].state])
  <2> DEFINE i == First(In({"created"}))
  <2>1. i \in In({"created"})
    <3>1. In({"created"}) # {}
      BY DEF StartHandler
    <3> QED
      BY <1>1, <3>1, InIndexes
  <2>2. \/ SlotIsFree /\ tasks' = [tasks EXCEPT ![i].state = "running"] /\ slots' = slots - 1
        \/ ~SlotIsFree /\ tasks' = [tasks EXCEPT ![i].state = "waiting"] /\ slots' = slots
    BY DEF StartHandler
  <2> HIDE DEF i
  <2>3. i \in DOMAIN tasks /\ tasks[i].state = "created"
    BY <2>1 DEF In
  <2>4. "running" \in TaskStates /\ "waiting" \in TaskStates
    BY DEF TaskStates
  <2> QED
    BY <1>1, <2>2, <2>3, <2>4, RestateOne
<1>3. i \notin In({"waiting"}) /\ i \notin In({"granted", "revoked"})
  BY <1>2 DEF In
<1>4. CASE /\ SlotIsFree
           /\ Restated([j \in DOMAIN tasks |-> IF j = i THEN "running" ELSE tasks[j].state])
  <2>1. In({"waiting"}) = {}
    BY <1>4 DEF SlotIsFree, In
  <2>2. In({"waiting"})' = In({"waiting"}) \ {i}
    BY <1>1, <1>4 DEF Restated, In
  <2> QED
    BY <2>1, <2>2 DEF GrantsInv
<1>5. CASE /\ ~SlotIsFree /\ slots' = slots
           /\ Restated([j \in DOMAIN tasks |-> IF j = i THEN "waiting" ELSE tasks[j].state])
  <2>1. slots > 0 => In({"granted", "revoked"}) # {}
    <3>1. slots > 0 => In({"waiting"}) # {} \/ In({"granted", "revoked"}) # {}
      BY <1>5 DEF SlotIsFree, In
    <3> QED
      BY <3>1 DEF GrantsInv
  <2>2. In({"granted", "revoked"})' = In({"granted", "revoked"}) \ {i}
    BY <1>1, <1>5 DEF Restated, In
  <2>3. In({"granted", "revoked"})' = In({"granted", "revoked"})
    BY <1>3, <2>2
  <2> QED
    BY <1>5, <2>1, <2>3 DEF GrantsInv
<1> QED
  BY <1>2, <1>4, <1>5

\* Who enters passes on a slot that is free, if somebody waits for it.
LEMMA EnterKeepsGrants ==
  ASSUME BusInv, GrantsInv, Enter
  PROVE  GrantsInv'
<1> DEFINE i == First(In({"granted", "revoked"}))
           k == First(In({"waiting"}))
<1>1. tasks \in Seq(Task) /\ slots \in Nat
  BY BusAssumption DEF BusInv, TypeOK
<1>2. i \in DOMAIN tasks /\ tasks[i].state = "granted"
  <2>1. In({"granted", "revoked"}) # {}
    BY DEF Enter
  <2>2. i \in In({"granted", "revoked"})
    BY <1>1, <2>1, InIndexes
  <2>3. tasks[i].state = "granted"
    BY DEF Enter
  <2> QED
    BY <2>2, <2>3 DEF In
<1>3. \/ /\ slots > 0 /\ In({"waiting"}) # {}
         /\ tasks' = [tasks EXCEPT ![i].state = "running", ![k].state = "granted"]
      \/ /\ ~ (slots > 0 /\ In({"waiting"}) # {}) /\ slots' = slots
         /\ tasks' = [tasks EXCEPT ![i].state = "running"]
  BY DEF Enter
<1> HIDE DEF i
<1>4. "running" \in TaskStates /\ "granted" \in TaskStates
  BY DEF TaskStates
<1>5. CASE /\ In({"waiting"}) # {}
           /\ tasks' = [tasks EXCEPT ![i].state = "running", ![k].state = "granted"]
  <2>1. k \in In({"waiting"})
    BY <1>1, <1>5, InIndexes
  <2> HIDE DEF k
  <2>2. k \in DOMAIN tasks /\ tasks[k].state = "waiting"
    BY <2>1 DEF In
  <2>3. i # k
    BY <1>2, <2>2
  <2>4. Restated([j \in DOMAIN tasks |-> IF j = i THEN "running"
                     ELSE IF j = k THEN "granted" ELSE tasks[j].state])
    BY ONLY <1>1, <1>2, <1>4, <1>5, <2>2, <2>3, RestateTwo
  <2>5. k \in In({"granted", "revoked"})'
    BY <2>2, <2>3, <2>4 DEF Restated, In
  <2> QED
    BY <2>5 DEF GrantsInv
<1>6. CASE /\ ~ (slots > 0 /\ In({"waiting"}) # {}) /\ slots' = slots
           /\ tasks' = [tasks EXCEPT ![i].state = "running"]
  <2>1. Restated([j \in DOMAIN tasks |-> IF j = i THEN "running" ELSE tasks[j].state])
    BY ONLY <1>1, <1>2, <1>4, <1>6, RestateOne
  <2>2. In({"waiting"})' = In({"waiting"}) \ {i}
    BY <1>1, <2>1 DEF Restated, In
  <2> QED
    BY <1>6, <2>2 DEF GrantsInv
<1> QED
  BY <1>3, <1>5, <1>6

\* Who ends passes its own slot on, if somebody waits for it.
LEMMA EndHolderKeepsGrants ==
  ASSUME BusInv, GrantsInv, NEW i \in DOMAIN tasks, NEW end \in Ended,
         tasks[i].state \in {"running", "cancelling", "revoked"}, EndHolder(i, end)
  PROVE  GrantsInv'
<1> DEFINE k == First(In({"waiting"}))
<1>1. tasks \in Seq(Task)
  BY DEF BusInv, TypeOK
<1>2. \/ /\ In({"waiting"}) # {}
         /\ tasks' = [tasks EXCEPT ![i].state = end, ![k].state = "granted"]
      \/ /\ In({"waiting"}) = {}
         /\ tasks' = [tasks EXCEPT ![i].state = end]
  BY DEF EndHolder
<1>3. end \in TaskStates /\ "granted" \in TaskStates /\ end \notin {"waiting"}
  BY DEF TaskStates, Ended
<1>4. CASE /\ In({"waiting"}) # {}
           /\ tasks' = [tasks EXCEPT ![i].state = end, ![k].state = "granted"]
  <2>1. k \in In({"waiting"})
    BY <1>1, <1>4, InIndexes
  <2> HIDE DEF k
  <2>2. k \in DOMAIN tasks /\ tasks[k].state = "waiting"
    BY <2>1 DEF In
  <2>3. i # k
    BY <2>2
  <2>4. Restated([j \in DOMAIN tasks |-> IF j = i THEN end
                     ELSE IF j = k THEN "granted" ELSE tasks[j].state])
    BY ONLY <1>1, <1>3, <1>4, i \in DOMAIN tasks, <2>2, <2>3, RestateTwo
  <2>5. k \in In({"granted", "revoked"})'
    BY <2>2, <2>3, <2>4 DEF Restated, In
  <2> QED
    BY <2>5 DEF GrantsInv
<1>5. CASE /\ In({"waiting"}) = {}
           /\ tasks' = [tasks EXCEPT ![i].state = end]
  <2>1. Restated([j \in DOMAIN tasks |-> IF j = i THEN end ELSE tasks[j].state])
    BY ONLY <1>1, <1>3, <1>5, i \in DOMAIN tasks, RestateOne
  <2>2. In({"waiting"})' = In({"waiting"}) \ {i}
    BY <1>1, <1>3, <2>1, InOne
  <2> QED
    BY <1>5, <2>2 DEF GrantsInv
<1> QED
  BY <1>2, <1>4, <1>5

\* A shutdown cancels all who wait, as it knows them all.
LEMMA CancelKeepsGrants ==
  ASSUME BusInv, CancelHandlers
  PROVE  GrantsInv'
<1>1. Restated([j \in DOMAIN tasks |-> IF j \in background
                                       THEN AfterCancel(tasks[j].state)
                                       ELSE tasks[j].state])
  BY CancelEffect DEF BusInv, TypeOK
<1>2. ASSUME NEW j \in DOMAIN tasks, tasks'[j].state = "waiting" PROVE FALSE
  <2>1. CASE j \in background
    <3>1. tasks'[j].state = AfterCancel(tasks[j].state)
      BY <1>1, <2>1 DEF Restated
    <3> QED
      BY <1>2, <3>1 DEF AfterCancel
  <2>2. CASE j \notin background
    <3>1. tasks'[j].state = tasks[j].state
      BY <1>1, <2>2 DEF Restated
    <3>2. tasks[j].state \in Ended
      BY <2>2 DEF BusInv, LiveTasksAreHeld, In
    <3> QED
      BY <1>2, <3>1, <3>2 DEF Ended
  <2> QED
    BY <2>1, <2>2
<1>3. In({"waiting"})' = {}
  BY <1>1, <1>2 DEF In, Restated
<1> QED
  BY <1>3 DEF GrantsInv

LEMMA PlacesAndGrantsHold == Spec => [](PlacesInv /\ GrantsInv)
<1>1. Init => PlacesInv /\ GrantsInv
  <2> SUFFICES ASSUME Init PROVE PlacesInv /\ GrantsInv
    OBVIOUS
  <2>1. Woken = {} /\ In({"waiting"}) = {} /\ putters = <<>>
    BY DEF Init, Woken, In
  <2> QED
    BY <2>1, FS_EmptySet DEF PlacesInv, GrantsInv
<1>2. BusInv /\ PlacesInv /\ GrantsInv /\ [Next]_vars => (PlacesInv /\ GrantsInv)'
  <2> SUFFICES ASSUME BusInv, PlacesInv, GrantsInv, [Next]_vars PROVE PlacesInv' /\ GrantsInv'
    OBVIOUS
  <2>1. ASSUME UNCHANGED <<tasks, slots>> PROVE GrantsInv'
    BY <2>1, GrantsKept DEF In
  <2>2. CASE \E p \in Publishers : Publish(p) \/ PublishNowait(p) \/ PutWoken(p)
    BY <2>1, <2>2, PublisherKeepsPlaces DEF Publish, PublishNowait, PutWoken, taskVars
  <2>3. CASE Start \/ Shutdown \/ ShutdownReturns \/ (\E h \in Handlers : Subscribe(h))
    BY <2>1, <2>3, PlacesKept DEF Start, Shutdown, ShutdownReturns, Subscribe, taskVars
  <2>4. CASE ProcessQueue
    <3>1. slots' = slots /\ \A i \in 1..Len(tasks) : tasks'[i] = tasks[i]
      BY <2>4, ProcessQueueEffect DEF ProcessQueue, BusInv
    <3>2. /\ Len(tasks') >= Len(tasks)
          /\ \A i \in (Len(tasks) + 1)..Len(tasks') : tasks'[i].state = "created"
          /\ tasks' \in Seq(Task) /\ tasks \in Seq(Task)
      BY <2>4, ProcessQueueEffect DEF BusInv, TypeOK
    <3>3. /\ DOMAIN tasks = 1..Len(tasks) /\ DOMAIN tasks' = 1..Len(tasks')
          /\ Len(tasks) \in Nat /\ Len(tasks') \in Nat
      BY <3>2, LenProperties
    <3>4. \A i \in DOMAIN tasks' : i \in 1..Len(tasks) \/ i \in (Len(tasks) + 1)..Len(tasks')
      BY <3>3
    <3>5. \A i \in DOMAIN tasks : i \in DOMAIN tasks' /\ tasks'[i] = tasks[i]
      BY <3>1, <3>2, <3>3
    <3>6. In({"waiting"})' \subseteq In({"waiting"})
      BY <3>1, <3>2, <3>3, <3>4 DEF In
    <3>7. In({"granted", "revoked"}) \subseteq In({"granted", "revoked"})'
      BY <3>5 DEF In
    <3> QED
      BY <2>4, <3>1, <3>6, <3>7, GrantsKept, WorkerKeepsPlaces
  <2>5. CASE StartHandler
    BY <2>5, StartHandlerKeepsGrants, PlacesKept DEF StartHandler
  <2>6. CASE Enter
    BY <2>6, EnterKeepsGrants, PlacesKept DEF Enter
  <2>7. CASE \E i \in DOMAIN tasks : TaskEnds(i) \/ FailHandler(i)
    <3>1. PICK i \in DOMAIN tasks : TaskEnds(i) \/ FailHandler(i)
      BY <2>7
    <3>2. \E end \in Ended : EndHolder(i, end)
      BY <3>1 DEF TaskEnds, Finish, CancelLands, FailHandler, Ended
    <3>3. tasks[i].state \in {"running", "cancelling", "revoked"}
      BY <3>1 DEF TaskEnds, Finish, CancelLands, FailHandler
    <3>4. UNCHANGED queueVars
      BY <3>2 DEF EndHolder
    <3> QED
      BY <3>2, <3>3, <3>4, EndHolderKeepsGrants, PlacesKept
  <2>8. CASE CancelHandlers
    BY <2>8, CancelKeepsGrants, PlacesKept DEF CancelHandlers
  <2>9. CASE UNCHANGED vars
    BY <2>1, <2>9, PlacesKept DEF vars, taskVars
  <2> QED
    BY <2>2, <2>3, <2>4, <2>5, <2>6, <2>7, <2>8, <2>9 DEF Next
<1> QED
  BY <1>1, <1>2, BusInvHolds, PTL DEF Spec

-----------------------------------------------------------------------------
(* What the bus promises                                                     *)

\* After shutdown() has returned, and until start() runs again, no task is left: those it
\* found it waited for, and the worker it had cancelled made no others.
THEOREM ShutdownLeavesNothing == Spec => []ShutdownQuiesces
<1>1. BusInv => ShutdownQuiesces
  BY DEF BusInv, ShutdownQuiesces, StopInv, LiveTasksAreHeld, In
<1> QED
  BY <1>1, BusInvHolds, PTL

\* Across handlers that fail, are cancelled while they run, wait or have just been
\* granted a slot, and across restarts, every slot is free or held by one task, every
\* task that has not ended is in the set the next shutdown looks at, and after a shutdown
\* none is left.
THEOREM TasksAreAccounted == Spec => []TasksAccounted
<1>1. BusInv => SlotsReturned /\ LiveTasksAreHeld /\ TypeOK
  BY DEF BusInv
<1> QED
  BY <1>1, BusInvHolds, ShutdownLeavesNothing, PTL DEF TasksAccounted

\* A message's position is where it is in the queue.
LEMMA PositionIs ==
  ASSUME QueueInv, NEW n \in DOMAIN accepted
  PROVE  Position(accepted[n]) = n
BY DEF QueueInv, Position

\* The handlers of a topic start on its messages in the order of the queue, whichever of
\* them waited for a slot, were granted one or were cancelled on the way.
THEOREM HandlersStartInTurn == Spec => []HandlersStartInOrder
<1>1. BusInv => HandlersStartInOrder
  <2> SUFFICES ASSUME BusInv, NEW i \in DOMAIN tasks, NEW j \in DOMAIN tasks,
                      Position(tasks[i].message) < Position(tasks[j].message),
                      tasks[j].state \in {"running", "cancelling", "done", "failed"}
               PROVE  tasks[i].state \notin {"created", "waiting"}
    BY DEF HandlersStartInOrder
  <2>1. taken \in 0..Len(accepted) /\ DOMAIN accepted = 1..Len(accepted)
        /\ Len(accepted) \in Nat /\ DOMAIN tasks \subseteq Nat
    BY InIndexes, LenProperties DEF BusInv, TypeOK
  <2>2. PICK m \in 1..taken : accepted[m] = tasks[i].message
    BY DEF BusInv, DispatchedInOrder
  <2>3. PICK n \in 1..taken : accepted[n] = tasks[j].message
    BY DEF BusInv, DispatchedInOrder
  <2>4. m \in DOMAIN accepted /\ n \in DOMAIN accepted /\ m \in Nat /\ n \in Nat
    BY <2>1
  <2>5. Position(tasks[i].message) = m /\ Position(tasks[j].message) = n
    BY <2>2, <2>3, <2>4, PositionIs DEF BusInv
  <2>6. ~ (j < i)
    BY <2>2, <2>3, <2>4, <2>5 DEF BusInv, DispatchedInOrder
  <2>7. i < j
    BY <2>1, <2>4, <2>5, <2>6
  <2> QED
    BY <2>7 DEF BusInv, StartedInOrder
<1> QED
  BY <1>1, BusInvHolds, PTL

\* Two handlers that have finished the same messages hold the same state, in whatever
\* order each of them finished, when every message carries a version of its own.
THEOREM ReplicasAgree == Spec => []ReplicasConverge
<1>1. BusInv => ReplicasConverge
  <2> SUFFICES ASSUME BusInv, NEW g \in Handlers, NEW h \in Handlers,
                      Applied(g) = Applied(h),
                      \A m \in Applied(g) : VersionOf[m] # NoVersion,
                      \A m, n \in Applied(g) : VersionOf[m] = VersionOf[n] => m = n
               PROVE  state[g] = state[h]
    BY DEF ReplicasConverge
  <2>1. \A m \in Applied(g) : VersionOf[m] \in Int
    <3>1. \A m \in Applied(g) : m \in Messages
      BY InIndexes DEF BusInv, TypeOK, Applied, Task
    <3> QED
      BY <3>1, EnvelopeAssumption
  <2>2. \A k \in {g, h} :
          /\ state[k] \in [message : Messages \cup {0}, version : Int]
          /\ \A m \in Applied(g) : VersionOf[m] <= state[k].version
          /\ \/ state[k] = NoState
             \/ \E m \in Applied(g) : /\ VersionOf[m] > -1
                                      /\ state[k].message = m
                                      /\ state[k].version = VersionOf[m]
    BY DEF BusInv, NewestApplied
  <2>3. NoState.version = -1
    BY DEF NoState
  <2>4. CASE state[g] = NoState \/ state[h] = NoState
    BY <2>1, <2>2, <2>3, <2>4
  <2>5. ASSUME NEW m \in Applied(g), state[g].message = m, state[g].version = VersionOf[m],
               NEW n \in Applied(g), state[h].message = n, state[h].version = VersionOf[n]
        PROVE  state[g] = state[h]
    <3>1. VersionOf[m] <= VersionOf[n] /\ VersionOf[n] <= VersionOf[m]
      BY <2>2, <2>5
    <3>2. m = n
      BY <2>1, <3>1
    <3> QED
      BY <2>2, <2>5, <3>2
  <2> QED
    BY <2>2, <2>4, <2>5
<1> QED
  BY <1>1, BusInvHolds, PTL
\* Nobody waits for what is free, with any number of publishers, places, handlers and
\* slots: each free place of the queue is one a woken publisher is on its way to, a free
\* slot has a granted task before those that wait, and while the bus is not at rest
\* somebody can go on (publish, _process_queue, _safe_execute). It is what BusDrains rests
\* on besides fairness.
THEOREM NobodyIsOverlooked == Spec => []NobodyOverlooked
<1>1. BusInv /\ PlacesInv /\ GrantsInv => NobodyOverlooked
  <2> SUFFICES ASSUME BusInv, PlacesInv, GrantsInv PROVE NobodyOverlooked
    OBVIOUS
  <2>0. QueueLen \in Nat /\ QueueMax \in Nat \ {0}
    BY QueueSizes
  <2> SUFFICES ASSUME ~ (QueueLen > 0), Woken = {}, In({"created"} \cup Holding) = {}
               PROVE  AtRest
    BY DEF NobodyOverlooked, PlacesInv, GrantsInv
  <2>1. QueueLen = 0
    BY <2>0
  <2>2. \A p \in Publishers : publishing[p] = "idle"
    <3>1. Cardinality(Woken) = 0
      BY FS_EmptySet
    <3>2. putters = <<>>
      BY <2>0, <2>1, <3>1 DEF PlacesInv
    <3>3. {p \in Publishers : publishing[p] = "blocked"} = {}
      BY <3>2 DEF BusInv, TypeOK
    <3>4. publishing \in [Publishers -> {"idle", "blocked", "woken"}]
      BY DEF BusInv, TypeOK
    <3> QED
      BY <3>3, <3>4 DEF Woken
  <2>3. In(Holding) = {}
    BY DEF In
  <2>4. slots > 0
    <3>1. Cardinality(In(Holding)) = 0
      BY <2>3, FS_EmptySet
    <3>2. slots \in Int /\ MaxHandlers \in Nat \ {0} /\ slots + Cardinality(In(Holding)) = MaxHandlers
      BY BusAssumption DEF BusInv, TypeOK, SlotsReturned
    <3> QED
      BY <3>1, <3>2
  <2>5. In({"waiting"}) = {}
    <3>1. In({"granted", "revoked"}) = {}
      BY <2>3 DEF In, Holding
    <3> QED
      BY <2>4, <3>1 DEF GrantsInv
  <2>6. DOMAIN tasks = In(Ended)
    <3>1. \A i \in DOMAIN tasks : tasks[i].state \in TaskStates
      BY InIndexes DEF BusInv, TypeOK, Task
    <3>2. TaskStates = ({"created"} \cup Holding) \cup {"waiting"} \cup Ended
      BY DEF TaskStates, Holding, Ended
    <3>3. \A i \in DOMAIN tasks : /\ tasks[i].state \notin {"created"} \cup Holding
                                  /\ tasks[i].state # "waiting"
      BY <2>5 DEF In
    <3>4. \A i \in DOMAIN tasks : tasks[i].state \in Ended
      BY <3>1, <3>2, <3>3
    <3> QED
      BY <3>4 DEF In
  <2> QED
    BY <2>1, <2>2, <2>6 DEF AtRest
<1> QED
  BY <1>1, BusInvHolds, PlacesAndGrantsHold, PTL
=============================================================================
