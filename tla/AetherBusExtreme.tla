--------------------------- MODULE AetherBusExtreme --------------------------
(***************************************************************************)
(* The in-process bus of the API gateway (api_gateway/aetherbus_extreme.py):*)
(* publishers put messages into a bounded queue, a worker turns each into   *)
(* one task per subscribed handler, a semaphore bounds how many handlers    *)
(* run at once, and shutdown cancels the worker and the tasks. A handler    *)
(* feeds a StateConvergenceProcessor, the state it keeps from the messages. *)
(*                                                                          *)
(* One action is what the event loop runs between two suspensions. A worker *)
(* that finds messages takes them all in one step: neither get() on a queue *)
(* that is not empty nor _dispatch suspends. A task that is cancelled before*)
(* its handler has run ends at once, as nothing of it would run any more.   *)
(***************************************************************************)
EXTENDS Integers, Sequences, FiniteSets

CONSTANTS
  Publishers,     \* coroutines that publish, each its messages in order
  Script,         \* publisher -> the messages it publishes
  VersionOf,      \* message -> version its update names, or NoVersion
  NoVersion,
  Handlers,       \* subscribers of the topic, each with a state of its own
  Early,          \* those that subscribe before anything is published
  Faulty,         \* messages a handler may fail on
  QueueMax,       \* queue_maxsize
  Limits,         \* values of max_queue_backpressure a bus is built with
  MaxHandlers,    \* max_concurrent_handlers
  MaxStarts       \* bound: how often the bus is started

Messages == UNION {{Script[p][i] : i \in DOMAIN Script[p]} : p \in Publishers}

ASSUME BusAssumption ==
  /\ QueueMax \in Nat \ {0} /\ MaxHandlers \in Nat \ {0} /\ MaxStarts \in Nat
  /\ Limits \subseteq Nat /\ Early \subseteq Handlers /\ IsFiniteSet(Handlers)
  /\ Script \in [Publishers -> Seq(Messages)]
\* A message is one envelope: it is published once, and it carries at most one version.
ASSUME EnvelopeAssumption ==
  /\ \A p, q \in Publishers : \A i \in DOMAIN Script[p], j \in DOMAIN Script[q] :
       Script[p][i] = Script[q][j] => p = q /\ i = j
  /\ \A m \in Messages : VersionOf[m] \in Int \cup {NoVersion}

VARIABLES
  limit,        \* _max_queue_backpressure
  running,      \* _is_running: a worker that has not been cancelled exists
  accepted,     \* every message ever put into the queue, in order
  taken,        \* how many of them the worker has dispatched
  subscribers,  \* handlers subscribed so far
  tasks,        \* every task ever created, in order: message, handler, state, and
                \* which set its done callback discards it from
  slots,        \* value of _dispatch_semaphore
  background,   \* _background_tasks
  setNo,        \* which set object _background_tasks is
  stopping,     \* where shutdown() waits: "no", "worker", "tasks"
  awaited,      \* the tasks it waits for
  publishing,   \* publisher -> "idle", "blocked" in put(), or "woken" from it
  sent,         \* publisher -> how many messages it is done with
  putters,      \* blocked publishers, first come first served
  state,        \* handler -> the message its _state holds (0: none) and its version
  starts,       \* how often start() created a worker
  restarted     \* history: whether start() ran after the last call of shutdown()

queueVars == <<accepted, taken, publishing, sent, putters>>
taskVars == <<tasks, slots, background, state>>
stopVars == <<setNo, stopping, awaited>>
vars == <<limit, running, subscribers, starts, restarted, queueVars, taskVars, stopVars>>

TaskStates == {"created", "waiting", "granted", "revoked", "running", "cancelling",
               "done", "failed", "cancelled"}
Ended == {"done", "failed", "cancelled"}
Holding == {"granted", "revoked", "running", "cancelling"}

In(states) == {i \in DOMAIN tasks : tasks[i].state \in states}
First(indexes) == CHOOSE i \in indexes : \A j \in indexes : i <= j
QueueLen == Len(accepted) - taken
Full == QueueLen >= QueueMax
NoState == [message |-> 0, version |-> -1]
Task == [message : Messages, handler : Handlers, state : TaskStates, set : Nat]

TypeOK ==
  /\ limit \in Limits /\ running \in BOOLEAN /\ restarted \in BOOLEAN
  /\ accepted \in Seq(Messages) /\ taken \in 0..Len(accepted) /\ QueueLen <= QueueMax
  /\ subscribers \subseteq Handlers
  /\ tasks \in Seq(Task) /\ \A i \in DOMAIN tasks : tasks[i].set <= setNo
  /\ slots \in 0..MaxHandlers /\ setNo \in Nat
  /\ background \subseteq DOMAIN tasks /\ awaited \subseteq DOMAIN tasks
  /\ stopping \in {"no", "worker", "tasks"}
  /\ publishing \in [Publishers -> {"idle", "blocked", "woken"}]
  /\ {putters[i] : i \in DOMAIN putters} = {p \in Publishers : publishing[p] = "blocked"}

Init ==
  /\ limit \in Limits
  /\ running = FALSE /\ starts = 0 /\ restarted = TRUE
  /\ accepted = <<>> /\ taken = 0 /\ subscribers = Early
  /\ tasks = <<>> /\ slots = MaxHandlers
  /\ background = {} /\ setNo = 0 /\ stopping = "no" /\ awaited = {}
  /\ publishing = [p \in Publishers |-> "idle"]
  /\ sent = [p \in Publishers |-> 0] /\ putters = <<>>
  /\ state = [h \in Handlers |-> NoState]

-----------------------------------------------------------------------------
(* Publishing                                                                *)

HasNext(p) == publishing[p] = "idle" /\ sent[p] < Len(Script[p])
NextOf(p) == Script[p][sent[p] + 1]

\* put_nowait: the message is in the queue and the publisher goes on.
Enqueue(p) ==
  /\ accepted' = Append(accepted, NextOf(p))
  /\ sent' = [sent EXCEPT ![p] = @ + 1]
  /\ publishing' = [publishing EXCEPT ![p] = "idle"]

\* put() on a full queue: the publisher waits behind those who wait already.
Block(p) ==
  /\ publishing' = [publishing EXCEPT ![p] = "blocked"]
  /\ putters' = Append(putters, p)
  /\ UNCHANGED <<accepted, sent>>

\* publish() raises "Too many requests", publish_nowait() answers False: the message
\* is dropped.
Refuse(p) ==
  /\ sent' = [sent EXCEPT ![p] = @ + 1]
  /\ UNCHANGED <<accepted, publishing, putters>>

Publish(p) ==
  /\ HasNext(p)
  /\ \/ QueueLen >= limit /\ Refuse(p)
     \/ QueueLen < limit /\ Full /\ Block(p)
     \/ QueueLen < limit /\ ~Full /\ Enqueue(p) /\ UNCHANGED putters
  /\ UNCHANGED <<limit, running, subscribers, starts, restarted, taken, taskVars, stopVars>>

PublishNowait(p) ==
  /\ HasNext(p)
  /\ \/ (QueueLen >= limit \/ Full) /\ Refuse(p)
     \/ QueueLen < limit /\ ~Full /\ Enqueue(p) /\ UNCHANGED putters
  /\ UNCHANGED <<limit, running, subscribers, starts, restarted, taken, taskVars, stopVars>>

\* A woken publisher looks again: others may have filled the queue in between.
PutWoken(p) ==
  /\ publishing[p] = "woken"
  /\ \/ Full /\ Block(p)
     \/ ~Full /\ Enqueue(p) /\ UNCHANGED putters
  /\ UNCHANGED <<limit, running, subscribers, starts, restarted, taken, taskVars, stopVars>>

-----------------------------------------------------------------------------
(* The worker                                                                *)

Subscribe(h) ==
  /\ h \notin subscribers
  /\ subscribers' = subscribers \cup {h}
  /\ UNCHANGED <<limit, running, starts, restarted, queueVars, taskVars, stopVars>>

\* The order in which _dispatch goes through the set of handlers: any, but one.
HandlerOrder ==
  CHOOSE f \in [1..Cardinality(subscribers) -> subscribers] :
    \A h \in subscribers : \E n \in 1..Cardinality(subscribers) : f[n] = h
HandlerAt(n) == HandlerOrder[n]

\* Slip: the newest message is dispatched first.
CreatedNewestFirst(messages) ==
  LET width == Cardinality(subscribers)
  IN [n \in 1..(Len(messages) * width) |->
        [message |-> messages[Len(messages) - ((n - 1) \div width)],
         handler |-> HandlerAt(((n - 1) % width) + 1),
         state |-> "created", set |-> setNo]]

\* One task a message and handler, in the order of the messages.
Created(messages) ==
  LET width == Cardinality(subscribers)
  IN [n \in 1..(Len(messages) * width) |->
        [message |-> messages[((n - 1) \div width) + 1],
         handler |-> HandlerAt(((n - 1) % width) + 1),
         state |-> "created", set |-> setNo]]

\* Every get() wakes one blocked publisher.
Wake(count) ==
  LET woken == IF count < Len(putters) THEN count ELSE Len(putters)
  IN /\ putters' = SubSeq(putters, woken + 1, Len(putters))
     /\ publishing' = [p \in Publishers |->
          IF p \in {putters[i] : i \in 1..woken} THEN "woken" ELSE publishing[p]]

ProcessQueue ==
  /\ running /\ QueueLen > 0
  /\ LET new == Created(SubSeq(accepted, taken + 1, Len(accepted)))
     IN /\ tasks' = tasks \o new
        /\ background' = background \cup {Len(tasks) + n : n \in DOMAIN new}
  /\ taken' = Len(accepted)
  /\ Wake(QueueLen)
  /\ UNCHANGED <<limit, running, subscribers, starts, restarted, accepted, sent,
                 slots, state, stopVars>>

-----------------------------------------------------------------------------
(* Handlers under the semaphore. Waiting tasks are granted a slot first come *)
(* first served; a granted task has its slot before it runs again.           *)

\* A free slot is taken without waiting only if nobody is before this task.
SlotIsFree == slots > 0 /\ In({"waiting", "granted", "revoked"}) = {}

StartHandler ==
  /\ In({"created"}) # {}
  /\ LET i == First(In({"created"})) IN
       IF SlotIsFree
       THEN tasks' = [tasks EXCEPT ![i].state = "running"] /\ slots' = slots - 1
       ELSE tasks' = [tasks EXCEPT ![i].state = "waiting"] /\ UNCHANGED slots
  /\ UNCHANGED <<limit, running, subscribers, starts, restarted, background, state,
                 queueVars, stopVars>>

\* Slip: a granted task enters, and leaves other free slots alone.
EnterAlone ==
  /\ In({"granted", "revoked"}) # {}
  /\ LET i == First(In({"granted", "revoked"}))
     IN tasks[i].state = "granted" /\ tasks' = [tasks EXCEPT ![i].state = "running"]
  /\ UNCHANGED <<limit, running, subscribers, starts, restarted, background, state, slots,
                 queueVars, stopVars>>

\* A granted task enters, and passes on what other slots are free.
Enter ==
  /\ In({"granted", "revoked"}) # {}
  /\ LET i == First(In({"granted", "revoked"}))
         next == First(In({"waiting"}))
     IN /\ tasks[i].state = "granted"
        /\ IF slots > 0 /\ In({"waiting"}) # {}
           THEN /\ tasks' = [tasks EXCEPT ![i].state = "running", ![next].state = "granted"]
                /\ slots' = slots - 1
           ELSE tasks' = [tasks EXCEPT ![i].state = "running"] /\ UNCHANGED slots
  /\ UNCHANGED <<limit, running, subscribers, starts, restarted, background, state,
                 queueVars, stopVars>>

\* The done callback of a task discards it from the set it was created under.
Discard(i) ==
  background' = IF tasks[i].set = setNo THEN background \ {i} ELSE background

\* Slip: only a handler that returns normally gives its slot back.
EndHolderKeepingSlot(i, end) ==
  /\ IF end # "done"
     THEN tasks' = [tasks EXCEPT ![i].state = end] /\ UNCHANGED slots
     ELSE tasks' = [tasks EXCEPT ![i].state = end] /\ slots' = slots + 1
  /\ Discard(i)
  /\ UNCHANGED <<limit, running, subscribers, starts, restarted, queueVars, stopVars>>

\* The task ends, and the slot it held goes to the first that waits.
EndHolder(i, end) ==
  /\ IF In({"waiting"}) # {}
     THEN /\ tasks' = [tasks EXCEPT ![i].state = end,
                                    ![First(In({"waiting"}))].state = "granted"]
          /\ UNCHANGED slots
     ELSE tasks' = [tasks EXCEPT ![i].state = end] /\ slots' = slots + 1
  /\ Discard(i)
  /\ UNCHANGED <<limit, running, subscribers, starts, restarted, queueVars, stopVars>>

\* Slip: what arrives last is the state.
UpdateStateAlways(old, message) ==
  LET version == IF VersionOf[message] = NoVersion THEN old.version + 1
                                                   ELSE VersionOf[message]
  IN [message |-> message, version |-> version]

\* StateConvergenceProcessor.update_state: an older version is ignored, an update
\* without one counts as the next.
UpdateState(old, message) ==
  LET version == IF VersionOf[message] = NoVersion THEN old.version + 1
                                                   ELSE VersionOf[message]
  IN IF version > old.version THEN [message |-> message, version |-> version] ELSE old

\* The handler returns, after it was cancelled too if it swallows that.
Finish(i) ==
  /\ tasks[i].state \in {"running", "cancelling"}
  /\ state' = [state EXCEPT ![tasks[i].handler] = UpdateState(@, tasks[i].message)]
  /\ EndHolder(i, "done")

FailHandler(i) ==
  /\ tasks[i].state = "running" /\ tasks[i].message \in Faulty
  /\ EndHolder(i, "failed")
  /\ UNCHANGED state

\* The cancellation reaches a handler, or a task that had just been granted a slot.
CancelLands(i) ==
  /\ tasks[i].state \in {"cancelling", "revoked"}
  /\ EndHolder(i, "cancelled")
  /\ UNCHANGED state

-----------------------------------------------------------------------------
(* start() and shutdown()                                                    *)

Start ==
  /\ ~running /\ starts < MaxStarts
  /\ running' = TRUE /\ starts' = starts + 1 /\ restarted' = TRUE
  /\ UNCHANGED <<limit, subscribers, queueVars, taskVars, stopVars>>

\* The worker, if there ever was one, is cancelled and waited for.
Shutdown ==
  /\ stopping = "no" /\ starts > 0
  /\ running' = FALSE /\ stopping' = "worker" /\ restarted' = FALSE
  /\ UNCHANGED <<limit, subscribers, starts, queueVars, taskVars, setNo, awaited>>

Cancelled(task) ==
  [task EXCEPT !.state = CASE @ \in {"created", "waiting"} -> "cancelled"
                           [] @ = "granted" -> "revoked"
                           [] @ = "running" -> "cancelling"
                           [] OTHER -> @]

\* The tasks known now are cancelled and waited for.
CancelHandlers ==
  /\ stopping = "worker"
  /\ tasks' = [i \in DOMAIN tasks |-> IF i \in background THEN Cancelled(tasks[i])
                                                          ELSE tasks[i]]
  /\ background' = {i \in background : tasks[i].set # setNo
                                         \/ tasks'[i].state \notin Ended}
  /\ awaited' = background
  /\ stopping' = IF background = {} THEN "no" ELSE "tasks"
  /\ UNCHANGED <<limit, running, subscribers, starts, restarted, slots, state, setNo, queueVars>>

\* Slip: the set starts over empty.
ShutdownForgets ==
  /\ stopping = "tasks" /\ awaited \subseteq In(Ended)
  /\ background' = {}
  /\ setNo' = setNo + 1
  /\ stopping' = "no" /\ awaited' = {}
  /\ UNCHANGED <<limit, running, subscribers, starts, restarted, tasks, slots, state, queueVars>>

\* Those that are not done are kept, in a new set object.
ShutdownReturns ==
  /\ stopping = "tasks" /\ awaited \subseteq In(Ended)
  /\ background' = background \ In(Ended)
  /\ setNo' = setNo + 1
  /\ stopping' = "no" /\ awaited' = {}
  /\ UNCHANGED <<limit, running, subscribers, starts, restarted, tasks, slots, state, queueVars>>

TaskEnds(i) == Finish(i) \/ CancelLands(i)

Next ==
  \/ \E p \in Publishers : Publish(p) \/ PublishNowait(p) \/ PutWoken(p)
  \/ \E h \in Handlers : Subscribe(h)
  \/ ProcessQueue \/ StartHandler \/ Enter
  \/ \E i \in DOMAIN tasks : TaskEnds(i) \/ FailHandler(i)
  \/ Start \/ Shutdown \/ CancelHandlers \/ ShutdownReturns

\* What the event loop owes: every coroutine that can go on does. That a handler
\* returns is an assumption on the subscribers.
Fairness ==
  /\ WF_vars(ProcessQueue) /\ WF_vars(StartHandler) /\ WF_vars(Enter)
  /\ WF_vars(\E i \in DOMAIN tasks : TaskEnds(i))
  /\ \A p \in Publishers : WF_vars(PutWoken(p))
  /\ WF_vars(CancelHandlers) /\ WF_vars(ShutdownReturns)

Spec == Init /\ [][Next]_vars /\ Fairness

-----------------------------------------------------------------------------
(* Properties                                                                *)

\* Handlers that fail, or are cancelled while they run, wait or have just been
\* granted their slot, leave every slot either free or held: the bus does not lose
\* concurrency over its restarts (_safe_execute, _dispatch_semaphore).
SlotsReturned == slots + Cardinality(In(Holding)) = MaxHandlers

\* A handler starts on the messages of its topic in the order they were accepted,
\* across full queues, batches, cancellations and restarts (_dispatch).
Position(m) == CHOOSE n \in DOMAIN accepted : accepted[n] = m
HandlersStartInOrder ==
  \A i, j \in DOMAIN tasks :
    /\ tasks[i].handler = tasks[j].handler
    /\ Position(tasks[i].message) < Position(tasks[j].message)
    /\ tasks[j].state \in {"running", "cancelling", "done", "failed"}
    => tasks[i].state \notin {"created", "waiting"}

\* Every task that has not ended is in _background_tasks: the next shutdown finds it,
\* and so does the event loop, which itself keeps only weak references
\* (_dispatch, and the set that shutdown() replaces).
LiveTasksAreHeld == DOMAIN tasks \ In(Ended) \subseteq background

\* When shutdown() has returned and the bus was not started meanwhile, no handler
\* runs and none is still to come.
ShutdownQuiesces ==
  (stopping = "no" /\ ~restarted) => DOMAIN tasks = In(Ended) /\ background = {}

\* Handlers run concurrently and finish in any order; two that have finished the same
\* messages, with a version of its own each, hold the same state all the same
\* (update_state).
Applied(h) == {tasks[i].message : i \in {j \in In({"done"}) : tasks[j].handler = h}}
ReplicasConverge ==
  \A g, h \in Handlers :
    /\ Applied(g) = Applied(h)
    /\ \A m \in Applied(g) : VersionOf[m] # NoVersion
    /\ \A m, n \in Applied(g) : VersionOf[m] = VersionOf[n] => m = n
    => state[g] = state[h]

AtRest ==
  /\ QueueLen = 0 /\ DOMAIN tasks = In(Ended)
  /\ \A p \in Publishers : publishing[p] = "idle"

\* Nobody waits for what is free. While publishers wait in put(), each free place of the
\* queue is one that a woken publisher is on its way to; while tasks wait on the semaphore,
\* a free slot has a task before them that was granted its own and passes that one on. So
\* a bus that is not at rest has somebody who can go on, the worker if nobody else: that
\* handlers are cancelled between the grant and the start, and that woken publishers find
\* their place taken, leaves no one asleep (publish, _process_queue, _safe_execute).
Woken == {p \in Publishers : publishing[p] = "woken"}
NobodyOverlooked ==
  /\ putters # <<>> => QueueLen + Cardinality(Woken) >= QueueMax
  /\ slots > 0 /\ In({"waiting"}) # {} => In({"granted", "revoked"}) # {}
  /\ AtRest \/ QueueLen > 0 \/ Woken # {} \/ In({"created"} \cup Holding) # {}

\* On a running bus everything comes to rest, unless the bus is stopped: what was
\* accepted is handled by all who subscribed, and no publisher is left waiting on a
\* queue that has room. (Publishers have finitely many messages here.)
BusDrains == running ~> ~running \/ AtRest

\* Every slot and every task is accounted for: a slot is free or held by one task, a task
\* that has not ended is in the set a shutdown looks at, and none is left after one.
TasksAccounted == TypeOK /\ SlotsReturned /\ LiveTasksAreHeld /\ ShutdownQuiesces

=============================================================================
