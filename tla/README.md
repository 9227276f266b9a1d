# Verification of the Aetherium Manifest runtime

TLA+ models of the concurrent and decision-making parts of Aetherium Manifest, TLC
configurations that check them on small instances, and TLAPS proofs of the properties that
matter most. Every definition is translated from the source; `PROJECT.json` ("map") names
the lines each one stands for. Paths below are relative to `src/`.

Contents: 1 the system, 2 plan, 3 Tachyon node, 4 governor, 5 room stream gateway,
6 in-process bus, 7 distributed gateway, 8 state-sync rooms, 9 API gateway and adapters,
10 interpretation, 11 proofs, 12 findings, 13 what is not modelled.

## 1. The system

Aetherium Manifest is a "light-native" cognition runtime. A browser surface sends intents to
an API gateway; model responses become *visual contracts* that a governor must approve before
a renderer may show them; approved commands travel over a bus to WebSocket nodes that fan
them out, room by room, to the connected surfaces.

| Component | Source | State | Operations | Module |
|---|---|---|---|---|
| Tachyon node | `aetherbus_tachyon_go/server.go`, `main.go` | client and room maps, register / unregister / broadcast channels, versioned replay buffer per room, sticky sessions, send queue per client | accept, resume, read pump, write pump, `Run` (add, remove, fan out, publish) | `TachyonNode`, `RoomFeed` |
| Runtime governor | `governor/runtime_governor.py` | last accepted contract, psycho-safety series | an eleven-stage pipeline over one contract | `GovernorPipeline`, `RuntimeGovernor` |
| Governor service | `governor/main.py` | none of its own (a new governor per request), queued background tasks | process, audit, publish | `GovernorService` |
| Room stream gateway | `ws_gateway/main.py` | Redis stream per room, per-process cache of the last stream id | cognitive stream, state-sync stream (replay, edit, conflict, append), authorisation | `RoomStream` |
| AetherBus Extreme | `api_gateway/aetherbus_extreme.py` | bounded queue, worker, subscribers, tasks, semaphore, converged state | publish, dispatch, handlers, start, shutdown, update | `AetherBusExtreme` |
| Distributed gateway | `api_gateway/distributed_gateway.py` | connections, sessions, room subscriptions, queues, vector clocks, versions | admit, connect, session loop, broadcast, deliver | `DistributedGateway`, `VectorClock` |
| WS scaling | `api_gateway/ws_scaling.py` | bounded priority queue | push | `BackpressureQueue` |
| API gateway | `api_gateway/main.py`, `tachyon_bridge.py` | metrics, telemetry store, state-sync rooms | generate, emit, telemetry ingest and query, drift, state sync | `ApiGateway`, `StateSync` |
| Contract adapters | `tools/contracts/*_adapter.py` | none | contract to visual manifestation, to legacy parameters | `ContractAdapters` |
| Scholar agent | `api_gateway/scholar_agent.py` | none | prompt to contract | `ScholarAgent` |
| Intent interpreter | `am_intent_interpreter.py` | cache of packets | parse a request, ask the model | `Interpretation` |
| Formation book | `am_formation_retriever.py` | none | packet to runtime control | `FormationBook` |
| JetStream bridge | `aetherbus_tachyon_go/jetstream.go` | durable command stream and consumer, room-events stream | publish, consume and ack, ensure streams | - |
| Sharded hub | `ws_gateway/server.go`, `id.go`, `main.go` | shards of client and room maps | add, remove, broadcast, heartbeat, stop | - |
| Governor mirror | `governor.ts` | the governor's, in the browser | the same pipeline in TypeScript | - |
| Kernel | `kernel.ts`, `perceptual-feedback.ts` | void/field state, compiled field, feedback loop | light request, reset, compile, render, feedback | - |
| Surface | `clean-first-surface.js`, `input-event-policy.js` | socket, reconnect timer, submit state | connect, reconnect, submit, voice | - |
| Support tools | `deterministic_replay.py`, `variation_service.py`, `service-worker.js`, `tools/` | files and caches | batch processing | - |

How they interact: surface -> API gateway (HTTP) -> governor (HTTP) -> `visual.commands.*`
(JetStream) -> Tachyon nodes -> surface (WebSocket); rooms of the Python gateways share Redis
streams or a control plane; every Tachyon node also publishes what it fanned out to
`room.events.*`. Inside the API gateway the bus carries messages to handlers, the adapters
turn particle-control contracts into visual manifestations and legacy parameters, and the
scholar agent produces such contracts. The interpreter's packets are what the formation book
compiles.

What is hard here, and what makes each part correct:

* **Tachyon node** - three goroutines per client and `Run` meet in channels, a send queue
  and two maps. Correct: no send on a closed channel, maps that agree, an exact replay
  buffer, ordered feeds, slow clients evicted, room and shard isolation, no deadlock.
* **Runtime governor** - order of stages that rewrite each other's results. Correct: what the
  gate let through stays within its limits, whatever later stage touched it; states follow the
  transition table; drift is noticed although the series is trimmed; refusals leave no trace.
* **Governor service** - background tasks of several requests interleave, swallow errors and
  die with the process. Correct: a room gets each approved contract once and nothing else.
* **Room stream gateway** - read of a cached stream id, await, append. Correct: a stale edit
  always leaves a conflict event; replay is a contiguous slice.
* **AetherBus Extreme** - a worker, a semaphore, tasks that are cancelled in any state, a
  start that overlaps a shutdown. Correct: slots come back, live tasks are known, a shutdown
  leaves nothing running, handlers start in order and replicas converge.
* **Distributed gateway** - awaits between a check and the state it was about, queues at
  their limit, clocks of several nodes. Correct: slots and rate are accounted for, a session
  gets its room's events, once and in the order of the bus, state messages outlive others.
* **State-sync rooms** - a gather of sends under a lock, sockets that close meanwhile.
  Correct: members agree on the state, nobody's view goes back, the lock comes round.
* **API gateway** - a generation waits while metrics move on; floats clamped twice. Correct:
  what the gateway makes it also accepts, what it reports is what it told.
* **Interpreter and book** - a cache around a model call, which the code's stub never suspends at;
  tables with labels the other side does not know; times and flows that are products. Correct: answers
  fit their text and settle; what is compiled stays in its ranges.
* **Kernel and surface** - late results of asynchronous compiles, stale socket callbacks.
  Correct: a reset stays reset, one live socket at a time, one submit at a time.

The hazards, with lines and the properties aimed at them, are `PROJECT.json` "hazards".

## 2. Plan

In order of importance. "Done" modules are described in sections 3 to 11.

| # | Modules | What it shows | Proofs | State |
|---|---|---|---|---|
| 1 | `TachyonNode`, `RoomFeed` | safety and liveness of a node; the abstract feed it implements | all of its safety (evictions while they find room), the refinement | done |
| 2 | `GovernorPipeline`, `RuntimeGovernor`, `GovernorService` | limits, transitions, drift; delivery to rooms | all of its safety, for every payload | done |
| 3 | `RoomStream` | conflicts and replays over Redis streams | all of its properties | done |
| 4 | `AetherBusExtreme` | worker, semaphore, drops, shutdown, convergence, wake-ups | all of its safety | done |
| 5 | `DistributedGateway`, `BackpressureQueue`, `VectorClock` | slots, rate, subscriptions, order; queue at its limit; clocks | all of its properties | done |
| 6 | `StateSync` | agreement, monotone views, the lock | both safety properties | done |
| 7 | `ApiGateway`, `ContractAdapters`, `ScholarAgent` | the gateway accepts what it makes; metrics, telemetry and drift mean what they say | all of its properties | done |
| 8 | `Interpretation`, `FormationBook` | cache, tables and compiler | all of its properties | done |
| 9 | a bridge over `RoomFeed` | acks, redelivery and crashes of the JetStream consumer | - | to do |
| 10 | `SurfaceConnection`, `AetheriumKernel` | one live socket, one timer, one submit; resets and late compiles | - | to do |
| 11 | `GovernorMirror` | the two governors on the same payloads | - | to do |

Bounds: two or three actors, queues and buffers of one or two so that they overflow,
three to five messages, one crash. Pure operators are checked over boxes of inputs around
every threshold of the code.

| Module | Role |
|---|---|
| `TachyonNode`, `RoomFeed` | specification of a node and of what it promises |
| `GovernorPipeline` | the stages of the governor as operators |
| `RuntimeGovernor` | state machine: one governor, many requests (extends `GovernorPipeline`) |
| `GovernorService` | state machine: the service, its tasks and its rooms (extends `GovernorPipeline`) |
| `RoomStream` | state machine: sessions, gateway processes, Redis streams |
| `AetherBusExtreme` | state machine: publishers, worker, handlers, start and shutdown |
| `VectorClock`, `BackpressureQueue` | operators of the clocks and of both copies of the queue |
| `DistributedGateway` | state machine: gateway nodes over one bus (extends the two above) |
| `StateSync` | state machine: one state-sync room, its handlers, lock and sends |
| `ContractAdapters`, `ScholarAgent` | operators: both adapters, the scholar's table |
| `ApiGateway` | state machine: generation, submission, telemetry (extends `ContractAdapters`) |
| `FormationBook` | operators: the book, its lookup and its adaptations |
| `Interpretation` | state machine: the interpreter and its cache (extends `FormationBook`) |
| `*Proofs` | TLAPS proofs about the module of that name; `GovernorProofs` about the three of the governor, `AetherBusProofs` about `AetherBusExtreme` |
| `MC*` | TLC instances |

Operators whose comment starts with "Slip:" are plausible mistakes in the definition that
follows them; nothing uses them but the mutants of `PROJECT.json`, each of which must break
the property it names.

The properties of a run are often conjunctions of named parts, each stated with a comment of
its own in the module: `NodeIsSound` is `TypeOK`, `RegistryConsistent`, `RoomOnOneShard` and
`RunNeverPanics`; `LogsAgree` is `HistoryIsLogSuffix` and `BusMatchesLog`; `FeedsAreOrdered` is
`FeedIsOwnRoomsNews` and `LiveOrder`; and so on.

## 3. Tachyon node

| Code | `TachyonNode` |
|---|---|
| `s.clients`, `s.rooms` | `clients` (ids), `rooms` (room -> ids) |
| `s.register`, `s.unregister`, `s.broadcast` | sequences of the same names, bounded by the buffer constants; a message is its room |
| `s.roomVersions`, `s.roomHistory` | the same; an event is its version |
| `client.send` | `queued` (everything ever queued), `taken` (how many the write pump received), `closed` |
| position of the HTTP handler | `handler`: new, register, fetch, replay, done, panicked |
| `readPump`, `writePump` | `reader`, `writer`: off, on, gone; `connOpen` is the socket |
| `Run` between two selects | `current` and `targets`: the message being fanned out and the clients left; `AtSelect` when idle |
| JetStream room-events stream | `published` |

One action is one critical section or one channel operation of one goroutine. A step that
only reads immutable or goroutine-local data is merged with its neighbour: sticky assignment
and resume plan are one action because neither touches what the other reads. A panic of
`Run` is recorded in `runPanicked`; a panic of a handler leaves the handler in "panicked",
as `net/http` recovers it, the connection stays open and the pumps never start.

| Run | Instance | What it shows |
|---|---|---|
| `node` | 2 clients of one session, 2 rooms on 2 shards, 3 messages per room at most, queues and history of 2 | `NodeIsSound`, `LogsAgree`, `FeedsAreOrdered`, `LossLeadsToEviction`, `RemovalIsFinal` and the refinement of `RoomFeed`, in 3.5 million states |
| `live` | 1 room, every channel of capacity 1, a bus that always fails | liveness under `FairSpec`: `EveryMessageRecorded`, `LeaversAreRemoved`, `RemovedClientIsDisconnected` |
| `replay_gap` | 1 room, history of 4 | a documented promise the code does not keep (section 12) |

Bounds and why they suffice. Two clients are needed for one to be evicted while another is
served and for symmetric races; a third adds no new pair of interacting goroutines. Two rooms
on two shards with one session let a session move between shards. Histories and queues of
two, or of one in `live`, overflow within the message bound, so trimming, replay truncation,
dropped sends and evictions all occur. `UnregisterBuffer = 4` in `node` has room for every
entry its messages and clients can produce: `LossLeadsToEviction` holds while the channel has
room; with a smaller buffer it does not (section 12). `MaxVersion` bounds the messages
accepted for a room.

Fairness (`FairSpec`). Go runs every runnable goroutine: weak fairness for operations that
stay enabled. `select` chooses at random among ready cases and blocked senders are queued
first-in first-out: strong fairness for `Run`'s three cases and for the blocking sends. No
fairness for peers: accepting, sending, leaving and failing are never forced. Only an
operation on a connection that is already closed is assumed to fail.

Deadlock checking is off: when nobody connects or sends any more, the node rests.

## 4. Governor

`process()` runs to its end without yielding, so a request is one action of
`RuntimeGovernor`; the stages are operators of `GovernorPipeline`, one for each method and in
the code's order:

| Code | `GovernorPipeline` |
|---|---|
| `_validate_envelope` | `wellFormed` of the payload; `RejectEnvelope` |
| `_apply_transition_rules`, `_apply_profile_map` | `ApplyTransitionRules`, `ApplyProfileMap`; together `Normalise` |
| `_apply_clamps` | `ClampRaises` (a value `float()` refuses), `ApplyClamps` |
| `_apply_psycho_safety_gate` | `LimitIntensity`, `LimitFlashes`, `RecordSample`, `DetectGradualDrift`, `Contain` |
| schema stage | `Validated`: `Replaced` payloads become `SafeContract` |
| `_apply_policy_rules` | `PolicyBlocks`, `ReserveAppearance`, `ScholarGate` |
| `_apply_capability_gates` | `ForceState`, `LowPower`, `LowSensory`, `NoFlicker`, `SensorGate` |
| `last_accepted_contract`, `psycho_safety_series` | `last`, `series` of `RuntimeGovernor` |

Abstractions. Intensities are integers in hundredths and cadences in hundredths of a hertz, as the
tables and limits of the code have two decimals. A contract keeps the fields the rules
compare: state, shape, palette mode, glow, flicker, density, velocity, cadence, whether too many uniforms precede
the cadence, and whether a scholar summary is there and warns of a danger. Trail, bloom,
noise, turbulence, colours, monochrome and the attractor are capped the same way, summary
truncation and the telemetry store have no effect on a decision; they are left out. The
fallback stage only fills fields the model does not keep. `Cap(w, g, f, v)` with 100 means no
cap. `emittedAt` may be absent, ahead of or behind the clock. A JSON schema is data: whether
a payload conforms is an input. `runtime_governor.py` at the top of the repository is an older
copy of `governor/runtime_governor.py` that differs in two lines; it is not modelled apart.

`GovernorService` follows a request through `process_contract` (a new governor, hence no last
state and a series of one sample) and its two background tasks, in order: `PublishAuditLog`,
then for an open gate `PublishVisualCommand`. Tasks of different requests interleave, Kafka
and NATS may fail, and a restart loses queued tasks. Fairness is that of the event loop: a
queued task is run. Nobody has to send a request.

| Run | Instance | What it shows |
|---|---|---|
| `envelope` | one request; every state, hints below, at and above each limit, unreadable scalars, cadences below, at and over the flash limits, all accommodations, overrides, tiers, payloads the schema refuses | `ApprovedIsSafe` (limits, flashes, and the schema stage's contract over the limit on glow), `ContextIsRespected` (accommodations, reserved looks, sensing), and `ApprovalIsStable`: what was accepted is accepted unchanged when asked again |
| `session` | 4 requests, 3 retained samples, 4 clock values, payloads on a late clock; 281,000 states | `SessionIsLegal` (transitions follow the table, refusals leave no trace), `SeriesIsSound` (a steady rise is contained although the series is trimmed) |
| `service` | 2 requests, 2 rooms, failing Kafka and NATS, 1 crash | `ServiceIsSound` (rooms get accepted contracts only and once), `TasksComplete` |

Bounds and why they suffice. A request depends on earlier ones through `last` and `series`
only; `envelope` therefore takes one request from every previous state (the context may name
one) and `session` takes as many requests as fill a series of three samples and trim it once.
Drift needs three samples inside the drift window: `MaxPoints = 3` is the smallest series it
can be seen in, `SeriesWindow = 3` and `DriftWindow = 2` separate the two windows.
`MaxRequests` and `MaxTime` bound the counters. Deadlock checking is off: after the last
request a session rests.

The schema stage comes after the gate, and the contract it puts in place of one that does not conform is
accepted. `ApprovedIsSafe` covers it like any other: flicker, velocity and flashes are within their limits,
its glow is not. `GlowLimit` is 0.72, or 0.90 for that contract, and `FallbackStaysBright` says that it
stays at 0.90 unless the person asked for low power or low sensory mode. So do the accommodations, the looks
and the sensing of `ContextIsRespected` and what `ServiceIsSound` says of a room. Only what that contract has
nothing to do with leaves it out (`Judged`): it is an error whatever the table says of the transition, it is not what
the request asked for, and it is not dimmed on account of drift.

## 5. Room stream gateway

| Code | `RoomStream` |
|---|---|
| Redis stream `state-sync:<room>` | `stream` (every entry ever added), `trimmed` (how many of the oldest are gone); an id is a position |
| `ROOM_LAST_STREAM_ID` | `latest`, one per process |
| a session between two awaits | `phase`: idle, waiting to add the conflict event or the event (`conflict`, `append`), waiting for Redis's answer (`conflictSent`, `appendSent`) |
| locals of `state_sync_stream` | `work` |
| the last message sent | `reply` |

One action is what runs between two awaits. An `XADD` is two: Redis executes it (`Store`) and
its answer resumes the handler (`Stored`); it may fail before or after the entry was added
(`Unanswered`), and the handler then goes on with no id, as `_append_room_event` swallows the
exception. Accepting a socket and reading the replay are one action, as nothing is read in between.
Trimming is approximate: it may or may not drop what is beyond the maximum. A restart empties
the cache and ends the sessions. `cursor`, `missed`, `keeper` and the field `stale` of an
edit are history: what clients saw in replays, what a replay jumped over, whether a room was
served by one undisturbed process, and whether an edit was stale when it was received.

| Run | Instance | What it shows |
|---|---|---|
| `room_stream` | 2 clients, 2 processes, both endpoints on one room, 4 entries, replay batches of 1, failing Redis, restarts; 2.2 million states | `StreamsAreSound` (conflict events name two entries of their room, answers what was stored for that edit), `ResumeNeverSkips`, `OrderlyRoomsRecordConflicts` (an undisturbed room records exactly the stale edits) |

Bounds and why they suffice. Rooms share no state but the socket, so one suffices; it is
"cognitive", which both endpoints write to. Two sessions overlap on one process or on two. A
conflict needs two older entries and adds two: four entries are the least in which it occurs
with a base that exists. A process can always restart, so the check for deadlock says nothing
here.

## 6. In-process bus

| Code (`aetherbus_extreme.py`) | `AetherBusExtreme` |
|---|---|
| `_queue`, its blocked `put()` calls | `accepted` (every message ever put in), `taken`, `putters`, `publishing` |
| `_is_running`, `_worker_task` | `running`, `starts` |
| `_subscribers` | `subscribers` |
| tasks of `_safe_execute`, `_dispatch_semaphore` | `tasks` (created, waiting, granted, revoked, running, cancelling, and how it ended), `slots` |
| `_background_tasks`, and which set object it is | `background`, `setNo` |
| `shutdown()` between its awaits | `stopping`, `awaited` |
| `StateConvergenceProcessor._state` of a handler | `state` |

One action is what the event loop runs between two suspensions; the worker takes every
message it finds in one step, as neither `get()` on a queue that is not empty nor `_dispatch`
suspends. `asyncio.Queue`, `Semaphore` and task cancellation are modelled from the way they
are documented to behave: a woken `put()` looks again, slots are granted first come first
served, a task cancelled before its first step never runs its body.

| Run | Instance | What it shows |
|---|---|---|
| `aether_bus` | 2 publishers of 3 messages (one faulty, one without a version), 2 handlers (one subscribes late), 2 slots, a queue of 2, a backpressure limit of 1 or 3, 2 starts | `TasksAccounted` (slots come back, live tasks are held, none is left after a shutdown), `NobodyOverlooked`, `HandlersStartInOrder`, `ReplicasConverge`, and under `Fairness` `BusDrains` |

Bounds: two handlers times three messages on two slots make tasks wait, be granted and be
revoked; the limit 1 drops, the limit 3 lets publishers block in the queue of 2; two starts
let one overlap a shutdown. `NobodyOverlooked` says that while publishers wait in `put()`, each free place is
one a woken publisher is on its way to; that no slot is free beside a sleeping task unless a granted
task is to pass its own on; and that a bus that is not at rest has somebody who can go on. Three
messages make tasks sleep behind granted ones, but at most one publisher; crowds of publishers,
one overtaken after it was woken, are covered by the proof. Fairness is that of the event loop, plus that handlers return,
which is an assumption on the subscribers. Deadlock checking is off: a drained bus rests.

What follows from the code and shapes the properties: backpressure looks at the queue alone,
which the worker empties into unbounded tasks; tasks done while `shutdown()` waits are
discarded from the set object it is about to replace, hence `LiveTasksAreHeld` and not
equality; after a shutdown the queue still accepts, and blocks once it is full; updates
without a version are applied in the order in which handlers finish, hence
`ReplicasConverge` speaks of versioned messages.

## 7. Distributed gateway

| Code (`distributed_gateway.py`) | `DistributedGateway` |
|---|---|
| `Gatekeeper` of a node | `gate`: connections, tokens in ticks, time of the last refill |
| `_active_connections` | `active` (node -> user -> session) |
| `_room_subscriptions`, the bus's handler sets | `rooms`, `handlers` |
| a connection's context, queue and loop | `sessions`: phase, since, queue, sent, dropped |
| room versions of the control plane | `versions` |
| calls of `broadcast_to_room` | `casts` (version taken), `log` (published), `pending` (handler tasks to run) |

`VectorClock` has increment, merge and comparison; `BackpressureQueue` has both copies of the
queue, the deque that is rotated (`PushDeque`) and the list of `ws_scaling.py` (`PushList`).
Awaits are taken where the control plane or the bus would make them wait: a session between
its check of `_room_subscriptions` and the answer of `subscribe`, a broadcast between its
version and its publication. A call of `subscribe` may fail.

| Run | Instance | What it shows |
|---|---|---|
| `dist_gateway` | 2 nodes, 2 rooms, 2 users, 3 sessions, 3 broadcasts of each priority from both nodes, 2 connections and tokens, queues of 2, 3 clock values | `GatekeeperAccounts` (slots, rate), `RoomOrderKept`, `RoomReachesSession`, `ClocksFollowVersions`, `QueuesAreSound` (the two queues agree), `StateOutlivesTheRest` |

Bounds: three sessions let one user connect twice while another holds the second slot; three
broadcasts overflow a queue of two with every priority; two tokens are used up and one is
earned. Deadlock checking is off: when all was sent and the clock stops, the gateway rests.

What follows from the code and shapes the properties: a failing `subscribe` leaks the slot
and the registration of its session (phase "lost"), as the exception leaves before the try
statement; the end of an old session removes the registration of a newer one of the same
user, hence `Alone`; nothing refreshes `last_heartbeat`, so every session ends after the
zombie timeout; `unsubscribe` is never called and `last_ack_version` never used; the queue is
documented as last-in first-out and pops first-in first-out; a clock names its origin node
alone, so broadcasts of two nodes are always concurrent, whatever their versions say, which is
what `ClocksFollowVersions` states; `get_vector_clock` hands out the dictionary of the header itself.

## 8. State-sync rooms

| Code (`api_gateway/main.py`) | `StateSync` |
|---|---|
| `room.shared_state`, `room.user_state` | `shared` (key -> number of the patch that set it), `applied`; `told` is history |
| `room.clients`, `room.lock` | `clients`, `lock`, `waiters` |
| a handler of `state_sync` between two awaits | `phase` |
| sends begun and not over | `sends`, in order; `seen` is what arrived last |
| the socket | `socket` |

A patch begins a send to every client at once and waits for all (`asyncio.gather`); the first
that fails raises in the handler that made the patch while the others go on. A failing send
raises `WebSocketDisconnect`, which the handler catches, or something else, which ends it:
both are possible, as that depends on the server below. `user_state` is merged like the shared
state and is as room-wide: a key is one of either. `apply_delta` raises for a delta or a user delta
that is no mapping, after it set none, some or all of the keys: `PatchRaises`, which any patch may
end in. A message that is no JSON or no object ends the handler as well (`Unreadable`).

| Run | Instance | What it shows |
|---|---|---|
| `state_sync` | 3 clients, one with a patch of two keys and one of one, one with one patch, one with none; sockets that close and handlers that raise at any time; 379,000 states | `RoomIsWhole` (members agree up to what was left unsent, who left is out), `NothingUndone`, and under `Fairness` `LockComesRound` |

Bounds: a patch needs somebody whose send fails and somebody whose send goes on beside the
one that made it; three patches let two overlap in the sends still under way. Fairness: a
handler that can go on does, and a send to an open socket arrives; a peer that keeps its
socket open and never reads would hold up the room, as the code has no timeout there.
Deadlock checking is off: a room with nothing to send rests.

What follows from the code: a patch that raises half-applied has changed the state of the room, and
its members keep the old one until the next patch is sent, which carries the whole state: `MembersAgree`
is agreement up to the keys changed after `told`, the last patch that was sent, and no closer agreement
holds. A send to a client that is gone costs the *sender* its place in
the room, or, where the exception is not `WebSocketDisconnect`, its connection, and leaves it
in the list as a ghost on which later patches fail in turn; `broadcast_json`, which is tested and prunes
dead clients, is not used by the endpoint.

## 9. API gateway and adapters

| Code | `ApiGateway`, `ContractAdapters`, `ScholarAgent` |
|---|---|
| `METRICS` | `metrics` |
| `generate_text`, `invoke_generative_model` | `Generate`, `ModelAnswers`, `ModelFails`; `calls` |
| `_infer_intent_from_text` | `Energy`, `Valence`, `Category`, `MoodColour`, `InferredVisual` |
| `emit_cognitive_dsl`, `validate_dsl_response` | `Emit`, `WellFormed`, `PolicyAllows`; `told` |
| `TELEMETRY_TS_DB`, `ingest_telemetry`, `query_telemetry` | `tsdb`, `Ingest`, `Ingestion` (the loop over a batch), `Values`, `Ordered` (sorted), `P95`; `arrived` is history |
| `_compute_drift_metrics` | `Deltas`, `Incoherence`, `Divergence`, `Instability` |
| `to_visual_manifestation`, `to_legacy_visual_parameters` | `VisualManifestation`, `LegacyParameters` |
| `ScholarAgent.handle_request` | `HandleRequest` |

Scalars are in millionths, so the code's decimals are exact; rounding is where the code
truncates or rounds. A text is its length and its counts of marks and mood words (`TextAssumption`). `sorted` is
the function from a rank to the value that has it (`Ordered`), as the prover has no definition of
`SortSeq`; values of points are numbers, NaN, which has no place in an order, left out. The two locks are
held only over code that does not suspend.

| Run | Instance | What it shows |
|---|---|---|
| `api_gateway` | 2 generations over 4 models and 5 texts, 7 contracts (one from the scholar, one with other controls of its own), a visual made by hand, 3 submissions or batches, a batch of 21 points, series of 22 | `OwnOutputIsEmittable`, `AdaptersAgree` (what the two adapters make of one contract), `MeasuresTell` (metrics, drift), `TelemetryTells` (series, quantile) |

Bounds: 21 points are the least at which the p95 is not the largest value, 22 retained points
are overrun by the next batch; contracts have absent and null colours, and scalars in, below and above their range, not a
number and not convertible.

What follows from the code and shapes the properties: an unknown model or a missing key is
raised as 400 or 501 inside the try statement and comes out as 500 (`main.py:400`, `651`); the
caps of `FirmaValidator`'s tiers are used nowhere, while generated visuals are of tier 2 with
more particles than its cap; "dsl_schema_compliance" counts refusals by policy only; the adapter always sets
`emergency_override` to false, so an adapted crimson is refused; an absent primary colour becomes white and is
accepted, an absent secondary becomes null and is refused, as every null colour is (`Missing` and `Null`
are two constants for that); a density that is not a number becomes the maximum;
series are trimmed by arrival, so a late backfill pushes newer points out; the store keeps any
number of metrics; `to_visual_manifestation` uses the controls a contract brings along and
`to_legacy_visual_parameters` looks at none, so the two adapters show one contract in two ways when these
were not compiled from it: a scholar's shows 8000 particles in one and 30000 in the other, and a story a
nebula cloud and a ring (`ScholarsDiffer`); its palette follows the request's tone and not the story's, and it never
conforms to the root schema; the block that would add to the export history is unreachable
(`main.py:755-768`); of the two definitions of `_is_blocked_proxy_target` the second holds.

## 10. Interpretation

| Code | `Interpretation`, `FormationBook` |
|---|---|
| `IntentInterpreter.cache` | `cache` (text -> packet) |
| `parse_user_request` up to and after the model's answer | `ParseUserRequest`, `ModelAnswers`, `ModelFails`; `calls` |
| `_build_control_packet` and its tables | `ControlPacket`, `ClassifyIntent`, `SelectMorphology`, `SelectMotion`, `SelectOptics` |
| `_call_llm_for_intent` | `StubAnalysis`, or any of `Analyses` as a model in its place would answer |
| `FormationRetrievalSystem` | `Book`, `Canonical`, `Resolve`, `AdaptField`, `AdaptTiming`, `RenderMode`, `RuntimeControl` |

| Run | Instance | What it shows |
|---|---|---|
| `interpretation` | 3 overlapping requests for 2 texts, 5 analyses beside the stub's, 6 packets handed to the compiler | `AnswersAreSound` (packets are of the tables, fit their text, and settle), `CompiledIsDrawable`, `FallingIsAsked` |

Bounds: an answer is overwritten by a request that was already waiting, and seen by a third:
three requests, two texts to mix up. The analyses name every archetype, goal and speed and
ambiguous forms. `hash(user_text)`, the cache's key, is taken to tell texts apart. Packets handed to
the compiler by a caller are anything in the ranges of `lcl_schema.json:66-110` (`MeetsSchema`): tempos of 0.1 to
4 Hz, times from 50 ms; the instance has the shortest and slowest motion and the fastest. The compiler itself
checks nothing, and divides by zero for a tempo of 0. Deadlock checking is off: answered requests rest.

The stub in `_call_llm_for_intent` answers at once, so that requests do not overlap in the code as it stands;
the run lets them, as they would with a model in its place. Decimals are exact here; a product of floats may
fall just short of a whole number, and `int()` then takes a millisecond more off than the model does.

What follows from the code: the archetypes "wave" and "spiral_convergence" of the interpreter
are unknown to the book, which stabilises them; the interpreter's reference is never an id of
the book; the key "spiral" comes before "spiral of contemplation" and shadows it; times are
multiplied by the tempo, so slow motions come out shortest, down to a fifth of what was asked (50 ms become 10);
the flow is twice the tempo, so the interpreter's fast tempo gives 2.0 and the schema's fastest 8.0, where
`lcl_schema.json:190` caps `flow_magnitude` at 1 (it is a share exactly up to 0.5 Hz: `Flows`;
`am_control_handler.js:190` clamps what it is given); the pulse is the tempo's reciprocal, 5 Hz for slow and up to 10 in the schema's range; an unknown speed has moderate times and
the fastest tempo; optics are looked up by the whole tone; goal and tone of one analysis may disagree; packets
lack the `particle_control` that `lcl_schema.json` requires.

## 11. Proofs

Eight modules, checked by TLAPS for all values of the constants that satisfy the named
assumptions of the modules they extend. Every invariant the passing runs check is proved, and every action
property, one of them (`LossEvicts`) under a hypothesis.

**`TachyonNodeProofs`** proves, for any clients, sessions, rooms and shards and any positive
buffer sizes, everything safe the `node` run checks. `LossEvicts` has a hypothesis, since
`broadcastToRoom` forgets an eviction that finds the unregister channel full:
`[][EvictionFindsRoom]_vars`, that no step does so. It holds of every step of `node`, where the
channel has four places. `IInv` is the inductive invariant. The properties alone are not inductive:

* `RunNeverPanics` needs `FanoutInv` (targets are members of the current room),
  `RegistryConsistent` and `MembershipInv` (members have open channels, a client is
  registered once);
* `MembershipInv` needs the position of the handler (`HandlerInv`), since an id enters the
  register channel exactly when its handler leaves "register";
* `LiveOrder` needs `NewestPending`: until a target has been sent the current event, that
  event is newer than all it was sent; which needs `FeedIsOwnRoomsNews` when the next
  message is taken;
* `FeedIsOwnRoomsNews` needs `ReplayInv`, which needs `HistoryIsLogSuffix` when the replay
  is read;
* `BusMatchesLog` needs that the current event is the newest of its room and not yet published;
* `LossLeadsToEviction` needs `NothingSkipped`: unless it is on its way out, what a client was
  queued and the event still to be sent to it are all versions of its room since the first.

Each part has its own step lemma; `RecordKeepsSuffix`, `ElemsTail`, `AppendAscending` and
`QueueGrowth` carry the facts about sequences. `NodeImplementsRoomFeed` maps each step of
the node to a step or a stutter of `RoomFeed` under the mapping `Audience`.

**`GovernorProofs`** has three parts. The first proves facts about the stages, for every
payload, context, last state and set of names (the runs take a few). `Below(g, f, v)` is the set of
contracts with non-negative intensities up to three bounds. One lemma per stage says which bounds it
establishes or keeps (`LimitBounds`, `GateBounds`, `DressFacts`, ...), so that what the gate
established, and what the schema stage's contract starts from (`SafeContractBounds`), is carried through
every later stage: `FinalWithinLimits`, `FinalFlashes`, and the
lemmas about accommodations, reserved looks, sensing and transitions. `FinalFallback` shows that the 0.90 of
that contract is met, not only a bound.

The second lifts them to sessions of any length. The invariant is `DecisionType /\ Explained`: an
accepted contract is `Final` of the payload and context it answers, from the state it was judged
from, for one of the two verdicts on drift. It is inductive by itself because a stage's guarantee
does not depend on the series; each limit follows from it and one theorem of the first part. That a
refusal leaves no trace is proved of every step.

* `ApprovalsAreStable` goes through the stages once more, with what they make of their own result:
  what left the pipeline is `Settled` (a fixed point of the limits, the policy and the gates), and its
  transition was allowed.
* `DriftStaysContained` is not inductive, as the series was trimmed by count and by age at every
  request. `SeriesInv` adds `SeriesIsLatest`: as long as samples come in order, the series is the
  end of all that was ever asked, and what it lacks is older than its window or more than it may
  hold. Hence the samples of the drift window are in the series whenever they fit, and a rise
  among them is one `DetectGradualDrift` finds (`RiseIsDetected`). `Since`, the code's filter, is the
  sequence of the samples not older than a time, enumerated by their ranks; `EveryRankIsTaken` is
  what makes that a sequence without gaps.

The third takes the limits to the rooms. `RoomsGetApprovedContracts` is not inductive: that a
request is published once needs `Tasks` (whoever is to be published was not yet), and that what is
published is within the limits needs `AnswersJudged`, which is where `FinalWithinLimits` comes in.

**`AetherBusProofs`** proves the safety properties of the bus for any publishers, scripts,
handlers, queue and backpressure limits, slots and starts. It assumes that a message is published
once and has at most one version (`EnvelopeAssumption`), as an envelope has an id and a clock of its
own, and that there are finitely many handlers; there may be any
number of publishers. `BusInv` has eight parts:

* `HandlersStartInOrder` follows from `StartedInOrder` (a task that has not come as far as another
  one was created after it, which is what first come, first served slots give) and
  `DispatchedInOrder` (tasks follow the messages taken); the latter needs `QueueInv`: what was
  accepted is what the publishers are done with, each message once;
* `SlotsReturned` counts tasks, so the lemmas `OneMore`, `OneLess` and `OneForOne` say how each step
  changes who holds a slot, cancellation in each of a task's states included;
* `ShutdownQuiesces`, a part of `TasksAccounted`, needs `StopInv`: a shutdown that nobody started over waits for every task there
  still is;
* `ReplicasConverge` needs `NewestApplied`: a state made of versioned updates alone is the newest of
  them. It speaks of updates with a version of their own each; two updates of one version leave the
  state of whichever handler finished first.

`NobodyOverlooked` is what `BusDrains` rests on short of fairness, and two invariants beside `BusInv` prove it.
`PlacesInv`: the free places never outnumber the publishers awake while others sleep. Taking a batch
frees `QueueLen` places and wakes as many publishers from the front (`WorkerKeepsPlaces`); a woken one
puts its message in or, its place taken, sleeps again in a queue that is full (`PublisherKeepsPlaces`). That the publishers awake are finitely many is part of the
invariant. `GrantsInv`: a slot is free beside a sleeping task only while some task was
granted one. `CancelKeepsGrants` is the case that could lose a wake-up: a task revoked between its grant
and its start stays granted for the others until it has passed the slot on (`EndHolderKeepsGrants`).

**`RoomStreamProofs`** proves all three properties of the room stream for any processes,
sessions, rooms and limits. Its invariant has `Types`, `Bounds` (nobody remembers an id beyond the stream),
`WorkInv` (what an edit under work names is in the stream: the winner it lost to, the conflict
event it waits behind), `ReplyInv` (an answer stays right while others append),
`OrderInv` and `NothingMissed`. `OrderInv` is what makes conflict marks exact: while a room has one keeper, at most one
session works on it, and that session's view of the newest entry is either current (`InOrder`)
or the entry just stored. The three facts about logs that grow (`LogGrowth`, `LogsKeep`, and
a marked log staying marked) are lemmas.

**`StateSyncProofs`** proves the two safety properties of a state-sync room for any clients, keys
and patches. `MembersAgree` and `NothingUndone` both follow from `Ascending`: the states under way to a client
start no earlier than what it has seen, never go back, and end with a `Current` state while it is
in the list: one that lacks only keys changed after the last patch that was sent, which is all a patch
that raises can change (`PatchRaisesPreserves`). That needs `Numbered` (a patch is newer than every key and than
`told`) and `Listed` (nothing is under way to
who has not entered); `Snapshots` and `Queued` are needed to know whose wait a failing send
ends, and that it was not already waiting for the lock.

**`InterpretationProofs`** proves every property of the run for any number of overlapping requests,
any texts and any answers. `AnswersSettle` is not inductive: the invariant adds who wrote what the cache
holds, and that nobody asks for a text who came after it was first answered. `FirstMatchIsKnown` says
what a lookup in a table returns, once for all tables. `CompiledStaysDrawable` needs no invariant but the types: every
packet of the tables, and by assumption every packet handed over, `MeetsSchema`, and `TimesSpan`,
`FlowsAreBounded` and `PulsesAreBounded` bound the products for all tempos in that range.

**`DistributedGatewayProofs`** proves the six properties of the distributed gateway for any
nodes, sessions, broadcasts and queue lengths; it assumes that entrances and calls name nodes, users and
rooms there are (`GatewayAssumption`). `GatekeeperAccounts` is inductive once the tokens are
known to fit the bucket. `RoomOrderKept` is not: the invariant adds that a room is subscribed once per
node, that what waits at a node is in the order of the log, and that all a session received comes
before all that waits (`Orders`); `PushKeepsStream` carries it through a full queue, which keeps an
increasing map of positions into the longer one (`KeepsOrder`). `RotationsRemove` shows that the three deque operations
take out one message and leave the rest in place, whatever the length, and `DropFacts` that it is a
state message only if all are. Clocks follow from versions being taken once. `RoomReachesSession` counts what
a session misses. Its invariant `ReachInv` adds `Registered`: the bus has a handler wherever a node says
it subscribed, and a running session that is its user's only one is the registered one. Then one lemma per
step: publishing hands a message to every node of the room, delivering hands it to the queue, and a push
costs one message exactly where it counts as dropped (`PushLoses`).

**`ApiGatewayProofs`** proves the four properties of the HTTP side for any calls, models, texts,
contracts and number of submissions. `GatewayInv` says that a visual that was submitted is never
another one, so that what a client was told is `Verdict` of the visual it has (`AnswersOK`), that a
call's visual and intent are inferred from one text (`CallsOK`), and that the counters add up to it all
(`MetricsOK`). The rest is about values: `InferredIsAllowed` and `AdaptedIsAllowed` (whatever the
scalars are), `DriftOfTexts`, `ParticlesRoundTrip`, `NearestCount`. One fact came out of the proofs, and the
properties now say it: compliance is rounded to hundredths of a percent, so from 20000 submissions on
one refusal leaves it whole (`ComplianceShows`). `AdaptersAlwaysAgree` assumes nothing of the controls a
contract brings along but that they name a count; `ScholarsDiffer` is what follows for the scholar's.

`TelemetryAlwaysTells` is about the store. `TelemetryInv` says that a series is `Trimmed` of all that
arrived for its metric. A batch is a loop, and that the recursive function `Ingestion` has the value its
equation says at every point of the batch is an induction over the batch, which the library's
theorems do not give here: `LeastNatural` (a set of naturals that is not empty has a least element)
replaces it by a least counterexample (`IngestionIs`, `IngestionKeeps`). `TrimmedAgain` is why trimming
after every point is trimming once at the end. The quantile is counted: `LargestIs` and `OrderedIs` show that
the value at a rank exists, has fewer smaller values than the rank and at least as many not larger, and
`P95IndexIs` that the code's index is one of them and splits them at 95 of 100, for any number of rows.

Only model-checked: liveness (`BusDrains`, `LockComesRound`, `TasksComplete`, those of `live`), for which
the proof system has no support; and that evictions find room in the instance of `node`, the
hypothesis of `LossEvicts`, which a full channel does not satisfy.

## 12. Findings

`replay_gap` (`aetherbus_tachyon_go/server.go:269`) is a promise of a document that a run
refutes: an event recorded after the replay is read and before `Run` serves the registration is
delivered by neither, while `docs/ops/websocket_scaling_1m_blueprint.md` says the server replays
missing deltas.

Other disagreements between the code and what is said of it, met while modelling:

* a client evicted during its replay panics its handler and keeps an open, dead connection
  (`aetherbus_tachyon_go/server.go:272`);
* the contract the schema stage falls back to is put in place after the safety gate and is accepted
  with a glow of 0.90 over its limit of 0.72 (`governor/runtime_governor.py:531`; `FallbackStaysBright`, which
  `envelope` checks);
* every request is judged from no earlier state, so two accepted requests can show a room a
  transition the table forbids (`governor/main.py:100`);
* the base of an edit is compared with what this process appended last, so an edit made on an
  older entry leaves no conflict event when another process, or a session still waiting for
  Redis, added the newer one (`ws_gateway/main.py:279`);
* the scholar writes `renderer_controls` of its own, with 8000 particles where its density stands for 30000
  (`api_gateway/scholar_agent.py:46-56`; `ScholarsDiffer`), while `docs/03_INTERFACES.md:90` says that they MUST be produced by
  the adapter;
* the compiler's `flow_magnitude` exceeds the schema's 1 above half a hertz
  (`am_formation_retriever.py:253`, `lcl_schema.json:190`; `CompiledIsDrawable`);
* a patch of a state-sync room that raises half-applied changes the room's state and is sent to nobody
  (`api_gateway/main.py:350`).

Behaviour of the node and the governor which follows from the code and which their properties
are worded around (the other components' is in their sections):

* a resumed Tachyon client is registered before its replay is queued (`server.go:219-221`):
  live events can precede and repeat replayed ones, hence `LiveOrder` speaks of clients that
  do not resume;
* an eviction that finds the unregister channel full is dropped (`server.go:391-394`), hence
  the large buffer of `node`;
* `force_state` is applied after the transition and policy stages looked at the state
  (`runtime_governor.py:926`), hence `NoForcing` in the properties about transitions, sensing and looks;
* an unlisted previous state lets any state in and may itself stay (`runtime_governor.py:604`);
* a scalar `float()` refuses makes `_clamp` raise (`runtime_governor.py:396`): the request
  ends in an exception (outcome "raised") instead of a decision;
* hints above an accepted state's profile survive (`runtime_governor.py:626`);
* an audit error does not keep a contract from its room (`governor/main.py:86`);
* a series of one sample never shows drift (`governor/main.py:100`).

## 13. What is not modelled

* **JetStream bridge.** What it adds to a node is the redelivery of the JetStream server, which is not
  in the repository; next on the plan, over `RoomFeed`.
* **Sharded hub.** The Go sources of `ws_gateway` do not compile as they stand (a method and the
  initialisation of a map are missing): a model would have to invent the missing parts.
* **Governor mirror, kernel, surface.** Browser code; the mirror repeats the pipeline of
  `GovernorPipeline`, the other two are on the plan.
* **Of the components modelled in part:** the bus's NATS manager, socket helpers and codec are
  thin uses of a library; the distributed gateway's shard router has no effect on the rest, and
  `ReconnectPlanner`, `RegionHomeProxy`, `AdaptiveFPS` and `SafetyEnforcer` are called by nothing in
  the system; of the API gateway the echo socket, the proxy fetch, voice and health keep no state.
* **No model planned:** the renderer and the geometry compilers (floating point and drawing),
  summaries and sources of the scholar (text), JSON schemas and deployment files (data), the service worker, command-line
  tools and benchmarks.

`PROJECT.json` "components" gives the reason for each.
