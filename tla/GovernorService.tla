--------------------------- MODULE GovernorService --------------------------
(***************************************************************************)
(* The governor service (governor/main.py): every request gets a governor  *)
(* of its own; once the response is sent, its background tasks write the   *)
(* audit record (Kafka) and publish the approved contract to the room      *)
(* (NATS), in that order. Tasks of different requests interleave, and both *)
(* swallow every error of the client they use.                             *)
(***************************************************************************)
EXTENDS GovernorPipeline

CONSTANTS
  Requests,             \* ids of requests
  Rooms,
  ServicePayloads, ServiceContexts,
  BusOutcomes,          \* what js.publish may answer
  AuditOutcomes,        \* what kp.produce may answer
  MaxCrashes            \* bound: restarts of the process

\* The service hands neither previous_state nor max_particle_density on.
ASSUME ServiceAssumption ==
  /\ ServicePayloads \subseteq Payload
  /\ ServiceContexts \subseteq {c \in Context : c.previous = Missing /\ c.maxDensity = Missing}
ASSUME OutcomeAssumption ==
  /\ BusOutcomes \subseteq {"ok", "error"} /\ BusOutcomes # {}
  /\ AuditOutcomes \subseteq {"ok", "error"} /\ AuditOutcomes # {}
  /\ MaxCrashes \in Nat

VARIABLES
  phase,       \* where a request is
  answer,      \* the answer its client got
  audited,     \* requests whose record reached governor-audit-log
  commands,    \* room -> requests published on visual.commands.global.<room>
  crashes

serviceVars == <<phase, answer, audited, commands, crashes>>

Phases == {"waiting", "audit", "publish", "done", "failed", "lost"}
NoAnswer == [outcome |-> "none"]

Answer ==
  [outcome : {"accepted", "blocked", "invalid"}, contract : Contract,
   payload : ServicePayloads, ctx : ServiceContexts, room : Rooms]

ServiceTypeOK ==
  /\ phase \in [Requests -> Phases]
  /\ answer \in [Requests -> {NoAnswer} \cup Answer]
  /\ audited \subseteq Requests
  /\ commands \in [Rooms -> Seq(Requests)]
  /\ crashes \in 0..MaxCrashes

ServiceInit ==
  /\ phase = [r \in Requests |-> "waiting"]
  /\ answer = [r \in Requests |-> NoAnswer]
  /\ audited = {} /\ crashes = 0
  /\ commands = [room \in Rooms |-> <<>>]

\* RuntimeGovernor().process: no last contract, and a series of this one sample.
FreshVerdict(payload, ctx) ==
  LET limited  == Limit(Normalise(payload, ctx, Missing), ctx)
      sample   == [ts |-> Or(payload.emittedAt, 0), cadence |-> SafeCadence(limited)]
      drifting == DetectGradualDrift(RecordSample(<<>>, sample), sample.ts)
  IN IF ~payload.wellFormed
       THEN [outcome |-> "invalid", contract |-> SafeContract]
     ELSE IF PolicyBlocks(Checked(payload, ctx, Missing, drifting), ctx)
       THEN [outcome |-> "blocked", contract |-> SafeContract]
     ELSE [outcome |-> "accepted", contract |-> Final(payload, ctx, Missing, drifting)]

\* An exception of process() is a 500 response: no task is queued.
Raises(payload, ctx) ==
  payload.wellFormed /\ ClampRaises(Normalise(payload, ctx, Missing))

ProcessContract(r, payload, ctx, room) ==
  /\ phase[r] = "waiting"
  /\ IF Raises(payload, ctx)
     THEN /\ phase' = [phase EXCEPT ![r] = "failed"]
          /\ UNCHANGED answer
     ELSE LET v == FreshVerdict(payload, ctx)
          IN /\ phase' = [phase EXCEPT ![r] = "audit"]
             /\ answer' = [answer EXCEPT ![r] =
                  [outcome |-> v.outcome, contract |-> v.contract,
                   payload |-> payload, ctx |-> ctx, room |-> room]]
  /\ UNCHANGED <<audited, commands, crashes>>

\* Slip: the publish task is queued for every request that got an answer.
PublishAuditLogAlways(r) ==
  /\ phase[r] = "audit"
  /\ \E outcome \in AuditOutcomes :
       audited' = IF outcome = "ok" THEN audited \cup {r} ELSE audited
  /\ phase' = [phase EXCEPT ![r] = "publish"]
  /\ UNCHANGED <<answer, commands, crashes>>

\* Slip: an audit error ends the request's tasks.
PublishAuditLogRaising(r) ==
  /\ phase[r] = "audit"
  /\ \E outcome \in AuditOutcomes :
       /\ audited' = IF outcome = "ok" THEN audited \cup {r} ELSE audited
       /\ phase' = [phase EXCEPT ![r] =
            IF outcome = "error" THEN "failed"
            ELSE IF answer[r].outcome = "accepted" THEN "publish" ELSE "done"]
  /\ UNCHANGED <<answer, commands, crashes>>

\* publish_audit_log: fire and forget; the second task exists only for an open gate.
PublishAuditLog(r) ==
  /\ phase[r] = "audit"
  /\ \E outcome \in AuditOutcomes :
       audited' = IF outcome = "ok" THEN audited \cup {r} ELSE audited
  /\ phase' = [phase EXCEPT ![r] =
                 IF answer[r].outcome = "accepted" THEN "publish" ELSE "done"]
  /\ UNCHANGED <<answer, commands, crashes>>

PublishVisualCommand(r) ==
  /\ phase[r] = "publish"
  /\ \E outcome \in BusOutcomes :
       commands' = IF outcome = "ok"
                   THEN [commands EXCEPT ![answer[r].room] = Append(@, r)]
                   ELSE commands
  /\ phase' = [phase EXCEPT ![r] = "done"]
  /\ UNCHANGED <<answer, audited, crashes>>

\* Background tasks live in the process only.
Crash ==
  /\ crashes < MaxCrashes /\ crashes' = crashes + 1
  /\ phase' = [r \in Requests |-> IF phase[r] \in {"audit", "publish"}
                                  THEN "lost" ELSE phase[r]]
  /\ UNCHANGED <<answer, audited, commands>>

Receive(r) ==
  \E payload \in ServicePayloads, ctx \in ServiceContexts, room \in Rooms :
    ProcessContract(r, payload, ctx, room)

ServiceNext == Crash \/ \E r \in Requests :
          Receive(r) \/ PublishAuditLog(r) \/ PublishVisualCommand(r)

ServiceSpec == ServiceInit /\ [][ServiceNext]_serviceVars

\* The event loop runs every queued task; nobody has to send a request.
FairServiceSpec ==
  ServiceSpec /\ \A r \in Requests : WF_serviceVars(PublishAuditLog(r) \/ PublishVisualCommand(r))

-----------------------------------------------------------------------------
(* What reaches a room was accepted, for that room, within the limits (the   *)
(* schema stage's own contract has a higher one for its glow), and reaches   *)
(* it once, whatever the tasks of other requests and the bus do.             *)
RoomsGetApprovedContracts ==
  \A room \in Rooms : \A i \in DOMAIN commands[room] :
    LET d == answer[commands[room][i]]
    IN /\ d.outcome = "accepted" /\ d.room = room
       /\ d.contract.flicker <= PsychoLimits.flicker
       /\ d.contract.glow <= GlowLimit(d.payload)
       /\ d.contract.velocity <= PsychoLimits.velocity
       /\ \A j \in DOMAIN commands[room] : commands[room][j] = commands[room][i] => i = j

(* Rooms and tasks agree with the answers: what is still to be published is  *)
(* accepted, and what was published belonged there.                          *)
ServiceIsSound == ServiceTypeOK /\ RoomsGetApprovedContracts

(* Every accepted request's tasks end: it is published, given up after an    *)
(* error of the bus, or lost in a crash.                                     *)
TasksComplete ==
  \A r \in Requests :
    answer[r] # NoAnswer ~> phase[r] \in {"done", "lost"}

=============================================================================
