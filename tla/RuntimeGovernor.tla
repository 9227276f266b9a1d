--------------------------- MODULE RuntimeGovernor --------------------------
(***************************************************************************)
(* A RuntimeGovernor object (governor/runtime_governor.py) and the         *)
(* requests it processes. process() runs to its end without yielding, so   *)
(* one request is one action. What is left between two requests is the     *)
(* last accepted state and the series of psycho-safety samples.            *)
(***************************************************************************)
EXTENDS GovernorPipeline

CONSTANTS
  Payloads, Contexts,   \* what requests may carry
  MaxRequests, MaxTime  \* bounds: requests processed, clock

ASSUME RequestAssumption ==
  /\ Payloads \subseteq Payload /\ Contexts \subseteq Context
  /\ MaxRequests \in Nat /\ MaxTime \in Nat

VARIABLES
  last,        \* state of last_accepted_contract
  series,      \* psycho_safety_series
  now,         \* wall clock
  decision,    \* the decision returned last, with the request it answers
  asked,       \* history: every sample ever recorded
  requests     \* how many were processed, for the bound

vars == <<last, series, now, decision, asked, requests>>

NoDecision == [outcome |-> "none"]

Decision ==
  [outcome : {"accepted", "blocked", "invalid"}, contract : Contract,
   payload : Payloads, ctx : Contexts, was : StateNames \cup {Missing}]
Failure == [outcome : {"raised"}, payload : Payloads, ctx : Contexts]

DecisionType ==
  /\ last \in StateNames \cup {Missing}
  /\ decision \in {NoDecision} \cup Decision \cup Failure

\* Types; in addition the series never outgrows its cap, nor the history the requests.
TypeOK ==
  /\ DecisionType
  /\ now \in 0..MaxTime
  /\ asked \in Seq(Sample) /\ Len(asked) <= requests
  /\ requests \in 0..MaxRequests
  /\ series \in Seq(Sample) /\ Len(series) <= MaxPoints

Init ==
  /\ last = Missing /\ series = <<>> /\ asked = <<>>
  /\ now = 0 /\ requests = 0 /\ decision = NoDecision

Timestamp(payload) == Or(payload.emittedAt, now)

Decided(outcome, contract, payload, ctx) ==
  [outcome |-> outcome, contract |-> contract, payload |-> payload, ctx |-> ctx,
   was |-> last]

\* _validate_envelope fails: a safe contract, behind a closed gate.
RejectEnvelope(payload, ctx) ==
  /\ ~payload.wellFormed
  /\ decision' = Decided("invalid", SafeContract, payload, ctx)
  /\ UNCHANGED <<last, series, asked>>

\* A scalar no stage can read stops process() before it recorded anything.
FailInClamp(payload, ctx) ==
  /\ payload.wellFormed
  /\ ClampRaises(Normalise(payload, ctx, last))
  /\ decision' = [outcome |-> "raised", payload |-> payload, ctx |-> ctx]
  /\ UNCHANGED <<last, series, asked>>

Judge(payload, ctx) ==
  LET limited  == Limit(Normalise(payload, ctx, last), ctx)
      sample   == [ts |-> Timestamp(payload), cadence |-> SafeCadence(limited)]
      recorded == RecordSample(series, sample)
      drifting == DetectGradualDrift(recorded, sample.ts)
      final    == Final(payload, ctx, last, drifting)
      blocked  == PolicyBlocks(Checked(payload, ctx, last, drifting), ctx)
  IN /\ series' = recorded
     /\ asked' = Append(asked, sample)
     /\ decision' = IF blocked THEN Decided("blocked", SafeContract, payload, ctx)
                    ELSE Decided("accepted", final, payload, ctx)
     /\ last' = IF blocked THEN last ELSE final.state

Process(payload, ctx) ==
  /\ requests < MaxRequests /\ requests' = requests + 1
  /\ \/ RejectEnvelope(payload, ctx)
     \/ FailInClamp(payload, ctx)
     \/ /\ payload.wellFormed
        /\ ~ClampRaises(Normalise(payload, ctx, last))
        /\ Judge(payload, ctx)
  /\ UNCHANGED now

Tick ==
  /\ now < MaxTime /\ now' = now + 1
  /\ UNCHANGED <<last, series, decision, asked, requests>>

Next == (\E payload \in Payloads, ctx \in Contexts : Process(payload, ctx)) \/ Tick

Spec == Init /\ [][Next]_vars

-----------------------------------------------------------------------------
Accepted  == decision.outcome = "accepted"
Approved  == decision.contract
NoForcing == decision.ctx.forced \notin States
\* What the gate let through, unless the schema stage put its own contract there.
Judged == Accepted /\ ~Replaced(decision.payload)

(* Psycho-safety: whatever the payload asks and whatever profile, policy,   *)
(* override or device rule touched the contract after the gate, what is     *)
(* accepted stays within PSYCHO_SAFETY_LIMITS, but for the glow of the      *)
(* contract the schema stage falls back to, which is 0.90 at most and not   *)
(* 0.72 (process, the safe contract put in place after the gate).           *)
WithinPsychoLimits ==
  Accepted => /\ Approved.flicker \in 0..PsychoLimits.flicker
              /\ Approved.glow \in 0..GlowLimit(decision.payload)
              /\ Approved.velocity \in 0..PsychoLimits.velocity

(* That glow is no mere bound: no stage after the gate brings the fallback   *)
(* under the limit unless the person asked for low power or low sensory      *)
(* mode.                                                                     *)
FallbackStaysBright ==
  Accepted /\ Replaced(decision.payload) /\ ~decision.ctx.lowPower /\ ~decision.ctx.lowSensory
    => Approved.glow = SafeContract.glow /\ SafeContract.glow > PsychoLimits.glow

\* What a renderer shows: cadence_hz, or the flicker's own rate without it.
ShownCadence(w) == AskedCadence(w)

(* Flashes: an accepted contract never shows more than three flashes a      *)
(* second, also when the uniform that carries the cadence was truncated     *)
(* away or lost with the whole contract in the schema stage, and a          *)
(* frequency below the IEEE 1789 low-risk one was damped.                   *)
FlashesBounded ==
  Accepted => /\ ShownCadence(Approved) <= FlashesMax
              /\ decision.payload.body.cadence # Missing
                 /\ decision.payload.body.cadence > FlashesMax
                 /\ decision.payload.body.cadence < LowRiskFrequency
                 => Approved.flicker <= LowFreqFlickerCap

(* Accommodations asked by the person hold for every accepted contract,     *)
(* also one the schema stage or an override produced.                       *)
AccommodationsHold ==
  Accepted =>
    /\ decision.ctx.lowPower => /\ Approved.glow <= 20 /\ Approved.velocity <= 12
                                /\ Approved.density <= 22
    /\ decision.ctx.lowSensory => /\ Approved.glow <= 35 /\ Approved.velocity <= 18
                                  /\ Approved.flicker <= 0
    /\ decision.ctx.noFlicker => Approved.flicker = 0

(* Reserved appearance: without an override, an alert or dormant state is   *)
(* never accepted in a look that is not its own.                            *)
ReservedAppearance ==
  Accepted /\ NoForcing =>
    /\ Approved.state \in Reserved
         => Approved.mode = ReservedPalettes[Approved.state]
    /\ Approved.state = "ERROR" => Approved.shape = "CRACKED_SHELL"
    /\ Approved.state = "NIRODHA" => Approved.glow <= 20 /\ Approved.velocity <= 10

(* Sensing: SENSOR_ACTIVE needs a granted capability and, unless forced,    *)
(* permission; the downgrade leaves no contract that senses without it.     *)
SensingIsPermitted ==
  Accepted /\ Approved.state = "SENSOR_ACTIVE" =>
    /\ decision.ctx.granted
    /\ NoForcing => decision.ctx.allowSensor

(* Asking again for exactly what was accepted is accepted unchanged: no     *)
(* stage undoes what a later one did. (Containment of drift apart, which    *)
(* depends on the series, and overrides, which bypass the first stages.)    *)
ApprovalIsStable ==
  Judged /\ NoForcing =>
    LET again   == [decision.payload EXCEPT !.body = Approved]
        ctx     == decision.ctx
        limited == Limit(Normalise(again, ctx, last), ctx)
    IN /\ ~ClampRaises(Normalise(again, ctx, last))
       /\ ~PolicyBlocks(Gate(limited, FALSE), ctx)
       /\ Approve(Gate(limited, FALSE), ctx) = Approved

(* A transition of the accepted state follows ALLOWED_TRANSITIONS from the  *)
(* state the request names as previous or, without one, the last accepted.  *)
TransitionsAreLegal ==
  LET from == PreviousState(decision.ctx, decision.was)
  IN Judged /\ NoForcing /\ from \in States =>
       Approved.state \in {from} \cup AllowedTransitions[from]

(* A contract that was not accepted leaves no trace in the next decision's  *)
(* starting point.                                                          *)
RefusalLeavesLast == decision' # decision /\ decision'.outcome # "accepted" => last' = last
(* The same of every step (the last assignments of process()).              *)
RefusalKeepsState == [][RefusalLeavesLast]_vars

(* Drift: judged over everything ever asked, not over the trimmed series, a *)
(* cadence that rose steadily within the window is contained, as long as    *)
(* the window holds at most MaxPoints samples and samples come in order.    *)
GradualRise(window) ==
  LET n == Len(window)
  IN /\ n >= 3 /\ window[1].ts < window[n].ts
     /\ \A i, j \in 1..n : i < j => window[i].cadence <= window[j].cadence
     /\ window[n].cadence - window[1].cadence >= DriftMinStep

InOrder(samples) ==
  \A i, j \in DOMAIN samples : i < j => samples[i].ts <= samples[j].ts

DriftIsContained ==
  LET newest == asked[Len(asked)]
      window == Since(asked, newest.ts - DriftWindow)
  IN Judged /\ InOrder(asked) /\ Len(window) <= MaxPoints /\ GradualRise(window)
       => Approved.glow <= 35 /\ Approved.velocity <= 18

(* How safe to look at what is accepted is: limits and flashes, of every    *)
(* accepted contract, and by how much the schema stage's own goes over.     *)
ApprovedIsSafe == WithinPsychoLimits /\ FallbackStaysBright /\ FlashesBounded

(* What is accepted respects its context: the accommodations asked for, the *)
(* looks that are reserved and the sensors that are granted.                *)
ContextIsRespected == AccommodationsHold /\ ReservedAppearance /\ SensingIsPermitted

(* A session only goes where the table lets it, and a refusal is no step of *)
(* it.                                                                      *)
SessionIsLegal == [][TransitionsAreLegal' /\ RefusalLeavesLast]_vars

(* The series: never longer than it may be, and a rise is contained         *)
(* although it is trimmed.                                                  *)
SeriesIsSound == TypeOK /\ DriftIsContained

=============================================================================
