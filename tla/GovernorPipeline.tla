-------------------------- MODULE GovernorPipeline --------------------------
(***************************************************************************)
(* The stages of RuntimeGovernor.process (governor/runtime_governor.py),   *)
(* each a function of the contract under work.                             *)
(*                                                                         *)
(* Intensities are in hundredths, cadences in hundredths of a hertz, time  *)
(* in the unit the two windows are given in. A contract keeps the fields   *)
(* the safety rules read; trail, bloom, noise, colours and the like are    *)
(* capped the same way and are left out.                                   *)
(***************************************************************************)
EXTENDS Integers, Sequences, FiniteSets

CONSTANTS
  Missing,         \* an absent (or null) field
  Garbage,         \* a value float() cannot convert
  SchemaLoaded,    \* schema_path exists and jsonschema is installed
  MaxPoints,       \* PSYCHO_SERIES_MAX_POINTS
  SeriesWindow,    \* PSYCHO_SERIES_WINDOW_SECONDS
  DriftWindow,     \* DRIFT_DETECTION_WINDOW_SECONDS
  StateNames,      \* any text a payload or context may name as a state
  Shapes, Palettes \* likewise for shapes and palette modes

ASSUME MarkerAssumption ==
  /\ Missing \notin Int /\ Missing \notin StateNames
  /\ Missing \notin Shapes /\ Missing \notin Palettes
  /\ Missing \notin {"plain", "sensitive"}
  /\ Garbage \notin Int /\ Garbage # Missing
ASSUME WindowAssumption ==
  /\ SchemaLoaded \in BOOLEAN
  /\ MaxPoints \in Nat \ {0}
  /\ DriftWindow \in Nat \ {0}
  /\ SeriesWindow \in Nat /\ DriftWindow <= SeriesWindow

Profile(shape, mode, glow, flicker, density, velocity) ==
  [shape |-> shape, mode |-> mode, glow |-> glow, flicker |-> flicker,
   density |-> density, velocity |-> velocity]

States == {"IDLE", "LISTENING", "THINKING", "GENERATING", "RESPONDING", "WARNING",
           "ERROR", "NIRODHA", "SENSOR_ACTIVE"}

StateProfiles == [s \in States |->
  CASE s = "IDLE"          -> Profile("NEBULA_CLOUD", "CALM_IDLE", 22, 0, 18, 10)
    [] s = "LISTENING"     -> Profile("SPHERE", "ACTIVE_LISTENING", 38, 1, 28, 18)
    [] s = "THINKING"      -> Profile("SPIRAL_VORTEX", "DEEP_REASONING", 76, 4, 78, 42)
    [] s = "GENERATING"    -> Profile("STREAM", "CO_CREATION", 82, 5, 82, 56)
    [] s = "RESPONDING"    -> Profile("SHELL", "CO_CREATION", 66, 2, 62, 34)
    [] s = "WARNING"       -> Profile("STREAM", "WARNING_OVERLOAD", 80, 8, 50, 40)
    [] s = "ERROR"         -> Profile("CRACKED_SHELL", "ERROR_POLICY", 90, 0, 44, 26)
    [] s = "NIRODHA"       -> Profile("NEBULA_CLOUD", "NIRODHA_DORMANT", 8, 0, 8, 4)
    [] s = "SENSOR_ACTIVE" -> Profile("SPHERE", "ACTIVE_LISTENING", 40, 0, 26, 20)]

ASSUME NameAssumption ==
  /\ States \subseteq StateNames
  /\ {"NEBULA_CLOUD", "SPHERE", "SPIRAL_VORTEX", "STREAM", "SHELL", "CRACKED_SHELL"}
       \subseteq Shapes
  /\ {"CALM_IDLE", "ACTIVE_LISTENING", "DEEP_REASONING", "CO_CREATION",
      "WARNING_OVERLOAD", "ERROR_POLICY", "NIRODHA_DORMANT"} \subseteq Palettes

AllowedTransitions == [s \in States |->
  CASE s = "IDLE"          -> States \ {"IDLE"}
    [] s = "LISTENING"     -> States \ {"LISTENING", "GENERATING"}
    [] s = "THINKING"      -> States \ {"THINKING", "LISTENING", "SENSOR_ACTIVE"}
    [] s = "GENERATING"    -> {"IDLE", "RESPONDING", "WARNING", "ERROR", "NIRODHA"}
    [] s = "RESPONDING"    -> States \ {"RESPONDING", "GENERATING", "SENSOR_ACTIVE"}
    [] s = "WARNING"       -> {"IDLE", "THINKING", "RESPONDING", "ERROR", "NIRODHA"}
    [] s = "ERROR"         -> {"IDLE", "NIRODHA"}
    [] s = "NIRODHA"       -> {"IDLE", "LISTENING", "SENSOR_ACTIVE"}
    [] s = "SENSOR_ACTIVE" -> {"IDLE", "LISTENING", "THINKING", "WARNING", "ERROR"}]

Reserved == {"WARNING", "ERROR", "NIRODHA"}   \* states with a palette of their own
ReservedPalettes == [s \in Reserved |->
  CASE s = "WARNING" -> "WARNING_OVERLOAD"
    [] s = "ERROR"   -> "ERROR_POLICY"
    [] s = "NIRODHA" -> "NIRODHA_DORMANT"]

Tiers == {"HIGH", "MID", "LOW"}
DeviceCaps == [t \in Tiers |->
  CASE t = "HIGH" -> [density |-> 100, glow |-> 100]
    [] t = "MID"  -> [density |-> 72,  glow |-> 86]
    [] t = "LOW"  -> [density |-> 36,  glow |-> 66]]

PsychoLimits == [flicker |-> 12, glow |-> 72, velocity |-> 50]
FlashesMax        == 300     \* WCAG_FLASHES_PER_SECOND_MAX
LowRiskFrequency  == 9000    \* IEEE_1789_LOW_RISK_FREQUENCY_HZ
LowFreqFlickerCap == 8       \* IEEE_1789_LOW_FREQ_FLICKER_CAP
DriftMinStep      == 10      \* DRIFT_MIN_STEP_HZ

Number   == Int \cup {Missing, Garbage}
Scholars == {"plain", "sensitive", Missing}  \* sensitive: the summary warns of a danger

Contract ==
  [state : StateNames, shape : Shapes, mode : Palettes,
   glow : Int, flicker : Int, density : Int, velocity : Int,
   cadence : Int \cup {Missing},   \* shader_uniforms.cadence_hz
   crowded : BOOLEAN,              \* MAX_SHADER_UNIFORMS keys stand before it
   scholar : Scholars]

Body ==
  [state : StateNames \cup {Missing}, shape : Shapes \cup {Missing},
   mode : Palettes \cup {Missing},
   glow : Number, flicker : Number, density : Number, velocity : Number,
   cadence : Int \cup {Missing}, crowded : BOOLEAN, scholar : Scholars]

Payload ==
  [body : Body,
   wellFormed : BOOLEAN,           \* intent_state, renderer_controls are objects
   conforms : BOOLEAN,             \* to the JSON schema, once normalised
   emittedAt : Int \cup {Missing}] \* Missing: absent or unparsable

Context ==
  [tier : Tiers, lowPower : BOOLEAN, lowSensory : BOOLEAN,
   noFlicker : BOOLEAN, allowSensor : BOOLEAN, granted : BOOLEAN,
   forced : StateNames \cup {Missing}, previous : StateNames \cup {Missing},
   maxDensity : Int \cup {Missing}]

Sample == [ts : Int, cadence : Int]

Or(value, default) == IF value = Missing THEN default ELSE value
AtMost(value, cap) == IF value > cap THEN cap ELSE value
Unit(value)        == AtMost(IF value < 0 THEN 0 ELSE value, 100)

\* Every later stage works by capping intensities; 100 caps nothing.
Cap(w, glow, flicker, velocity) ==
  [w EXCEPT !.glow = AtMost(@, glow), !.flicker = AtMost(@, flicker),
            !.velocity = AtMost(@, velocity)]

-----------------------------------------------------------------------------
(* transition *)

PreviousState(ctx, last)  == Or(ctx.previous, Or(last, "IDLE"))
RequestedState(body, ctx) == Or(body.state, Or(ctx.previous, "IDLE"))

\* A previous state the table does not know allows every listed state.
Allowed(from, to) ==
  \/ to = from
  \/ to \in States /\ (from \in States => to \in AllowedTransitions[from])

\* Slip: the transition is judged from the last accepted state, whatever the request names.
ApplyTransitionRulesFromLast(body, ctx, last) ==
  LET to == RequestedState(body, ctx)
  IN [body EXCEPT !.state = IF Allowed(Or(last, "IDLE"), to) THEN to
                            ELSE PreviousState(ctx, last)]

ApplyTransitionRules(body, ctx, last) ==
  LET from == PreviousState(ctx, last)
      to   == RequestedState(body, ctx)
  IN [body EXCEPT !.state = IF Allowed(from, to) THEN to ELSE from]

-----------------------------------------------------------------------------
(* profile_map, clamp *)

ProfileOf(state) == StateProfiles[IF state \in States THEN state ELSE "IDLE"]

ApplyProfileMap(w) ==
  LET p == ProfileOf(w.state)
  IN [w EXCEPT !.shape = Or(@, p.shape), !.mode = Or(@, p.mode),
               !.glow = Or(@, p.glow), !.flicker = Or(@, p.flicker),
               !.density = Or(@, p.density), !.velocity = Or(@, p.velocity)]

\* _clamp falls back on the very value float() refused, and compares it.
ClampRaises(w) == Garbage \in {w.glow, w.flicker, w.density, w.velocity}

DensityCap(ctx) == IF ctx.maxDensity = Missing THEN 100 ELSE Unit(ctx.maxDensity)

\* Slip: the device tier scales the density instead of capping it.
ApplyClampsScaled(w, ctx) ==
  LET caps == DeviceCaps[ctx.tier]
  IN [w EXCEPT !.glow = AtMost(Unit(@), caps.glow),
               !.flicker = AtMost(Unit(@), 20),
               !.density = AtMost((Unit(@) * caps.density) \div 100, DensityCap(ctx)),
               !.velocity = Unit(@)]

ApplyClamps(w, ctx) ==
  LET caps == DeviceCaps[ctx.tier]
  IN [w EXCEPT !.glow = AtMost(Unit(@), caps.glow),
               !.flicker = AtMost(Unit(@), 20),
               !.density = AtMost(AtMost(Unit(@), caps.density), DensityCap(ctx)),
               !.velocity = Unit(@)]

-----------------------------------------------------------------------------
(* psycho_safety_gate *)

AskedCadence(w) ==
  IF w.cadence = Missing THEN 25 * w.flicker
  ELSE IF w.cadence < 0 THEN 0 ELSE w.cadence

LimitIntensity(w) ==
  Cap(w, PsychoLimits.glow, PsychoLimits.flicker, PsychoLimits.velocity)

SafeCadence(w) == AtMost(AskedCadence(w), FlashesMax)

\* The mitigation looks at the cadence asked for, not at the capped one.
LowFrequency(w) ==
  FlashesMax < AskedCadence(w) /\ AskedCadence(w) < LowRiskFrequency

\* Set last, so that the cadence computed before any damping is the one shown.
ShowCadence(w, cadence) == [w EXCEPT !.cadence = cadence]

LimitFlashes(w) ==
  ShowCadence(Cap(w, 100, IF LowFrequency(w) THEN LowFreqFlickerCap ELSE 100, 100),
              SafeCadence(w))

Contain(w) == Cap(w, 35, 100, 18)

\* Slip: a full series keeps its oldest points.
Oldest(series) == IF Len(series) > MaxPoints THEN SubSeq(series, 1, MaxPoints) ELSE series

Newest(series) ==
  IF Len(series) > MaxPoints
  THEN SubSeq(series, Len(series) - MaxPoints + 1, Len(series)) ELSE series

\* The points no older than start, in the order of the series, which need not be the
\* order of time.
Since(series, start) ==
  LET recent == {i \in DOMAIN series : series[i].ts >= start}
      Nth(n) == CHOOSE i \in recent : Cardinality({j \in recent : j <= i}) = n
  IN [n \in 1..Cardinality(recent) |-> series[Nth(n)]]

RecordSample(series, sample) ==
  Since(Newest(Append(series, sample)), sample.ts - SeriesWindow)

DetectGradualDrift(series, now) ==
  LET window  == Since(series, now - DriftWindow)
      n       == Len(window)
      elapsed == window[n].ts - window[1].ts
      delta   == window[n].cadence - window[1].cadence
  IN /\ n >= 3
     /\ elapsed > 0
     /\ \A i \in 1..(n - 1) : window[i].cadence <= window[i + 1].cadence
     /\ delta >= DriftMinStep
     /\ delta * DriftWindow >= DriftMinStep * elapsed

-----------------------------------------------------------------------------
(* policy_block, capability_gate *)

\* schema of _safe_contract: the ERROR profile and nothing else
SafeContract ==
  LET p == StateProfiles["ERROR"]
  IN [state |-> "ERROR", shape |-> p.shape, mode |-> p.mode, glow |-> p.glow,
      flicker |-> p.flicker, density |-> p.density, velocity |-> p.velocity,
      cadence |-> Missing, crowded |-> FALSE, scholar |-> Missing]

PolicyBlocks(w, ctx) == w.state = "SENSOR_ACTIVE" /\ ~ctx.allowSensor

Dress(w) ==
  [w EXCEPT !.mode = IF w.state \in Reserved THEN ReservedPalettes[w.state] ELSE @,
            !.shape = IF w.state = "ERROR" THEN "CRACKED_SHELL" ELSE @]

TruncateUniforms(w) == IF w.crowded THEN [w EXCEPT !.cadence = Missing] ELSE w

ReserveAppearance(w) ==
  LET dressed == IF w.state = "NIRODHA" THEN Cap(Dress(w), 20, 100, 10) ELSE Dress(w)
  IN TruncateUniforms(dressed)

Alert(w) == w.state \in {"ERROR", "WARNING"}

\* A scholar summary gives way to an alert (and returns before the last cap), and
\* dims what it warns about.
ScholarGate(w) ==
  IF w.scholar # Missing /\ Alert(w) THEN [w EXCEPT !.scholar = Missing]
  ELSE Cap(w, IF w.scholar = "sensitive" THEN 40 ELSE 100,
              IF w.scholar = "sensitive" THEN 5 ELSE 20, 100)

ApplyPolicyRules(w) == ScholarGate(ReserveAppearance(w))

\* Slip: an override copies the forced state's profile over the governed values.
ForceStateReprofiled(w, ctx) ==
  LET p == ProfileOf(ctx.forced)
  IN IF ctx.forced \in States
     THEN [w EXCEPT !.state = ctx.forced, !.shape = p.shape, !.mode = p.mode,
                    !.glow = p.glow, !.flicker = p.flicker]
     ELSE w

ForceState(w, ctx) ==
  IF ctx.forced \in States
  THEN ApplyProfileMap([w EXCEPT !.state = ctx.forced]) ELSE w

LowPower(w)   == [Cap(w, 20, 100, 12) EXCEPT !.density = AtMost(@, 22)]
LowSensory(w) == Cap(w, 35, 0, 18)
NoFlicker(w)  == Cap(w, 100, 0, 100)

\* Slip: low power and low sensory mode exclude each other.
AccommodateOne(w, ctx) ==
  LET eased == IF ctx.lowPower THEN LowPower(w)
               ELSE IF ctx.lowSensory THEN LowSensory(w) ELSE w
  IN IF ctx.noFlicker THEN NoFlicker(eased) ELSE eased

Accommodate(w, ctx) ==
  LET powered == IF ctx.lowPower THEN LowPower(w) ELSE w
      calm    == IF ctx.lowSensory THEN LowSensory(powered) ELSE powered
  IN IF ctx.noFlicker THEN NoFlicker(calm) ELSE calm

SensorGate(w, ctx) ==
  IF w.state = "SENSOR_ACTIVE" /\ ~ctx.granted
  THEN ApplyProfileMap([w EXCEPT !.state = "IDLE"]) ELSE w

ApplyCapabilityGates(w, ctx) == SensorGate(Accommodate(ForceState(w, ctx), ctx), ctx)

-----------------------------------------------------------------------------
(* process, up to and after the psycho_safety_gate's look at the series *)

Normalise(payload, ctx, last) ==
  ApplyProfileMap(ApplyTransitionRules(payload.body, ctx, last))

Limit(w, ctx) == LimitIntensity(ApplyClamps(w, ctx))

Gate(limited, drifting) ==
  LET w == LimitFlashes(limited) IN IF drifting THEN Contain(w) ELSE w

Replaced(payload) == SchemaLoaded /\ ~payload.conforms

Validated(w, payload) == IF Replaced(payload) THEN SafeContract ELSE w

\* The most an accepted contract may glow. The schema stage puts its own contract in place
\* after the gate, and that one is brighter than the gate would let it be.
GlowLimit(payload) == IF Replaced(payload) THEN SafeContract.glow ELSE PsychoLimits.glow

Approve(w, ctx) == ApplyCapabilityGates(ApplyPolicyRules(w), ctx)

\* The contract policy_block is handed, and what the stages after it make of it.
Checked(payload, ctx, last, drifting) ==
  Validated(Gate(Limit(Normalise(payload, ctx, last), ctx), drifting), payload)

Final(payload, ctx, last, drifting) == Approve(Checked(payload, ctx, last, drifting), ctx)
=============================================================================
