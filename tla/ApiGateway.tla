----------------------------- MODULE ApiGateway -----------------------------
(***************************************************************************)
(* The HTTP side of the API gateway (api_gateway/main.py): text generation *)
(* and the light inferred from it, the policy check of submissions with    *)
(* its metrics, and the telemetry store.                                   *)
(*                                                                         *)
(* A handler runs in one step up to an await that really waits: METRICS_LOCK*)
(* and TELEMETRY_LOCK are only held by code that does not, so they are free *)
(* whenever they are asked for. The call of the language model is the one   *)
(* wait. A request without an API key is refused before anything happens.   *)
(*                                                                          *)
(* Scalars are in millionths, cadences in thousandths of a hertz.           *)
(***************************************************************************)
EXTENDS ContractAdapters, Sequences, FiniteSets

CONSTANTS
  Calls,            \* generate requests
  Providers,        \* model -> provider, for the models of MODEL_PROVIDER_MAP
  Models,           \* every model a request may name
  Keyed,            \* providers whose API key is set
  Texts,            \* what a language model may answer
  Contracts,        \* name -> a particle-control contract a client adapts
  OwnVisuals,       \* name -> a visual manifestation made by hand
  MetricNames, Batches,  \* telemetry: metrics, and the requests to ingest
  SeriesMax,        \* points kept of a series
  Windows,          \* window_seconds of queries
  MaxRequests, MaxTime   \* bounds: submissions and ingests together, and the clock

ASSUME GatewayAssumption ==
  /\ DOMAIN Providers \subseteq Models
  /\ SeriesMax \in Nat \ {0} /\ Windows \subseteq Nat \ {0}
  /\ Calls \cap DOMAIN Contracts = {} /\ Calls \cap DOMAIN OwnVisuals = {}
  /\ DOMAIN Contracts \cap DOMAIN OwnVisuals = {}
  /\ IsFiniteSet(Calls)

\* The colours of an inferred visual.
Colours == {"gold", "green", "orange", "cyan", "white"}

\* A text is what the inference counts in it.
ASSUME TextAssumption ==
  /\ Texts \subseteq [length : Nat, exclamations : Nat, question : BOOLEAN,
                      positive : Nat, negative : Nat]
  /\ Null \notin Colours

\* A batch is points, each of them a number of some age.
TelemetryPoint == [metric : MetricNames, value : Int, age : Int]
ASSUME BatchAssumption == Batches \subseteq Seq(TelemetryPoint)

\* A contract's scalars are whatever float() makes of them; controls of its own name a count.
ASSUME ContractAssumption ==
  \A k \in DOMAIN Contracts :
    Contracts[k].density \in Scalar /\ Contracts[k].turbulence \in Scalar
      /\ Contracts[k].glow \in Scalar
      /\ (Contracts[k].controls = Missing \/ Contracts[k].controls.count \in Int)

Sources == Calls \cup DOMAIN Contracts \cup DOMAIN OwnVisuals

VARIABLES
  metrics,   \* METRICS
  calls,     \* call -> its phase, and once it is answered the status and the intent
  visuals,   \* source -> the visual manifestation the client has from it, or Missing
  told,      \* source -> the answer to the submission of its visual, or "nothing"
  tsdb,      \* TELEMETRY_TS_DB: metric -> series
  arrived,   \* metric -> every point ever ingested
  ingests, now

vars == <<metrics, calls, visuals, told, tsdb, arrived, ingests, now>>
generateVars == <<calls, visuals>>
telemetryVars == <<tsdb, arrived, ingests>>

Least(a, b) == IF a < b THEN a ELSE b
AbsDiff(a, b) == IF a < b THEN b - a ELSE a - b

TypeOK ==
  /\ metrics \in [submissions : Nat, renders : Nat, failures : Nat, generated : Nat]
  /\ \A c \in Calls : calls[c].phase \in {"idle", "waiting", "answered"}
  /\ told \in [Sources -> {"nothing", "success", "policy", "malformed"}]
  /\ \A m \in MetricNames : Len(tsdb[m]) <= SeriesMax

Init ==
  /\ metrics = [submissions |-> 0, renders |-> 0, failures |-> 0, generated |-> 0]
  /\ calls = [c \in Calls |-> [phase |-> "idle"]]
  /\ visuals = [s \in Sources |->
       CASE s \in Calls             -> Missing
         [] s \in DOMAIN Contracts  -> VisualManifestation(Contracts[s])
         [] s \in DOMAIN OwnVisuals -> OwnVisuals[s]]
  /\ told = [s \in Sources |-> "nothing"]
  /\ tsdb = [m \in MetricNames |-> <<>>] /\ arrived = tsdb
  /\ ingests = 0 /\ now = 0

-----------------------------------------------------------------------------
(* _infer_intent_from_text                                                   *)

Energy(text) == Least(One, 300000 + 150000 * text.exclamations + 1000 * text.length)

\* A quarter for each word more of one mood than of the other.
Valence(text) ==
  LET more == text.positive - text.negative
  IN IF more >= 0 THEN Least(One, 250000 * more) ELSE -Least(One, -250000 * more)

Category(text) ==
  IF text.question THEN "inquiry"
  ELSE IF text.exclamations > 0 THEN "exclamation" ELSE "narrative"

\* High energy outshines every mood.
MoodColour(text) ==
  IF Energy(text) > 800000 THEN "gold"
  ELSE IF Valence(text) > 400000 THEN "green"
  ELSE IF Valence(text) < -400000 THEN "orange" ELSE "cyan"

InferredIntent(text) ==
  [category |-> Category(text), valence |-> Valence(text), energy |-> Energy(text)]

InferredVisual(text) ==
  [shape |-> "fluid_typography", primary |-> MoodColour(text), secondary |-> "white",
   turbulence |-> (Energy(text) * 8) \div 10, luminance |-> Energy(text),
   count |-> Least(10000, 2000 + (Energy(text) * 8) \div 1000), override |-> FALSE]

-----------------------------------------------------------------------------
(* generate_text                                                             *)

Answered(status, intent) == [phase |-> "answered", status |-> status, intent |-> intent]

\* invoke_generative_model gets as far as a request to a provider.
Reached(model) ==
  /\ model \in DOMAIN Providers /\ Providers[model] \in Keyed \cap {"google", "openai"}

CountedNow == metrics.generated + 1

\* What invoke_generative_model raises itself, for a model it does not know or a key
\* that is not set, comes out of the handler's last clause as a 500.
Generate(c) ==
  /\ calls[c].phase = "idle"
  /\ metrics' = [metrics EXCEPT !.generated = CountedNow]
  /\ \E model \in Models :
       calls' = [calls EXCEPT ![c] = IF Reached(model) THEN [phase |-> "waiting"]
                                     ELSE Answered(500, Missing)]
  /\ UNCHANGED <<visuals, told, now>> /\ UNCHANGED telemetryVars

ModelAnswers(c) ==
  /\ calls[c].phase = "waiting"
  /\ \E text \in Texts :
       /\ calls' = [calls EXCEPT ![c] = Answered(200, InferredIntent(text))]
       /\ visuals' = [visuals EXCEPT ![c] = InferredVisual(text)]
  /\ UNCHANGED <<metrics, told, now>> /\ UNCHANGED telemetryVars

\* A status of the provider is passed on; a timeout, a lost connection or an answer of
\* another form is a 500.
ModelFails(c) ==
  /\ calls[c].phase = "waiting"
  /\ \E status \in {429, 500} : calls' = [calls EXCEPT ![c] = Answered(status, Missing)]
  /\ UNCHANGED <<metrics, visuals, told, now>> /\ UNCHANGED telemetryVars

-----------------------------------------------------------------------------
(* emit_cognitive_dsl                                                        *)

\* The request model: bounded scalars, a count that is not negative, and colours that
\* are text.
WellFormed(visual) ==
  /\ visual.turbulence \in 0..One /\ visual.luminance \in 0..One
  /\ visual.count >= 0
  /\ visual.primary # Null /\ visual.secondary # Null

\* validate_dsl_response
PolicyAllows(visual) == visual.primary = "crimson" => visual.override

\* A body that does not parse is refused before the handler, and counted nowhere.
Emit(s) ==
  /\ visuals[s] # Missing /\ metrics.submissions + ingests < MaxRequests
  /\ IF ~WellFormed(visuals[s])
     THEN told' = [told EXCEPT ![s] = "malformed"] /\ UNCHANGED metrics
     ELSE IF PolicyAllows(visuals[s])
     THEN /\ told' = [told EXCEPT ![s] = "success"]
          /\ metrics' = [metrics EXCEPT !.submissions = @ + 1, !.renders = @ + 1]
     ELSE /\ told' = [told EXCEPT ![s] = "policy"]
          /\ metrics' = [metrics EXCEPT !.submissions = @ + 1, !.failures = @ + 1]
  /\ UNCHANGED <<generateVars, now>> /\ UNCHANGED telemetryVars

\* dsl_schema_compliance, in hundredths of a percent
Compliance ==
  IF metrics.submissions = 0 THEN 10000
  ELSE Rounded(10000 * (metrics.submissions - metrics.failures), metrics.submissions)

-----------------------------------------------------------------------------
(* Telemetry                                                                 *)

\* Slip: a full series keeps its oldest points.
TrimmedOldest(series) == SubSeq(series, 1, Least(Len(series), SeriesMax))

Trimmed(series) ==
  SubSeq(series, IF Len(series) > SeriesMax THEN Len(series) - SeriesMax + 1 ELSE 1, Len(series))

\* A point is dated by its sender, by its age in a batch here.
Dated(p) == [value |-> p.value, ts |-> now - p.age]

\* One point more: what is kept of its series, and all that arrived for it.
Ingested(db, p) ==
  [kept |-> [db.kept EXCEPT ![p.metric] = Trimmed(Append(@, Dated(p)))],
   all  |-> [db.all EXCEPT ![p.metric] = Append(@, Dated(p))]]

\* Both after the first n points of a batch, for each n.
Ingestion(batch) ==
  LET after[n \in 0..Len(batch)] ==
        IF n = 0 THEN [kept |-> tsdb, all |-> arrived] ELSE Ingested(after[n - 1], batch[n])
  IN after

Ingest ==
  /\ metrics.submissions + ingests < MaxRequests
  /\ ingests' = ingests + 1
  /\ \E batch \in Batches :
       LET db == Ingestion(batch)[Len(batch)] IN tsdb' = db.kept /\ arrived' = db.all
  /\ UNCHANGED <<metrics, generateVars, told, now>>

\* The values a window holds, each under its place in the series.
Values(metric, window) ==
  LET rows == {i \in DOMAIN tsdb[metric] : now - tsdb[metric][i].ts <= window}
  IN [i \in rows |-> tsdb[metric][i].value]

Smaller(values, v) == {i \in DOMAIN values : values[i] < v}
NotLarger(values, v) == {i \in DOMAIN values : values[i] <= v}

\* sorted: at place k is the value with fewer than k smaller and k at least not larger.
Ordered(values) ==
  [k \in 1..Cardinality(DOMAIN values) |->
     CHOOSE v \in {values[i] : i \in DOMAIN values} :
       Cardinality(Smaller(values, v)) < k /\ k <= Cardinality(NotLarger(values, v))]

\* int(n * 0.95), counted from 0
P95Index(n) == (n * 95) \div 100

P95(values) == Ordered(values)[P95Index(Cardinality(DOMAIN values)) + 1]

Tick ==
  /\ now < MaxTime /\ now' = now + 1
  /\ UNCHANGED <<metrics, generateVars, told>> /\ UNCHANGED telemetryVars

Next ==
  \/ \E c \in Calls : Generate(c) \/ ModelAnswers(c) \/ ModelFails(c)
  \/ \E s \in Sources : Emit(s)
  \/ Ingest \/ Tick

Spec == Init /\ [][Next]_vars

-----------------------------------------------------------------------------
(* The light cognition pipeline                                              *)

\* _semantic_from_intent: what the drift is measured on
Semantic(intent) ==
  [valence |-> intent.valence, energy |-> intent.energy,
   ambiguity |-> One - AbsDiff(intent.valence, 0)]

\* _morphogenesis_to_compiled: update_cadence_hz
Cadence(visual) ==
  LET asked == 16000 + (visual.luminance * 22) \div 1000
  IN IF asked < 12000 THEN 12000 ELSE Least(asked, 60000)

\* Slip: the energy's change is taken with its sign.
DeltasSigned(base, telemetry) ==
  [valence |-> AbsDiff(base.valence, telemetry.valence),
   energy |-> IF base.energy > telemetry.energy THEN base.energy - telemetry.energy ELSE 0,
   ambiguity |-> AbsDiff(base.ambiguity, telemetry.ambiguity)]

Deltas(base, telemetry) ==
  [valence |-> AbsDiff(base.valence, telemetry.valence),
   energy |-> AbsDiff(base.energy, telemetry.energy),
   ambiguity |-> AbsDiff(base.ambiguity, telemetry.ambiguity)]

\* 1 - semantic_coherence_score, in tenths of a millionth
Incoherence(d) == Least(10 * One, 6 * d.valence + 3 * d.energy + 2 * d.ambiguity)

\* topology_divergence_index, in hundredths of a millionth
Divergence(d) == Least(100 * One, 55 * d.valence + 25 * d.energy + 40 * d.ambiguity)

\* temporal_instability_ratio, in millionths, the incoherence taken in thousandths
Instability(d, visual) ==
  ((Incoherence(d) \div 10000) * (350000 + (Least(Cadence(visual), 120000) * 5) \div 4)) \div 1000

Drift(c, e) == Deltas(Semantic(calls[c].intent), Semantic(calls[e].intent))

-----------------------------------------------------------------------------
(* Properties                                                                *)

\* What is reported of submissions and generations agrees with what clients were told:
\* a generation counts while it still waits, and compliance is whole as long as no
\* submission was refused by policy and shows the first refusal, unless so many came
\* before it that one is rounded away (generate_text, emit_cognitive_dsl,
\* _metrics_snapshot).
MetricsTell ==
  LET refused == \E s \in Sources : told[s] = "policy"
  IN /\ metrics.generated = Cardinality({c \in Calls : calls[c].phase # "idle"})
     /\ metrics.submissions = metrics.renders + metrics.failures
     /\ ~refused => Compliance = 10000
     /\ refused /\ metrics.submissions < 20000 => Compliance < 10000

\* What is inferred from a text can be submitted as it is: its scalars are in the
\* request model's bounds and its colour needs no emergency (_infer_intent_from_text
\* against VisualManifestation and FirmaValidator).
GeneratedIsEmittable == \A c \in Calls : told[c] \in {"nothing", "success"}

\* A contract whose colours are named, but for an absent primary, which has a default.
Canonical(contract) ==
  /\ contract.primary # Null /\ contract.secondary \notin {Missing, Null}
  /\ contract.controls # Missing => contract.controls.count >= 0

\* What the adapter makes of a canonical contract can be submitted, whatever its scalars
\* are, but for the emergency colour: no override survives the adapter.
AdaptedIsEmittable ==
  \A k \in DOMAIN Contracts :
    Canonical(Contracts[k]) /\ Contracts[k].primary # "crimson"
      => told[k] \in {"nothing", "success"}

\* The amount of particles a client shows, as a density
ShownDensity(visual) == visual.count * (One \div Particles)

\* A series is the newest points that arrived for it, in their order, and short of
\* nothing as long as it is not full (ingest_telemetry).
SeriesIsNewest ==
  \A m \in MetricNames :
    LET n == Least(Len(arrived[m]), SeriesMax)
    IN tsdb[m] = SubSeq(arrived[m], Len(arrived[m]) - n + 1, Len(arrived[m]))

\* The p95 of a query is one of its values, no smaller than 95 in 100 of them and
\* larger than 95 in 100 at most (query_telemetry).
P95IsAQuantile ==
  \A m \in MetricNames, w \in Windows :
    LET values == Values(m, w)
        rows   == DOMAIN values
    IN rows # {} =>
         /\ P95(values) \in {values[i] : i \in rows}
         /\ 100 * Cardinality(NotLarger(values, P95(values))) >= 95 * Cardinality(rows)
         /\ 100 * Cardinality(Smaller(values, P95(values))) <= 95 * Cardinality(rows)

\* The drift between two generated intents does not depend on which of them is the
\* baseline, and is nothing exactly when their moods and energies agree; an instability
\* never shows without a loss of coherence (_compute_drift_metrics).
DriftIsADistance ==
  LET Done == {c \in Calls : calls[c].phase = "answered" /\ calls[c].status = 200}
  IN \A c, e \in Done :
       /\ Divergence(Drift(c, e)) = Divergence(Drift(e, c))
       /\ Incoherence(Drift(c, e)) = Incoherence(Drift(e, c))
       /\ Divergence(Drift(c, e)) = 0 <=>
            /\ calls[c].intent.valence = calls[e].intent.valence
            /\ calls[c].intent.energy = calls[e].intent.energy
       /\ Instability(Drift(c, e), visuals[e]) > 0 => Incoherence(Drift(c, e)) > 0

\* What the gateway reports of itself is what it told its clients, and a drift is a distance.
MeasuresTell == MetricsTell /\ DriftIsADistance

\* What the gateway itself generates or adapts, it also accepts.
OwnOutputIsEmittable == GeneratedIsEmittable /\ AdaptedIsEmittable

\* What the two adapters make of one contract. Older consumers see its density to within
\* half a particle. Without controls of its own, shape, turbulence and amount of the
\* manifestation are theirs, whatever the scalars are. Controls it brings along show another
\* amount only if they are half a particle or more off its density, as the scholar's are
\* (to_visual_manifestation against to_legacy_visual_parameters, which looks at no controls).
AdaptersAgree ==
  \A k \in DOMAIN Contracts :
    LET density == Density(Contracts[k])
        legacy  == LegacyParameters(Contracts[k])
        shown   == visuals[k]
    IN /\ AbsDiff(legacy.density, density) <= 10
       /\ Contracts[k].controls = Missing =>
            /\ shown.shape = legacy.shape /\ shown.turbulence = legacy.turbulence
            /\ ShownDensity(shown) = legacy.density
       /\ ShownDensity(shown) # legacy.density => AbsDiff(ShownDensity(shown), density) >= 10

\* The telemetry store keeps the newest points and its quantile is one.
TelemetryTells == TypeOK /\ SeriesIsNewest /\ P95IsAQuantile

=============================================================================
