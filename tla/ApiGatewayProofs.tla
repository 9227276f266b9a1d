-------------------------- MODULE ApiGatewayProofs --------------------------
(***************************************************************************)
(* What holds of the HTTP side of the API gateway for every set of calls,  *)
(* texts, contracts and models: what is generated or adapted can be         *)
(* submitted, what is counted is what clients were told, a drift is a       *)
(* distance, and the adapters agree on a contract.                         *)
(***************************************************************************)
EXTENDS ApiGateway, ScholarAgent, FiniteSetTheorems, SequenceTheorems,
        WellFoundedInduction, TLAPS

-----------------------------------------------------------------------------
(* Rounding                                                                  *)

\* A quotient and its remainder give the dividend back.
LEMMA Divides ==
  ASSUME NEW a \in Nat, NEW b \in Nat \ {0}
  PROVE  /\ a \div b \in Nat /\ a % b \in 0..(b - 1)
         /\ a = b * (a \div b) + (a % b)
  OBVIOUS

\* Between two multiples of b lies one quotient only.
LEMMA QuotientIs ==
  ASSUME NEW a \in Nat, NEW b \in Nat \ {0}, NEW q \in Nat, b * q <= a, a < b * q + b
  PROVE  a \div b = q /\ a % b = a - b * q
<1> DEFINE p == a \div b
           r == a % b
<1>1. p \in Nat /\ r \in 0..(b - 1) /\ a = b * p + r
  BY Divides
<1> HIDE DEF p, r
<1>2. b * p < b * q + b /\ b * q < b * p + b
  BY <1>1
<1>3. CASE p < q
  <2>1. b * (p + 1) <= b * q
    BY <1>1, <1>3
  <2> QED
    BY <2>1, <1>1, <1>2
<1>4. CASE q < p
  <2>1. b * (q + 1) <= b * p
    BY <1>1, <1>4
  <2> QED
    BY <2>1, <1>1, <1>2
<1>5. p = q
  BY <1>1, <1>3, <1>4
<1> QED
  BY <1>5, <1>1 DEF p, r

LEMMA RoundedIsNat ==
  ASSUME NEW a \in Nat, NEW b \in Nat \ {0}
  PROVE  Rounded(a, b) \in Nat
BY Divides DEF Rounded

\* What divides evenly is not rounded.
LEMMA RoundedWhole ==
  ASSUME NEW q \in Nat, NEW b \in Nat \ {0}
  PROVE  Rounded(b * q, b) = q
<1>1. b * q \in Nat /\ b * q < b * q + b
  OBVIOUS
<1>2. (b * q) \div b = q /\ (b * q) % b = b * q - b * q
  BY <1>1, QuotientIs
<1>3. (b * q) % b = 0
  BY SMT, <1>1, <1>2
<1> QED
  BY SMT, <1>2, <1>3 DEF Rounded

LEMMA OneIs == One \in Nat /\ One = 1000000 /\ One \div Particles = 20
BY SMT DEF One, Particles

\* The scalars of the request model.
Unit == 0..One

LEMMA UnitIs == \A x : x \in Unit <=> x \in Int /\ 0 <= x /\ x <= One
<1>1. One \in Int
  BY OneIs
<1> QED
  BY <1>1 DEF Unit

\* A density becomes the nearest number of particles, of 20 millionths each.
LEMMA ParticlesRoundTrip ==
  ASSUME NEW d \in Unit
  PROVE  /\ ParticleCount(d) \in Nat
         /\ AbsDiff(ParticleCount(d) * (One \div Particles), d) <= 10
<1>1. One \div Particles = 20 /\ One = 1000000
  BY OneIs, UnitIs
<1>2. d \in Nat
  BY SMT, OneIs, UnitIs
<1>3. PICK q \in Nat, r \in 0..19 : q = d \div 20 /\ r = d % 20 /\ d = 20 * q + r
  BY SMT, <1>2
<1> DEFINE n == ParticleCount(d)
<1>4. n = IF 2 * r > 20 \/ (2 * r = 20 /\ q % 2 = 1) THEN q + 1 ELSE q
  BY SMT, <1>1, <1>3 DEF ParticleCount, Rounded
<1> HIDE DEF n
<1>5. (n = q /\ r <= 10) \/ (n = q + 1 /\ r >= 10)
  BY SMT, <1>4
<1>6. n \in Nat /\ AbsDiff(n * 20, d) <= 10
  BY SMT, <1>3, <1>5 DEF AbsDiff
<1>7. ParticleCount(d) * (One \div Particles) = n * 20
  BY SMT, <1>1, <1>6 DEF n
<1>8. ParticleCount(d) \in Nat
  BY SMT, <1>6 DEF n
<1> QED
  BY SMT, <1>6, <1>7, <1>8

\* A compliance is whole without a failure, and less with one among fewer than 20000.
LEMMA ComplianceShows ==
  ASSUME NEW t \in Nat \ {0}, NEW f \in 0..t
  PROVE  /\ f = 0 => Rounded(10000 * (t - f), t) = 10000
         /\ f # 0 /\ t < 20000 => Rounded(10000 * (t - f), t) < 10000
<1>1. ASSUME f = 0 PROVE Rounded(10000 * (t - f), t) = 10000
  <2>1. 10000 * (t - f) = t * 10000
    BY SMT, <1>1
  <2> QED
    BY SMT, <2>1, RoundedWhole
<1>2. ASSUME f # 0, t < 20000 PROVE Rounded(10000 * (t - f), t) < 10000
  <2> DEFINE a == 10000 * (t - f)
             q == a \div t
             r == a % t
  <2>1. a \in Nat /\ a <= 10000 * t - 10000
    BY SMT, <1>2
  <2> HIDE DEF a
  <2>2. q \in Nat /\ r \in 0..(t - 1) /\ a = t * q + r
    <3>1. a \in Nat /\ t \in Nat \ {0}
      BY <2>1
    <3> QED
      BY <3>1, Divides, Zenon
  <2>3. Rounded(a, t) = IF 2 * r > t \/ (2 * r = t /\ q % 2 = 1) THEN q + 1 ELSE q
    BY SMT DEF Rounded
  <2> HIDE DEF q, r
  <2>4. q < 10000
    <3>1. CASE q >= 10000
      <4>1. t * q >= t * 10000
        BY SMT, <2>2, <3>1
      <4> QED
        BY SMT, <4>1, <2>1, <2>2
    <3> QED
      BY SMT, <3>1, <2>2
  <2>5. CASE q = 9999
    <3>1. r <= t - 10000
      BY SMT, <2>1, <2>2, <2>5
    <3>2. 2 * r < t
      BY SMT, <3>1, <2>2, <1>2
    <3> QED
      BY SMT, <3>2, <2>2, <2>3, <2>5 DEF a
  <2>6. CASE q < 9999
    BY SMT, <2>2, <2>3, <2>6 DEF a
  <2> QED
    BY SMT, <2>2, <2>4, <2>5, <2>6
<1> QED
  BY SMT, <1>1, <1>2

-----------------------------------------------------------------------------
(* What is inferred, and what is adapted                                     *)

LEMMA ClampedIsUnit ==
  ASSUME NEW x \in Scalar, NEW default \in Unit
  PROVE  ClampFloat(x, default) \in Unit
BY SMT, ScalarAssumption, OneIs, UnitIs DEF ClampFloat, Scalar

LEMMA DensityIsUnit ==
  ASSUME NEW k \in DOMAIN Contracts
  PROVE  Density(Contracts[k]) \in Unit
<1>1. Contracts[k].density \in Scalar
  BY SMT, ContractAssumption
<1>2. 200000 \in Unit
  BY SMT, OneIs, UnitIs
<1> QED
  BY SMT, <1>1, <1>2, ClampedIsUnit DEF Density

\* The scalars inferred from a text are in the bounds of the intent's fields.
LEMMA InferredScalars ==
  ASSUME NEW text \in Texts
  PROVE  /\ Energy(text) \in Unit
         /\ Valence(text) \in Int /\ -One <= Valence(text) /\ Valence(text) <= One
<1>1. /\ text.length \in Nat /\ text.exclamations \in Nat
      /\ text.positive \in Nat /\ text.negative \in Nat
  BY SMT, TextAssumption
<1> DEFINE asked == 300000 + 150000 * text.exclamations + 1000 * text.length
           more  == text.positive - text.negative
<1>2. asked \in Nat /\ more \in Int
  BY SMT, <1>1
<1>3. Energy(text) = Least(One, asked)
  BY SMT DEF Energy
<1>4. Valence(text) = IF more >= 0 THEN Least(One, 250000 * more)
                      ELSE -Least(One, -250000 * more)
  BY SMT DEF Valence
<1> HIDE DEF asked, more
<1>5. Energy(text) \in Unit
  BY SMT, <1>2, <1>3, OneIs, UnitIs DEF Least
<1>6. Valence(text) \in Int /\ -One <= Valence(text) /\ Valence(text) <= One
  BY SMT, <1>2, <1>4, OneIs, UnitIs DEF Least
<1> QED
  BY SMT, <1>5, <1>6

\* The answer to a submission, which depends on the visual alone.
Verdict(visual) ==
  IF ~WellFormed(visual) THEN "malformed" ELSE IF PolicyAllows(visual) THEN "success" ELSE "policy"

LEMMA InferredIsAllowed ==
  ASSUME NEW text \in Texts
  PROVE  Verdict(InferredVisual(text)) = "success"
<1> DEFINE v == InferredVisual(text)
           energy == Energy(text)
           turbulence == (energy * 8) \div 10
           count == Least(10000, 2000 + (energy * 8) \div 1000)
<1>1. energy \in Unit
  BY SMT, InferredScalars
<1>2. /\ v.turbulence = turbulence /\ v.luminance = energy /\ v.count = count
      /\ v.primary = MoodColour(text) /\ v.secondary = "white"
  BY SMT DEF InferredVisual
<1> HIDE DEF v, energy
<1>3. turbulence \in Unit
  BY SMT, <1>1, OneIs, UnitIs
<1>4. count \in Nat
  BY SMT, <1>1, OneIs, UnitIs DEF Least
<1> HIDE DEF turbulence, count
<1>5. MoodColour(text) \in {"gold", "green", "orange", "cyan"}
  BY SMT DEF MoodColour
<1>6. Null # "white" /\ Null \notin {"gold", "green", "orange", "cyan"}
  BY TextAssumption DEF Colours
<1>7. WellFormed(v)
  BY SMT, <1>1, <1>2, <1>3, <1>4, <1>5, <1>6 DEF WellFormed, Unit
<1>8. PolicyAllows(v)
  BY SMT, <1>2, <1>5 DEF PolicyAllows
<1> QED
  BY SMT, <1>7, <1>8 DEF Verdict, v

LEMMA AdaptedIsAllowed ==
  ASSUME NEW k \in DOMAIN Contracts, Canonical(Contracts[k]), Contracts[k].primary # "crimson"
  PROVE  Verdict(VisualManifestation(Contracts[k])) = "success"
<1> DEFINE contract == Contracts[k]
           v == VisualManifestation(contract)
<1>1. contract.turbulence \in Scalar /\ contract.glow \in Scalar
  BY SMT, ContractAssumption
<1>2. 0 \in Unit /\ 500000 \in Unit
  BY SMT, OneIs, UnitIs
<1>3. /\ v.turbulence = ClampFloat(contract.turbulence, 0)
      /\ v.luminance = ClampFloat(contract.glow, 500000)
      /\ v.primary = IF contract.primary = Missing THEN "white" ELSE contract.primary
      /\ v.secondary = IF contract.secondary = Missing THEN Null ELSE contract.secondary
      /\ v.count = ControlsOf(contract).count
  BY SMT DEF VisualManifestation
<1>8. v.primary # Null /\ v.secondary # Null /\ v.primary # "crimson"
  BY <1>3, TextAssumption DEF Canonical, Colours
<1>4. v.turbulence \in Unit /\ v.luminance \in Unit
  BY SMT, <1>1, <1>2, <1>3, ClampedIsUnit
<1>5. v.count >= 0
  <2>1. CASE contract.controls = Missing
    <3>1. v.count = ParticleCount(Density(contract))
      BY SMT, <2>1, <1>3 DEF ControlsOf, RendererControls
    <3> QED
      BY SMT, <3>1, DensityIsUnit, ParticlesRoundTrip
  <2>2. CASE contract.controls # Missing
    BY SMT, <2>2, <1>3 DEF ControlsOf, Canonical
  <2> QED
    BY SMT, <2>1, <2>2
<1>6. WellFormed(v)
  BY SMT, <1>8, <1>4, <1>5 DEF WellFormed, Unit
<1>7. PolicyAllows(v)
  BY <1>8 DEF PolicyAllows
<1> QED
  BY SMT, <1>6, <1>7 DEF Verdict

-----------------------------------------------------------------------------
(* Drift                                                                     *)

LEMMA AbsDiffIsDistance ==
  ASSUME NEW a \in Int, NEW b \in Int
  PROVE  AbsDiff(a, b) \in Nat /\ AbsDiff(a, b) = AbsDiff(b, a) /\ (AbsDiff(a, b) = 0 <=> a = b)
BY DEF AbsDiff

LEMMA WeightedSum ==
  ASSUME NEW u \in Nat, NEW v \in Nat, NEW w \in Nat
  PROVE  /\ 55 * u + 25 * v + 40 * w \in Nat
         /\ 55 * u + 25 * v + 40 * w = 0 <=> u = 0 /\ v = 0 /\ w = 0
OBVIOUS

DriftBetween(x, y) == Deltas(Semantic(InferredIntent(x)), Semantic(InferredIntent(y)))

LEMMA DriftFields ==
  ASSUME NEW x \in Texts, NEW y \in Texts
  PROVE  /\ DriftBetween(x, y).valence = AbsDiff(Valence(x), Valence(y))
         /\ DriftBetween(x, y).energy = AbsDiff(Energy(x), Energy(y))
         /\ DriftBetween(x, y).ambiguity =
              AbsDiff(One - AbsDiff(Valence(x), 0), One - AbsDiff(Valence(y), 0))
         /\ DriftBetween(x, y).valence \in Nat /\ DriftBetween(x, y).energy \in Nat
         /\ DriftBetween(x, y).ambiguity \in Nat
         /\ DriftBetween(x, y) = DriftBetween(y, x)
<1>1. /\ Valence(x) \in Int /\ Valence(y) \in Int /\ Energy(x) \in Int /\ Energy(y) \in Int
      /\ One \in Int
  BY InferredScalars, UnitIs, OneIs
<1>2. AbsDiff(Valence(x), 0) \in Nat /\ AbsDiff(Valence(y), 0) \in Nat
  BY <1>1, AbsDiffIsDistance
<1>3. One - AbsDiff(Valence(x), 0) \in Int /\ One - AbsDiff(Valence(y), 0) \in Int
  BY <1>1, <1>2
<1>4. /\ DriftBetween(x, y) =
           [valence |-> AbsDiff(Valence(x), Valence(y)), energy |-> AbsDiff(Energy(x), Energy(y)),
            ambiguity |-> AbsDiff(One - AbsDiff(Valence(x), 0), One - AbsDiff(Valence(y), 0))]
      /\ DriftBetween(y, x) =
           [valence |-> AbsDiff(Valence(y), Valence(x)), energy |-> AbsDiff(Energy(y), Energy(x)),
            ambiguity |-> AbsDiff(One - AbsDiff(Valence(y), 0), One - AbsDiff(Valence(x), 0))]
  BY DEF DriftBetween, Deltas, Semantic, InferredIntent
<1>5. /\ AbsDiff(Valence(x), Valence(y)) \in Nat
      /\ AbsDiff(Valence(x), Valence(y)) = AbsDiff(Valence(y), Valence(x))
  BY <1>1, AbsDiffIsDistance
<1>6. /\ AbsDiff(Energy(x), Energy(y)) \in Nat
      /\ AbsDiff(Energy(x), Energy(y)) = AbsDiff(Energy(y), Energy(x))
  BY <1>1, AbsDiffIsDistance
<1> DEFINE p == One - AbsDiff(Valence(x), 0)
           q == One - AbsDiff(Valence(y), 0)
<1>7. AbsDiff(p, q) \in Nat /\ AbsDiff(p, q) = AbsDiff(q, p)
  <2> HIDE DEF p, q
  <2>1. p \in Int /\ q \in Int
    BY <1>3 DEF p, q
  <2> QED
    BY <2>1, AbsDiffIsDistance
<1> QED
  BY <1>4, <1>5, <1>6, <1>7

LEMMA DriftOfTexts ==
  ASSUME NEW x \in Texts, NEW y \in Texts
  PROVE  /\ Divergence(DriftBetween(x, y)) = Divergence(DriftBetween(y, x))
         /\ Incoherence(DriftBetween(x, y)) = Incoherence(DriftBetween(y, x))
         /\ Divergence(DriftBetween(x, y)) = 0 <=>
              Valence(x) = Valence(y) /\ Energy(x) = Energy(y)
         /\ Instability(DriftBetween(x, y), InferredVisual(y)) > 0 =>
              Incoherence(DriftBetween(x, y)) > 0
<1> DEFINE d == DriftBetween(x, y)
<1>1. d.valence \in Nat /\ d.energy \in Nat /\ d.ambiguity \in Nat
  BY DriftFields
<1>2. DriftBetween(y, x) = d
  BY DriftFields
<1>3. d.valence = 0 <=> Valence(x) = Valence(y)
  <2>1. Valence(x) \in Int /\ Valence(y) \in Int
    BY InferredScalars
  <2>2. d.valence = AbsDiff(Valence(x), Valence(y))
    BY DriftFields
  <2> QED
    BY ONLY <2>1, <2>2, AbsDiffIsDistance
<1>4. d.energy = 0 <=> Energy(x) = Energy(y)
  <2>1. Energy(x) \in Int /\ Energy(y) \in Int
    BY InferredScalars, UnitIs
  <2>2. d.energy = AbsDiff(Energy(x), Energy(y))
    BY DriftFields
  <2> QED
    BY ONLY <2>1, <2>2, AbsDiffIsDistance
<1>5. Valence(x) = Valence(y) => d.ambiguity = 0
  <2> SUFFICES ASSUME Valence(x) = Valence(y) PROVE d.ambiguity = 0
    OBVIOUS
  <2> DEFINE p == One - AbsDiff(Valence(x), 0)
  <2>1. d.ambiguity = AbsDiff(p, p)
    BY DriftFields
  <2>2. p \in Int
    BY InferredScalars, AbsDiffIsDistance, OneIs
  <2> HIDE DEF p, d
  <2> QED
    BY <2>1, <2>2, AbsDiffIsDistance
<1> DEFINE incoherence == Incoherence(d)
           divergence == Divergence(d)
           cadence == Cadence(InferredVisual(y))
           factor == 350000 + (Least(cadence, 120000) * 5) \div 4
<1>6. divergence = 0 <=> d.valence = 0 /\ d.energy = 0 /\ d.ambiguity = 0
  <2>1. divergence = Least(100 * One, 55 * d.valence + 25 * d.energy + 40 * d.ambiguity)
    BY DEF Divergence
  <2> DEFINE sum == 55 * d.valence + 25 * d.energy + 40 * d.ambiguity
  <2>2. sum \in Nat /\ (sum = 0 <=> d.valence = 0 /\ d.energy = 0 /\ d.ambiguity = 0)
    <3> HIDE DEF d
    <3>1. PICK u \in Nat : u = d.valence
      BY <1>1
    <3>2. PICK v \in Nat : v = d.energy
      BY <1>1
    <3>3. PICK w \in Nat : w = d.ambiguity
      BY <1>1
    <3>4. sum = 55 * u + 25 * v + 40 * w
      BY ONLY <3>1, <3>2, <3>3 DEF sum
    <3> HIDE DEF sum
    <3>5. 55 * u + 25 * v + 40 * w \in Nat
      BY ONLY u \in Nat, v \in Nat, w \in Nat
    <3>6. 55 * u + 25 * v + 40 * w = 0 <=> u = 0 /\ v = 0 /\ w = 0
      BY ONLY u \in Nat, v \in Nat, w \in Nat
    <3> QED
      BY <3>1, <3>2, <3>3, <3>4, <3>5, <3>6, Zenon
  <2>3. 100 * One \in Nat \ {0}
    BY SMT, OneIs
  <2>4. Least(100 * One, sum) = 0 <=> sum = 0
    <3> HIDE DEF sum
    <3> QED
      BY <2>2, <2>3 DEF Least
  <2> QED
    BY <2>1, <2>2, <2>4
<1>7. incoherence \in Nat
  <2>1. incoherence = Least(10 * One, 6 * d.valence + 3 * d.energy + 2 * d.ambiguity)
    BY DEF Incoherence
  <2> HIDE DEF d, incoherence
  <2> QED
    BY SMT, <1>1, <2>1, OneIs DEF Least
<1>8. cadence \in Int
  <2>1. InferredVisual(y).luminance = Energy(y)
    BY DEF InferredVisual
  <2>2. Energy(y) \in Int
    BY InferredScalars, UnitIs
  <2>3. cadence = LET asked == 16000 + (Energy(y) * 22) \div 1000
                  IN IF asked < 12000 THEN 12000 ELSE Least(asked, 60000)
    BY SMT, <2>1 DEF Cadence
  <2> HIDE DEF cadence
  <2> QED
    BY SMT, <2>2, <2>3 DEF Least
<1>9. Instability(d, InferredVisual(y)) = ((incoherence \div 10000) * factor) \div 1000
  BY SMT DEF Instability
<1>10. factor \in Int
  <2> HIDE DEF cadence
  <2> QED
    BY SMT, <1>8 DEF Least
<1>11. incoherence = 0 => Instability(d, InferredVisual(y)) = 0
  <2> HIDE DEF d, incoherence, factor
  <2>1. incoherence = 0 => incoherence \div 10000 = 0
    BY SMT
  <2>2. 0 * factor = 0
    BY <1>10
  <2> QED
    BY SMT, <1>9, <2>1, <2>2
<1> HIDE DEF d, incoherence, divergence, cadence, factor
<1>12. Instability(d, InferredVisual(y)) > 0 => incoherence > 0
  BY <1>7, <1>11
<1> QED
  BY <1>2, <1>3, <1>4, <1>5, <1>6, <1>12 DEF incoherence, divergence, d

-----------------------------------------------------------------------------
(* The adapters                                                              *)

\* A number of particles is what a density rounds to, if it is less than half a particle
\* off it.
LEMMA NearestCount ==
  ASSUME NEW d \in Unit, NEW count \in Int,
         AbsDiff(count * (One \div Particles), d) < 10
  PROVE  ParticleCount(d) = count
<1>1. One \div Particles = 20 /\ d \in Nat
  BY OneIs, UnitIs
<1>2. ParticleCount(d) \in Nat /\ AbsDiff(ParticleCount(d) * 20, d) <= 10
  BY <1>1, ParticlesRoundTrip
<1>3. AbsDiff(count * 20, d) < 10
  BY <1>1
<1> QED
  BY SMT, <1>1, <1>2, <1>3 DEF AbsDiff

LEMMA ShownDensityIsInt ==
  ASSUME NEW k \in DOMAIN Contracts
  PROVE  ShownDensity(VisualManifestation(Contracts[k])) \in Int
<1> DEFINE contract == Contracts[k]
<1>1. ControlsOf(contract).count \in Int
  <2>1. CASE contract.controls = Missing
    <3>1. ControlsOf(contract).count = ParticleCount(Density(contract))
      BY <2>1 DEF ControlsOf, RendererControls
    <3>2. ParticleCount(Density(contract)) \in Nat
      BY DensityIsUnit, ParticlesRoundTrip
    <3> QED
      BY SMT, <3>1, <3>2
  <2>2. CASE contract.controls # Missing
    BY <2>2, ContractAssumption DEF ControlsOf
  <2> QED
    BY <2>1, <2>2
<1>2. VisualManifestation(contract).count = ControlsOf(contract).count
  BY DEF VisualManifestation
<1> DEFINE count == ControlsOf(contract).count
<1>3. ShownDensity(VisualManifestation(contract)) = count * 20
  BY <1>2, OneIs DEF ShownDensity
<1> HIDE DEF count
<1>4. count * 20 \in Int
  BY SMT, <1>1 DEF count
<1> QED
  BY <1>3, <1>4

\* Without controls of its own, a contract is the same to both adapters.
LEMMA IntentsAgree ==
  ASSUME NEW k \in DOMAIN Contracts, Contracts[k].controls = Missing
  PROVE  /\ VisualManifestation(Contracts[k]).shape = LegacyParameters(Contracts[k]).shape
         /\ VisualManifestation(Contracts[k]).turbulence = LegacyParameters(Contracts[k]).turbulence
         /\ ShownDensity(VisualManifestation(Contracts[k])) = LegacyParameters(Contracts[k]).density
BY DEF VisualManifestation, LegacyParameters, ControlsOf, RendererControls, ShownDensity

\* Controls of its own that are less than half a particle off its density are its amount.
LEMMA NearControlsAgree ==
  ASSUME NEW k \in DOMAIN Contracts,
         AbsDiff(ShownDensity(VisualManifestation(Contracts[k])), Density(Contracts[k])) < 10
  PROVE  ShownDensity(VisualManifestation(Contracts[k])) = LegacyParameters(Contracts[k]).density
<1> DEFINE contract == Contracts[k]
           count == ControlsOf(contract).count
<1>1. CASE contract.controls = Missing
  BY <1>1, IntentsAgree
<1>2. CASE contract.controls # Missing
  <2>1. count \in Int
    BY <1>2, ContractAssumption DEF ControlsOf
  <2>2. VisualManifestation(contract).count = count
    BY DEF VisualManifestation
  <2>3. ShownDensity(VisualManifestation(contract)) = count * (One \div Particles)
    BY <2>2 DEF ShownDensity
  <2>4. Density(contract) \in Unit
    BY DensityIsUnit
  <2> HIDE DEF count
  <2>5. ParticleCount(Density(contract)) = count
    BY <2>1, <2>3, <2>4, NearestCount
  <2>6. LegacyParameters(contract).density = ParticleCount(Density(contract)) * (One \div Particles)
    BY DEF LegacyParameters, RendererControls
  <2> QED
    BY <2>3, <2>5, <2>6
<1> QED
  BY <1>1, <1>2

\* The particle count of the legacy parameters is worth the density it came from, but for
\* half a particle.
LEMMA DensityReturns ==
  ASSUME NEW k \in DOMAIN Contracts
  PROVE  AbsDiff(LegacyParameters(Contracts[k]).density, Density(Contracts[k])) <= 10
<1>1. LegacyParameters(Contracts[k]).density =
        ParticleCount(Density(Contracts[k])) * (One \div Particles)
  BY DEF LegacyParameters, RendererControls
<1> QED
  BY <1>1, DensityIsUnit, ParticlesRoundTrip

-----------------------------------------------------------------------------
(* Telemetry                                                                 *)

LEMMA LeastNatural ==
  ASSUME NEW T \in SUBSET Nat, T # {}
  PROVE  \E x \in T : \A y \in T : x <= y
<1>1. PICK x \in T : \A y \in T : ~ (<<y, x>> \in OpToRel(<, Nat))
  BY NatLessThanWellFounded, WFMin
<1> SUFFICES ASSUME NEW y \in T, ~ (x <= y) PROVE FALSE
  OBVIOUS
<1>2. x \in Nat /\ y \in Nat /\ y < x
  OBVIOUS
<1>3. <<y, x>> \in OpToRel(<, Nat)
  BY <1>2 DEF OpToRel
<1> QED
  BY <1>1, <1>3

Stored == [value : Int, ts : Int]

\* What is kept of a series is its newest points, as many as there are up to SeriesMax.
LEMMA TrimmedIs ==
  ASSUME NEW s \in Seq(Stored)
  PROVE  LET n == Least(Len(s), SeriesMax)
         IN /\ n \in Nat /\ n <= SeriesMax /\ n <= Len(s)
            /\ Trimmed(s) = SubSeq(s, Len(s) - n + 1, Len(s))
            /\ Trimmed(s) \in Seq(Stored) /\ Len(Trimmed(s)) = n
            /\ \A i \in 1..n : Trimmed(s)[i] = s[Len(s) - n + i]
<1> DEFINE n == Least(Len(s), SeriesMax)
           from == Len(s) - n + 1
<1>1. Len(s) \in Nat /\ SeriesMax \in Nat \ {0} /\ \A i \in 1..Len(s) : s[i] \in Stored
  BY GatewayAssumption, LenProperties, ElementOfSeq
<1>2. /\ n \in Nat /\ n <= SeriesMax /\ n <= Len(s)
      /\ n = IF Len(s) > SeriesMax THEN SeriesMax ELSE Len(s)
  BY <1>1 DEF Least
<1>3. from = IF Len(s) > SeriesMax THEN Len(s) - SeriesMax + 1 ELSE 1
  BY <1>1, <1>2
<1>4. Trimmed(s) = SubSeq(s, from, Len(s))
  BY <1>3 DEF Trimmed
<1> HIDE DEF n
<1>5. from \in Int /\ Len(s) \in Int /\ \A i \in from..Len(s) : s[i] \in Stored
  BY <1>1, <1>2
<1>6. /\ SubSeq(s, from, Len(s)) \in Seq(Stored)
      /\ Len(SubSeq(s, from, Len(s))) = IF from <= Len(s) THEN Len(s) - from + 1 ELSE 0
      /\ \A i \in 1..(Len(s) - from + 1) : SubSeq(s, from, Len(s))[i] = s[from + i - 1]
  <2> HIDE DEF from
  <2> QED
    BY <1>5, SubSeqProperties
<1>7. Len(s) - from + 1 = n
  BY <1>1, <1>2
<1>8. Len(Trimmed(s)) = n
  BY <1>1, <1>2, <1>4, <1>6, <1>7
<1>9. ASSUME NEW i \in 1..n PROVE Trimmed(s)[i] = s[Len(s) - n + i]
  <2>1. Trimmed(s)[i] = s[from + i - 1]
    BY <1>4, <1>6, <1>7
  <2>2. from + i - 1 = Len(s) - n + i
    BY <1>1, <1>2
  <2> QED
    BY <2>1, <2>2
<1>10. Trimmed(s) \in Seq(Stored)
  BY <1>4, <1>6
<1> QED
  BY <1>2, <1>4, <1>8, <1>9, <1>10 DEF n

\* A point that is added to what was kept leaves what is kept of all points.
LEMMA TrimmedAgain ==
  ASSUME NEW s \in Seq(Stored), NEW x \in Stored
  PROVE  Trimmed(Append(Trimmed(s), x)) = Trimmed(Append(s, x))
<1> DEFINE n == Least(Len(s), SeriesMax)
           k == Trimmed(s)
           a == Append(k, x)
           b == Append(s, x)
           m == Least(Len(a), SeriesMax)
           o == Least(Len(b), SeriesMax)
<1>1. /\ n \in Nat /\ n <= SeriesMax /\ n <= Len(s) /\ k \in Seq(Stored) /\ Len(k) = n
      /\ \A i \in 1..n : k[i] = s[Len(s) - n + i]
  BY TrimmedIs
<1>2. Len(s) \in Nat /\ SeriesMax \in Nat \ {0} /\ n = IF Len(s) < SeriesMax THEN Len(s) ELSE SeriesMax
  BY GatewayAssumption, LenProperties DEF Least
<1> HIDE DEF k, n
<1>3. /\ a \in Seq(Stored) /\ Len(a) = n + 1 /\ a[n + 1] = x
      /\ \A i \in 1..n : a[i] = k[i]
  BY <1>1, AppendProperties
<1>4. /\ b \in Seq(Stored) /\ Len(b) = Len(s) + 1 /\ b[Len(s) + 1] = x
      /\ \A i \in 1..Len(s) : b[i] = s[i]
  BY AppendProperties
<1> HIDE DEF a, b
<1>5. /\ Trimmed(a) \in Seq(Stored) /\ Len(Trimmed(a)) = m
      /\ \A i \in 1..m : Trimmed(a)[i] = a[Len(a) - m + i]
  BY <1>3, TrimmedIs
<1>6. /\ Trimmed(b) \in Seq(Stored) /\ Len(Trimmed(b)) = o
      /\ \A i \in 1..o : Trimmed(b)[i] = b[Len(b) - o + i]
  BY <1>4, TrimmedIs
<1>7. m = o /\ m \in Nat /\ m <= n + 1
  BY <1>1, <1>2, <1>3, <1>4 DEF Least
<1> HIDE DEF m, o
<1>8. ASSUME NEW i \in 1..m PROVE Trimmed(a)[i] = Trimmed(b)[i]
  <2>1. Trimmed(a)[i] = a[n + 1 - m + i] /\ Trimmed(b)[i] = b[Len(s) + 1 - m + i]
    <3>1. /\ Len(a) = n + 1 /\ Len(b) = Len(s) + 1 /\ m = o
          /\ n \in Nat /\ m \in Nat /\ Len(s) \in Nat /\ i \in 1..m
      BY <1>1, <1>2, <1>3, <1>4, <1>7
    <3>2. Trimmed(a)[i] = a[Len(a) - m + i]
      BY <1>5
    <3>3. Trimmed(b)[i] = b[Len(b) - o + i]
      BY <1>6, <3>1
    <3> QED
      BY ONLY <3>1, <3>2, <3>3
  <2>2. CASE i = m
    <3>1. n + 1 - m + i = n + 1 /\ Len(s) + 1 - m + i = Len(s) + 1
      BY <2>2, <1>1, <1>2, <1>7
    <3> QED
      BY <2>1, <3>1, <1>3, <1>4
  <2>3. CASE i # m
    <3> DEFINE j == n + 1 - m + i
    <3>1. /\ j \in 1..n /\ Len(s) - n + j \in 1..Len(s)
          /\ Len(s) + 1 - m + i = Len(s) - n + j
      <4>1. /\ n \in Nat /\ m \in Nat /\ Len(s) \in Nat /\ n <= Len(s) /\ m <= n + 1
            /\ i \in 1..m /\ i # m
        BY <2>3, <1>1, <1>2, <1>7
      <4> QED
        BY ONLY <4>1
    <3> HIDE DEF j
    <3>2. a[j] = s[Len(s) - n + j]
      BY <3>1, <1>1, <1>3
    <3>3. b[Len(s) - n + j] = s[Len(s) - n + j]
      BY <3>1, <1>4
    <3> QED
      BY <2>1, <3>1, <3>2, <3>3 DEF j
  <2> QED
    BY <2>2, <2>3
<1>9. Trimmed(a) = Trimmed(b)
  BY <1>5, <1>6, <1>7, <1>8, SeqEqual
<1> QED
  BY <1>9 DEF a, b, k

\* The recursion of a batch has a solution: a function as far as point n exists for every
\* n, as there can be no first point which it does not reach.
LEMMA IngestionIs ==
  ASSUME NEW batch \in Seq(TelemetryPoint)
  PROVE  /\ Ingestion(batch)[0] = [kept |-> tsdb, all |-> arrived]
         /\ \A n \in 1..Len(batch) :
              Ingestion(batch)[n] = Ingested(Ingestion(batch)[n - 1], batch[n])
<1> DEFINE first == [kept |-> tsdb, all |-> arrived]
           Solves(f, n) == f = [k \in 0..n |-> IF k = 0 THEN first
                                               ELSE Ingested(f[k - 1], batch[k])]
           Unsolved == {n \in Nat : ~ \E f : Solves(f, n)}
<1>1. \E f : Solves(f, 0)
  <2> DEFINE f == [k \in 0..0 |-> first]
  <2>1. [k \in 0..0 |-> IF k = 0 THEN first ELSE Ingested(f[k - 1], batch[k])] = f
    OBVIOUS
  <2> QED
    BY <2>1
<1>2. ASSUME NEW n \in Nat \ {0}, \E f : Solves(f, n - 1) PROVE \E f : Solves(f, n)
  <2>1. PICK f : Solves(f, n - 1)
    BY <1>2
  <2> DEFINE last == Ingested(f[n - 1], batch[n])
             g == [k \in 0..n |-> IF k = n THEN last ELSE f[k]]
  <2>2. ASSUME NEW k \in 0..n
        PROVE  g[k] = IF k = 0 THEN first ELSE Ingested(g[k - 1], batch[k])
    <3>1. CASE k = n
      <4>1. g[k] = last
        BY <3>1
      <4>2. n - 1 \in 0..n /\ n - 1 # n
        OBVIOUS
      <4>3. g[n - 1] = f[n - 1]
        BY <4>2, Zenon
      <4> HIDE DEF g
      <4> QED
        BY <4>1, <4>3, <3>1
    <3>2. CASE k # n
      <4>1. k \in 0..(n - 1)
        BY <3>2
      <4>2. g[k] = f[k]
        BY <3>2
      <4>3. f[k] = IF k = 0 THEN first ELSE Ingested(f[k - 1], batch[k])
        BY ONLY <2>1, <4>1
      <4>4. k # 0 => g[k - 1] = f[k - 1]
        BY <4>1
      <4> HIDE DEF g, first
      <4> QED
        BY <4>2, <4>3, <4>4
    <3> QED
      BY <3>1, <3>2
  <2>3. g = [k \in 0..n |-> g[k]]
    OBVIOUS
  <2> HIDE DEF g
  <2>4. g = [k \in 0..n |-> IF k = 0 THEN first ELSE Ingested(g[k - 1], batch[k])]
    BY ONLY <2>2, <2>3
  <2> QED
    BY <2>4
<1>3. Unsolved = {}
  <2> SUFFICES ASSUME Unsolved # {} PROVE FALSE
    OBVIOUS
  <2>1. PICK n \in Unsolved : \A k \in Unsolved : n <= k
    <3> HIDE DEF Solves
    <3>1. Unsolved \in SUBSET Nat
      OBVIOUS
    <3> HIDE DEF Unsolved
    <3> QED
      BY <3>1, LeastNatural
  <2> HIDE DEF Solves
  <2>2. n \in Nat \ {0}
    BY <1>1
  <2>3. n - 1 \in Nat /\ n - 1 \notin Unsolved
    <3>1. n - 1 \in Nat /\ ~ (n <= n - 1)
      BY <2>2
    <3> HIDE DEF Unsolved
    <3> QED
      BY <2>1, <3>1
  <2>4. \E f : Solves(f, n - 1)
    BY <2>3
  <2> QED
    BY <1>2, <2>2, <2>4
<1>4. Len(batch) \in Nat
  BY LenProperties
<1>5. \E f : Solves(f, Len(batch))
  <2> HIDE DEF Solves
  <2> QED
    BY <1>3, <1>4
<1>6. Solves(Ingestion(batch), Len(batch))
  BY <1>5 DEF Ingestion
<1> HIDE DEF first
<1>7. \A k \in 0..Len(batch) : Ingestion(batch)[k] =
        IF k = 0 THEN first ELSE Ingested(Ingestion(batch)[k - 1], batch[k])
  BY <1>6
<1> QED
  BY <1>4, <1>7 DEF first

\* A store of series, each the newest points of all that arrived for it.
KeepsNewest(db) ==
  /\ db = [kept |-> db.kept, all |-> db.all]
  /\ db.kept \in [MetricNames -> Seq(Stored)] /\ db.all \in [MetricNames -> Seq(Stored)]
  /\ \A m \in MetricNames : db.kept[m] = Trimmed(db.all[m])

LEMMA IngestedKeeps ==
  ASSUME now \in Int, NEW db, KeepsNewest(db), NEW p \in TelemetryPoint
  PROVE  KeepsNewest(Ingested(db, p))
<1> DEFINE x == Dated(p)
           next == Ingested(db, p)
<1>1. x \in Stored /\ p.metric \in MetricNames
  BY DEF Dated, Stored, TelemetryPoint
<1>2. /\ db.kept \in [MetricNames -> Seq(Stored)] /\ db.all \in [MetricNames -> Seq(Stored)]
      /\ \A m \in MetricNames : db.kept[m] = Trimmed(db.all[m])
  BY DEF KeepsNewest
<1>3. /\ next = [kept |-> next.kept, all |-> next.all]
      /\ next.kept = [db.kept EXCEPT ![p.metric] = Trimmed(Append(db.kept[p.metric], x))]
      /\ next.all = [db.all EXCEPT ![p.metric] = Append(db.all[p.metric], x)]
  BY <1>1, <1>2 DEF Ingested
<1> HIDE DEF x, next
<1>4. /\ db.kept[p.metric] \in Seq(Stored) /\ db.all[p.metric] \in Seq(Stored)
      /\ db.kept[p.metric] = Trimmed(db.all[p.metric])
  BY <1>1, <1>2
<1>5. /\ Append(db.all[p.metric], x) \in Seq(Stored)
      /\ Append(db.kept[p.metric], x) \in Seq(Stored)
  BY <1>1, <1>4, AppendProperties
<1>6. Trimmed(Append(db.kept[p.metric], x)) \in Seq(Stored)
  BY <1>5, TrimmedIs
<1>7. Trimmed(Append(db.kept[p.metric], x)) = Trimmed(Append(db.all[p.metric], x))
  BY <1>1, <1>4, TrimmedAgain
<1> DEFINE kept == Trimmed(Append(db.kept[p.metric], x))
           all == Append(db.all[p.metric], x)
<1> HIDE DEF kept, all
<1>8. next.kept \in [MetricNames -> Seq(Stored)] /\ next.all \in [MetricNames -> Seq(Stored)]
  <2>1. kept \in Seq(Stored) /\ all \in Seq(Stored)
    BY <1>5, <1>6 DEF kept, all
  <2>2. next.kept = [db.kept EXCEPT ![p.metric] = kept] /\ next.all = [db.all EXCEPT ![p.metric] = all]
    BY <1>3 DEF kept, all
  <2> QED
    BY ONLY <1>1, <1>2, <2>1, <2>2
<1>9. ASSUME NEW m \in MetricNames PROVE next.kept[m] = Trimmed(next.all[m])
  <2>1. CASE m = p.metric
    BY <2>1, <1>2, <1>3, <1>7
  <2>2. CASE m # p.metric
    <3>1. next.kept[m] = db.kept[m] /\ next.all[m] = db.all[m]
      BY <2>2, <1>2, <1>3
    <3> QED
      BY <3>1, <1>2
  <2> QED
    BY <2>1, <2>2
<1>10. KeepsNewest(next)
  BY <1>3, <1>8, <1>9 DEF KeepsNewest
<1> QED
  BY <1>10 DEF next

\* Nothing a batch contains spoils it: there is no first point after which it would be.
LEMMA IngestionKeeps ==
  ASSUME now \in Int, KeepsNewest([kept |-> tsdb, all |-> arrived]),
         NEW batch \in Seq(TelemetryPoint)
  PROVE  KeepsNewest(Ingestion(batch)[Len(batch)])
<1> DEFINE Spoilt == {n \in 0..Len(batch) : ~ KeepsNewest(Ingestion(batch)[n])}
<1>1. Len(batch) \in Nat /\ \A n \in 1..Len(batch) : batch[n] \in TelemetryPoint
  BY LenProperties, ElementOfSeq
<1>2. 0 \notin Spoilt
  BY IngestionIs
<1>3. ASSUME NEW n \in 1..Len(batch), n - 1 \notin Spoilt PROVE n \notin Spoilt
  <2>1. KeepsNewest(Ingestion(batch)[n - 1])
    BY <1>1, <1>3
  <2>2. Ingestion(batch)[n] = Ingested(Ingestion(batch)[n - 1], batch[n])
    BY IngestionIs
  <2>3. KeepsNewest(Ingested(Ingestion(batch)[n - 1], batch[n]))
    <3>1. batch[n] \in TelemetryPoint
      BY <1>1
    <3> QED
      BY <2>1, <3>1, IngestedKeeps
  <2> QED
    BY <2>2, <2>3
<1>4. Spoilt = {}
  <2> SUFFICES ASSUME Spoilt # {} PROVE FALSE
    OBVIOUS
  <2>1. Spoilt \in SUBSET Nat /\ \A n \in Spoilt : n \in 0..Len(batch)
    BY <1>1
  <2> HIDE DEF Spoilt
  <2>2. PICK n \in Spoilt : \A k \in Spoilt : n <= k
    BY <2>1, LeastNatural
  <2>3. n \in 1..Len(batch) /\ ~ (n <= n - 1)
    BY <1>1, <1>2, <2>1
  <2>4. n - 1 \notin Spoilt
    BY <2>2, <2>3
  <2> QED
    BY <1>3, <2>2, <2>3, <2>4
<1> QED
  BY <1>1, <1>4

\* Finitely many rows, each with a value.
Window(values) ==
  /\ IsFiniteSet(DOMAIN values)
  /\ \A i \in DOMAIN values : values[i] \in Int

LEMMA SizesOf ==
  ASSUME NEW values, Window(values), NEW D \in SUBSET DOMAIN values
  PROVE  IsFiniteSet(D) /\ Cardinality(D) \in Nat
BY FS_Subset, FS_CardinalityType DEF Window

\* A part of it that leaves something out is smaller.
LEMMA SmallerPart ==
  ASSUME NEW values, Window(values), NEW D \in SUBSET DOMAIN values,
         NEW E \in SUBSET D, E # D
  PROVE  Cardinality(E) < Cardinality(D)
<1>1. IsFiniteSet(D) /\ Cardinality(D) \in Nat /\ Cardinality(E) \in Nat
  BY SizesOf
<1>2. Cardinality(E) <= Cardinality(D) /\ (Cardinality(D) = Cardinality(E) => D = E)
  BY <1>1, FS_Subset
<1> QED
  BY <1>1, <1>2

LEMMA LargestIs ==
  ASSUME NEW values, Window(values), NEW D \in SUBSET DOMAIN values, D # {}
  PROVE  \E i \in D : \A j \in D : values[j] <= values[i]
<1> DEFINE Above(i) == {j \in D : values[i] < values[j]}
           Sizes == {Cardinality(Above(i)) : i \in D}
<1>1. \A i \in D : Above(i) \in SUBSET DOMAIN values
  OBVIOUS
<1> HIDE DEF Above
<1>2. Sizes \in SUBSET Nat /\ Sizes # {}
  BY <1>1, SizesOf
<1>3. PICK n \in Sizes : \A k \in Sizes : n <= k
  <2> HIDE DEF Sizes
  <2> QED
    BY <1>2, LeastNatural
<1>4. PICK i \in D : n = Cardinality(Above(i))
  OBVIOUS
<1>5. ASSUME NEW j \in D, ~ (values[j] <= values[i]) PROVE FALSE
  <2>1. values[i] \in Int /\ values[j] \in Int /\ \A k \in D : values[k] \in Int
    BY DEF Window
  <2>2. values[i] < values[j]
    BY <1>5, <2>1
  <2>3. j \in Above(i) /\ j \notin Above(j) /\ Above(j) \subseteq Above(i)
    BY <2>1, <2>2 DEF Above
  <2>4. Cardinality(Above(j)) < Cardinality(Above(i))
    BY <1>1, <2>3, SmallerPart
  <2>5. Cardinality(Above(i)) \in Nat /\ Cardinality(Above(j)) \in Nat
    BY <1>1, SizesOf
  <2>6. Cardinality(Above(i)) <= Cardinality(Above(j))
    BY <1>3, <1>4
  <2> QED
    BY <2>4, <2>5, <2>6
<1> QED
  BY <1>5

\* At each place of a sorted window stands one of its values.
LEMMA OrderedIs ==
  ASSUME NEW values, Window(values), NEW k \in 1..Cardinality(DOMAIN values)
  PROVE  LET v == Ordered(values)[k]
         IN /\ v \in {values[i] : i \in DOMAIN values}
            /\ Cardinality(Smaller(values, v)) < k /\ k <= Cardinality(NotLarger(values, v))
<1> DEFINE rows == DOMAIN values
           size(i) == Cardinality(NotLarger(values, values[i]))
           Enough == {i \in rows : k <= size(i)}
           Sizes == {size(i) : i \in Enough}
<1>1. Cardinality(rows) \in Nat /\ \A i \in rows : values[i] \in Int
  BY SizesOf DEF Window
<1>2. \A v : NotLarger(values, v) \in SUBSET rows /\ Smaller(values, v) \in SUBSET rows
  BY DEF NotLarger, Smaller
<1>3. \A i \in rows : size(i) \in Nat
  BY <1>2, SizesOf
<1>4. Enough # {}
  <2>1. rows # {}
    BY FS_EmptySet
  <2>2. PICK i \in rows : \A j \in rows : values[j] <= values[i]
    BY <2>1, LargestIs
  <2>3. NotLarger(values, values[i]) = rows
    BY <2>2 DEF NotLarger
  <2>4. size(i) = Cardinality(rows)
    BY <2>3
  <2>5. k <= size(i)
    BY <1>1, <2>4
  <2> QED
    BY <2>5
<1>5. Sizes \in SUBSET Nat /\ Sizes # {}
  BY <1>3, <1>4
<1>6. PICK n \in Sizes : \A m \in Sizes : n <= m
  <2> HIDE DEF Sizes
  <2> QED
    BY <1>5, LeastNatural
<1>7. PICK i \in rows : k <= size(i) /\ n = size(i)
  OBVIOUS
<1>8. Cardinality(Smaller(values, values[i])) < k
  <2> DEFINE D == Smaller(values, values[i])
  <2>1. D \in SUBSET rows /\ Cardinality(D) \in Nat
    BY <1>2, SizesOf
  <2>2. CASE D = {}
    BY <2>2, FS_EmptySet
  <2>3. CASE D # {}
    <3> HIDE DEF D
    <3>1. PICK j \in D : \A o \in D : values[o] <= values[j]
      BY <2>1, <2>3, LargestIs
    <3>2. j \in rows /\ values[j] \in Int /\ values[i] \in Int /\ values[j] < values[i]
      BY <1>1, <2>1 DEF D, Smaller
    <3>3. NotLarger(values, values[j]) = D
      BY <1>1, <2>1, <3>1, <3>2 DEF D, Smaller, NotLarger
    <3>4. i \in NotLarger(values, values[i]) /\ i \notin D /\ D \subseteq NotLarger(values, values[i])
      BY <1>1 DEF D, Smaller, NotLarger
    <3>5. Cardinality(D) < size(i)
      <4> DEFINE L == NotLarger(values, values[i])
      <4>1. L \in SUBSET DOMAIN values /\ D \in SUBSET L /\ D # L
        BY <1>2, <3>4
      <4> HIDE DEF L
      <4>2. Cardinality(D) < Cardinality(L)
        BY <4>1, SmallerPart
      <4> QED
        BY <4>2 DEF L
    <3>6. size(j) = Cardinality(D)
      BY <3>3
    <3>7. ASSUME k <= Cardinality(D) PROVE FALSE
      <4>1. j \in Enough
        BY <3>2, <3>6, <3>7
      <4>2. size(i) <= size(j)
        BY <1>6, <1>7, <4>1
      <4> HIDE DEF size
      <4> QED
        BY <1>3, <1>7, <2>1, <3>2, <3>5, <3>6, <4>2
    <3> QED
      BY <2>1, <3>7 DEF D
  <2> QED
    BY <2>2, <2>3
<1> DEFINE Stands(v) == Cardinality(Smaller(values, v)) < k /\ k <= Cardinality(NotLarger(values, v))
           Vs == {values[j] : j \in rows}
<1>9. Ordered(values)[k] = CHOOSE v \in Vs : Stands(v)
  BY DEF Ordered
<1>10. values[i] \in Vs /\ Stands(values[i])
  BY <1>7, <1>8
<1> HIDE DEF Stands, Vs
<1>11. Ordered(values)[k] \in Vs /\ Stands(Ordered(values)[k])
  BY <1>9, <1>10
<1> QED
  BY <1>11 DEF Stands, Vs

\* The index of the p95 is in range, and as far along as 95 in 100.
LEMMA P95IndexIs ==
  ASSUME NEW n \in Nat \ {0}
  PROVE  /\ P95Index(n) + 1 \in 1..n
         /\ 100 * P95Index(n) <= 95 * n /\ 95 * n < 100 * (P95Index(n) + 1)
<1> DEFINE a == n * 95
           q == a \div 100
           r == a % 100
<1>1. a \in Nat /\ 100 \in Nat \ {0}
  OBVIOUS
<1> HIDE DEF a
<1>2. q \in Nat /\ r \in 0..(100 - 1) /\ a = 100 * q + r
  BY ONLY <1>1, Divides
<1>3. P95Index(n) = q
  BY DEF P95Index, a
<1> HIDE DEF q, r
<1>4. a = n * 95
  BY DEF a
<1> QED
  BY ONLY n \in Nat \ {0}, <1>2, <1>3, <1>4

-----------------------------------------------------------------------------
(* The invariant                                                             *)

\* Every phase a call may be in, with what it answered.
CallStates ==
  {[phase |-> "idle"], [phase |-> "waiting"], Answered(429, Missing), Answered(500, Missing)}
    \cup {Answered(200, InferredIntent(text)) : text \in Texts}

Started == {c \in Calls : calls[c].phase # "idle"}

MetricsOK ==
  /\ metrics \in [submissions : Nat, renders : Nat, failures : Nat, generated : Nat]
  /\ metrics.submissions = metrics.renders + metrics.failures
  /\ metrics.failures = 0 <=> \A s \in Sources : told[s] # "policy"
  /\ metrics.generated = Cardinality(Started)

\* A client has a visual of its call exactly when it got an intent, and both are
\* inferred from one text.
CallsOK ==
  /\ calls \in [Calls -> CallStates]
  /\ \A c \in Calls :
       \/ visuals[c] = Missing
            /\ (calls[c].phase = "answered" => calls[c].status # 200)
       \/ \E text \in Texts :
            calls[c] = Answered(200, InferredIntent(text)) /\ visuals[c] = InferredVisual(text)

\* What was said of a source is what would be said of its visual now: a visual that was
\* submitted is never another one.
AnswersOK ==
  /\ visuals = [s \in Sources |-> visuals[s]] /\ told = [s \in Sources |-> told[s]]
  /\ \A k \in DOMAIN Contracts : visuals[k] = VisualManifestation(Contracts[k])
  /\ \A s \in Sources :
       \/ told[s] = "nothing"
       \/ visuals[s] # Missing /\ told[s] = Verdict(visuals[s])

GatewayInv == MetricsOK /\ CallsOK /\ AnswersOK

LEMMA StatesOf ==
  ASSUME NEW state \in CallStates
  PROVE  /\ state.phase \in {"idle", "waiting", "answered"}
         /\ state.phase = "answered" => /\ state.status \in {200, 429, 500}
                                        /\ state.status = 200 =>
                                             \E text \in Texts : state.intent = InferredIntent(text)
BY DEF CallStates, Answered

LEMMA InitOK == Init => GatewayInv
<1> SUFFICES ASSUME Init PROVE GatewayInv
  OBVIOUS
<1> DEFINE first(s) == CASE s \in Calls             -> Missing
                         [] s \in DOMAIN Contracts  -> VisualManifestation(Contracts[s])
                         [] s \in DOMAIN OwnVisuals -> OwnVisuals[s]
<1>0. visuals = [s \in Sources |-> first(s)]
  BY DEF Init
<1>1. MetricsOK
  <2>1. Started = {}
    BY DEF Init, Started
  <2>2. Cardinality(Started) = 0
    BY <2>1, FS_EmptySet
  <2> QED
    BY <2>2 DEF Init, MetricsOK
<1>2. CallsOK
  <2>1. \A c \in Calls : first(c) = Missing
    BY GatewayAssumption
  <2> HIDE DEF first
  <2>2. calls = [c \in Calls |-> [phase |-> "idle"]]
    BY DEF Init
  <2>3. \A c \in Calls : visuals[c] = Missing
    BY <1>0, <2>1 DEF Sources
  <2> QED
    BY <2>2, <2>3 DEF CallsOK, CallStates
<1>3. AnswersOK
  <2>1. \A k \in DOMAIN Contracts : first(k) = VisualManifestation(Contracts[k])
    BY GatewayAssumption
  <2> HIDE DEF first
  <2>2. told = [s \in Sources |-> "nothing"]
    BY DEF Init
  <2>3. visuals = [s \in Sources |-> visuals[s]]
    BY <1>0
  <2>4. \A k \in DOMAIN Contracts : visuals[k] = VisualManifestation(Contracts[k])
    BY <1>0, <2>1 DEF Sources
  <2> QED
    BY <2>2, <2>3, <2>4 DEF AnswersOK
<1> QED
  BY <1>1, <1>2, <1>3 DEF GatewayInv

\* A call that starts counts, whatever became of it.
LEMMA GenerateOK ==
  ASSUME GatewayInv, NEW c \in Calls, Generate(c)
  PROVE  GatewayInv'
<1> USE DEF GatewayInv
<1>1. PICK state \in {[phase |-> "waiting"], Answered(500, Missing)} :
        calls' = [calls EXCEPT ![c] = state]
  BY DEF Generate
<1>2. state \in CallStates /\ state.phase # "idle"
      /\ (state.phase = "answered" => state.status # 200)
  BY <1>1 DEF CallStates, Answered
<1>3. calls' \in [Calls -> CallStates] /\ calls'[c] = state
      /\ \A e \in Calls \ {c} : calls'[e] = calls[e]
  BY <1>1, <1>2 DEF CallsOK
<1>4. /\ calls[c].phase = "idle" /\ visuals' = visuals /\ told' = told
      /\ metrics' = [metrics EXCEPT !.generated = metrics.generated + 1]
  BY DEF Generate, CountedNow
<1>5. MetricsOK'
  <2>1. Started' = Started \cup {c} /\ c \notin Started
    BY <1>2, <1>3, <1>4 DEF Started
  <2>2. IsFiniteSet(Started)
    BY GatewayAssumption, FS_Subset DEF Started
  <2>3. Cardinality(Started') = Cardinality(Started) + 1
    BY <2>1, <2>2, FS_AddElement
  <2> QED
    BY <1>4, <2>3 DEF MetricsOK
<1>6. CallsOK'
  <2>1. ASSUME NEW e \in Calls
        PROVE  \/ visuals'[e] = Missing
                    /\ (calls'[e].phase = "answered" => calls'[e].status # 200)
               \/ \E text \in Texts : calls'[e] = Answered(200, InferredIntent(text))
                                        /\ visuals'[e] = InferredVisual(text)
    <3>1. CASE e = c
      <4>1. visuals[c] = Missing
        BY <1>4 DEF CallsOK, Answered
      <4> QED
        BY <3>1, <4>1, <1>2, <1>3, <1>4
    <3>2. CASE e # c
      BY <3>2, <1>3, <1>4 DEF CallsOK
    <3> QED
      BY <3>1, <3>2
  <2> QED
    BY <2>1, <1>3 DEF CallsOK
<1>7. AnswersOK'
  BY <1>4 DEF AnswersOK
<1> QED
  BY <1>5, <1>6, <1>7

\* Nothing was submitted of a call that waits for its answer.
LEMMA ModelAnswersOK ==
  ASSUME GatewayInv, NEW c \in Calls, ModelAnswers(c)
  PROVE  GatewayInv'
<1> USE DEF GatewayInv
<1>1. PICK text \in Texts : /\ calls' = [calls EXCEPT ![c] = Answered(200, InferredIntent(text))]
                            /\ visuals' = [visuals EXCEPT ![c] = InferredVisual(text)]
  BY DEF ModelAnswers
<1>2. calls[c].phase = "waiting" /\ metrics' = metrics /\ told' = told
  BY DEF ModelAnswers
<1>3. Answered(200, InferredIntent(text)) \in CallStates
      /\ Answered(200, InferredIntent(text)).phase = "answered"
  BY DEF CallStates, Answered
<1>4. calls' \in [Calls -> CallStates] /\ calls'[c] = Answered(200, InferredIntent(text))
      /\ \A e \in Calls \ {c} : calls'[e] = calls[e]
  BY <1>1, <1>3 DEF CallsOK
<1>5. c \in Sources /\ c \notin DOMAIN Contracts
  BY GatewayAssumption DEF Sources
<1>6. visuals' = [s \in Sources |-> visuals'[s]] /\ visuals'[c] = InferredVisual(text)
      /\ \A s \in Sources \ {c} : visuals'[s] = visuals[s]
  BY <1>1, <1>5 DEF AnswersOK
<1>7. visuals[c] = Missing /\ told[c] = "nothing"
  <2>1. visuals[c] = Missing
    BY <1>2 DEF CallsOK, Answered
  <2> QED
    BY <2>1, <1>5 DEF AnswersOK
<1>8. MetricsOK'
  <2>1. Started' = Started
    BY <1>2, <1>3, <1>4 DEF Started
  <2> QED
    BY <2>1, <1>2 DEF MetricsOK
<1>9. CallsOK'
  <2>1. Calls \subseteq Sources
    BY DEF Sources
  <2> QED
    BY <2>1, <1>4, <1>6 DEF CallsOK
<1>10. AnswersOK'
  <2>1. DOMAIN Contracts \subseteq Sources
    BY DEF Sources
  <2> QED
    BY <2>1, <1>2, <1>5, <1>6, <1>7 DEF AnswersOK
<1> QED
  BY <1>8, <1>9, <1>10

LEMMA ModelFailsOK ==
  ASSUME GatewayInv, NEW c \in Calls, ModelFails(c)
  PROVE  GatewayInv'
<1> USE DEF GatewayInv
<1>1. PICK status \in {429, 500} : calls' = [calls EXCEPT ![c] = Answered(status, Missing)]
  BY DEF ModelFails
<1>2. /\ calls[c].phase = "waiting" /\ metrics' = metrics
      /\ told' = told /\ visuals' = visuals
  BY DEF ModelFails
<1>3. /\ Answered(status, Missing) \in CallStates
      /\ Answered(status, Missing).phase = "answered"
      /\ Answered(status, Missing).status # 200
  BY DEF CallStates, Answered
<1>4. calls' \in [Calls -> CallStates] /\ calls'[c] = Answered(status, Missing)
      /\ \A e \in Calls \ {c} : calls'[e] = calls[e]
  BY <1>1, <1>3 DEF CallsOK
<1>5. visuals[c] = Missing
  BY <1>2 DEF CallsOK, Answered
<1>6. MetricsOK'
  <2>1. Started' = Started
    BY <1>2, <1>3, <1>4 DEF Started
  <2> QED
    BY <2>1, <1>2 DEF MetricsOK
<1>7. CallsOK'
  BY <1>2, <1>3, <1>4, <1>5 DEF CallsOK
<1>8. AnswersOK'
  BY <1>2 DEF AnswersOK
<1> QED
  BY <1>6, <1>7, <1>8

\* A second submission of a visual gets the answer of the first.
LEMMA EmitOK ==
  ASSUME GatewayInv, NEW s \in Sources, Emit(s)
  PROVE  GatewayInv'
<1> USE DEF GatewayInv
<1> DEFINE verdict == Verdict(visuals[s])
<1>1. visuals[s] # Missing /\ calls' = calls /\ visuals' = visuals
  BY DEF Emit, generateVars
<1>2. told' = [told EXCEPT ![s] = verdict]
  BY DEF Emit, Verdict
<1>3. /\ verdict \in {"malformed", "success", "policy"}
      /\ verdict = "malformed" => metrics' = metrics
      /\ verdict = "success" => metrics' = [metrics EXCEPT !.submissions = @ + 1, !.renders = @ + 1]
      /\ verdict = "policy" => metrics' = [metrics EXCEPT !.submissions = @ + 1, !.failures = @ + 1]
  BY DEF Emit, Verdict
<1> HIDE DEF verdict
<1>4. told' = [t \in Sources |-> told'[t]] /\ told'[s] = verdict
      /\ \A t \in Sources \ {s} : told'[t] = told[t]
  BY <1>2 DEF AnswersOK
<1>5. told[s] \in {"nothing", verdict}
  BY DEF AnswersOK, verdict
<1>6. Started' = Started
  BY <1>1 DEF Started
<1>7. MetricsOK'
  <2>1. (\A t \in Sources : told'[t] # "policy")
          <=> verdict # "policy" /\ \A t \in Sources : told[t] # "policy"
    BY <1>4, <1>5
  <2>2. CASE verdict = "malformed"
    BY <2>1, <2>2, <1>3, <1>6 DEF MetricsOK
  <2>3. CASE verdict = "success"
    <3>1. metrics' = [metrics EXCEPT !.submissions = metrics.submissions + 1,
                                     !.renders = metrics.renders + 1]
      BY <2>3, <1>3
    <3>2. verdict # "policy"
      BY <2>3
    <3>3. /\ metrics.submissions \in Nat /\ metrics.renders \in Nat /\ metrics.failures \in Nat
          /\ metrics.generated \in Nat
          /\ metrics' = [submissions |-> metrics.submissions + 1, renders |-> metrics.renders + 1,
                         failures |-> metrics.failures, generated |-> metrics.generated]
      BY <3>1 DEF MetricsOK
    <3>4. metrics'.submissions = metrics'.renders + metrics'.failures
      BY <3>3 DEF MetricsOK
    <3>5. metrics'.failures = 0 <=> \A t \in Sources : told'[t] # "policy"
      BY <2>1, <3>2, <3>3 DEF MetricsOK
    <3> QED
      BY <3>3, <3>4, <3>5, <1>6 DEF MetricsOK
  <2>4. CASE verdict = "policy"
    <3>1. metrics' = [metrics EXCEPT !.submissions = metrics.submissions + 1,
                                     !.failures = metrics.failures + 1]
      BY <2>4, <1>3
    <3>2. /\ metrics.submissions \in Nat /\ metrics.renders \in Nat /\ metrics.failures \in Nat
          /\ metrics.generated \in Nat
          /\ metrics' = [submissions |-> metrics.submissions + 1, renders |-> metrics.renders,
                         failures |-> metrics.failures + 1, generated |-> metrics.generated]
      BY <3>1 DEF MetricsOK
    <3>3. metrics'.submissions = metrics'.renders + metrics'.failures
      BY <3>2 DEF MetricsOK
    <3>4. metrics'.failures # 0 /\ ~ \A t \in Sources : told'[t] # "policy"
      BY <2>1, <2>4, <3>2
    <3> QED
      BY <3>2, <3>3, <3>4, <1>6 DEF MetricsOK
  <2> QED
    BY <2>2, <2>3, <2>4, <1>3
<1>8. CallsOK'
  BY <1>1 DEF CallsOK
<1>9. AnswersOK'
  BY <1>1, <1>4 DEF AnswersOK, verdict
<1> QED
  BY <1>7, <1>8, <1>9

LEMMA StepOK == GatewayInv /\ [Next]_vars => GatewayInv'
<1> SUFFICES ASSUME GatewayInv, [Next]_vars PROVE GatewayInv'
  OBVIOUS
<1>1. ASSUME UNCHANGED <<metrics, calls, visuals, told>> PROVE GatewayInv'
  BY <1>1 DEF GatewayInv, MetricsOK, CallsOK, AnswersOK, Started
<1>2. ASSUME NEW c \in Calls, Generate(c) \/ ModelAnswers(c) \/ ModelFails(c) PROVE GatewayInv'
  BY <1>2, GenerateOK, ModelAnswersOK, ModelFailsOK
<1>3. ASSUME NEW s \in Sources, Emit(s) PROVE GatewayInv'
  BY <1>3, EmitOK
<1>4. CASE Ingest
  BY <1>1, <1>4 DEF Ingest, generateVars
<1>5. CASE Tick
  BY <1>1, <1>5 DEF Tick, generateVars
<1>6. CASE UNCHANGED vars
  BY <1>1, <1>6 DEF vars
<1> QED
  BY <1>2, <1>3, <1>4, <1>5, <1>6 DEF Next

LEMMA GatewayInvHolds == Spec => []GatewayInv
<1> QED
  BY InitOK, StepOK, PTL DEF Spec

\* The telemetry store; nothing but a batch and the clock touches it.
TelemetryInv == now \in Int /\ KeepsNewest([kept |-> tsdb, all |-> arrived])

LEMMA TelemetryInvHolds == Spec => []TelemetryInv
<1>1. Init => TelemetryInv
  <2> SUFFICES ASSUME Init PROVE TelemetryInv
    OBVIOUS
  <2>1. /\ tsdb = [m \in MetricNames |-> <<>>] /\ arrived = [m \in MetricNames |-> <<>>]
        /\ now = 0
    BY DEF Init
  <2>2. <<>> \in Seq(Stored) /\ Len(<<>>) = 0
    BY EmptySeq
  <2>3. Trimmed(<<>>) = <<>>
    <3>1. Trimmed(<<>>) \in Seq(Stored) /\ Len(Trimmed(<<>>)) = Least(0, SeriesMax)
      BY <2>2, TrimmedIs
    <3>2. Least(0, SeriesMax) = 0
      BY GatewayAssumption DEF Least
    <3> QED
      BY <3>1, <3>2, EmptySeq
  <2> QED
    BY <2>1, <2>2, <2>3 DEF TelemetryInv, KeepsNewest
<1>2. TelemetryInv /\ [Next]_vars => TelemetryInv'
  <2> SUFFICES ASSUME TelemetryInv, [Next]_vars PROVE TelemetryInv'
    OBVIOUS
  <2>1. ASSUME UNCHANGED <<tsdb, arrived, now>> PROVE TelemetryInv'
    BY <2>1 DEF TelemetryInv, KeepsNewest
  <2>2. ASSUME NEW c \in Calls, Generate(c) \/ ModelAnswers(c) \/ ModelFails(c)
        PROVE  TelemetryInv'
    BY <2>1, <2>2 DEF Generate, ModelAnswers, ModelFails, telemetryVars
  <2>3. ASSUME NEW s \in Sources, Emit(s) PROVE TelemetryInv'
    BY <2>1, <2>3 DEF Emit, telemetryVars
  <2>4. CASE Ingest
    <3>1. PICK batch \in Batches : /\ tsdb' = Ingestion(batch)[Len(batch)].kept
                                   /\ arrived' = Ingestion(batch)[Len(batch)].all
      BY <2>4 DEF Ingest
    <3>2. batch \in Seq(TelemetryPoint) /\ now' = now
      BY <2>4, BatchAssumption DEF Ingest
    <3> DEFINE db == Ingestion(batch)[Len(batch)]
    <3>3. KeepsNewest(db)
      BY <3>2, IngestionKeeps DEF TelemetryInv
    <3> HIDE DEF db
    <3>4. tsdb' = db.kept /\ arrived' = db.all
      BY <3>1 DEF db
    <3>5. db = [kept |-> tsdb', all |-> arrived']
      BY <3>3, <3>4 DEF KeepsNewest
    <3> QED
      BY <3>2, <3>3, <3>4, <3>5 DEF TelemetryInv, KeepsNewest
  <2>5. CASE Tick
    BY <2>5 DEF Tick, telemetryVars, TelemetryInv, KeepsNewest
  <2>6. CASE UNCHANGED vars
    BY <2>1, <2>6 DEF vars
  <2> QED
    BY <2>2, <2>3, <2>4, <2>5, <2>6 DEF Next
<1> QED
  BY <1>1, <1>2, PTL DEF Spec

-----------------------------------------------------------------------------
(* Theorems                                                                  *)

LEMMA MetricsAreTold == GatewayInv => MetricsTell
<1> SUFFICES ASSUME GatewayInv PROVE MetricsTell
  OBVIOUS
<1> DEFINE t == metrics.submissions
           f == metrics.failures
           refused == \E s \in Sources : told[s] = "policy"
<1>1. t \in Nat /\ f \in 0..t /\ t = metrics.renders + f
  BY DEF GatewayInv, MetricsOK
<1>2. f = 0 <=> ~refused
  BY DEF GatewayInv, MetricsOK
<1>3. metrics.generated = Cardinality({c \in Calls : calls[c].phase # "idle"})
  BY DEF GatewayInv, MetricsOK, Started
<1>4. Compliance = IF t = 0 THEN 10000 ELSE Rounded(10000 * (t - f), t)
  BY DEF Compliance
<1> HIDE DEF t, f, refused
<1>5. (~refused => Compliance = 10000) /\ (refused /\ t < 20000 => Compliance < 10000)
  <2>1. CASE t = 0
    BY <2>1, <1>1, <1>2, <1>4
  <2>2. CASE t # 0
    <3>1. /\ f = 0 => Rounded(10000 * (t - f), t) = 10000
          /\ f # 0 /\ t < 20000 => Rounded(10000 * (t - f), t) < 10000
      <4>1. t \in Nat \ {0} /\ f \in 0..t
        BY <2>2, <1>1
      <4> QED
        BY <4>1, ComplianceShows, SMTT(30)
    <3>2. Compliance = Rounded(10000 * (t - f), t)
      BY <2>2, <1>4
    <3> QED
      BY <3>1, <3>2, <1>2
  <2> QED
    BY <2>1, <2>2
<1> QED
  BY <1>1, <1>3, <1>5 DEF MetricsTell, t, f, refused

LEMMA DriftsAreDistances == GatewayInv => DriftIsADistance
<1> SUFFICES ASSUME GatewayInv,
                    NEW c \in Calls, calls[c].phase = "answered", calls[c].status = 200,
                    NEW e \in Calls, calls[e].phase = "answered", calls[e].status = 200
             PROVE  /\ Divergence(Drift(c, e)) = Divergence(Drift(e, c))
                    /\ Incoherence(Drift(c, e)) = Incoherence(Drift(e, c))
                    /\ Divergence(Drift(c, e)) = 0 <=>
                         /\ calls[c].intent.valence = calls[e].intent.valence
                         /\ calls[c].intent.energy = calls[e].intent.energy
                    /\ Instability(Drift(c, e), visuals[e]) > 0 => Incoherence(Drift(c, e)) > 0
  BY DEF DriftIsADistance
<1>1. PICK x \in Texts : calls[c] = Answered(200, InferredIntent(x))
  BY DEF GatewayInv, CallsOK
<1>2. PICK y \in Texts : calls[e] = Answered(200, InferredIntent(y)) /\ visuals[e] = InferredVisual(y)
  BY DEF GatewayInv, CallsOK
<1>3. calls[c].intent = InferredIntent(x) /\ calls[e].intent = InferredIntent(y)
  BY <1>1, <1>2 DEF Answered
<1>4. Drift(c, e) = DriftBetween(x, y) /\ Drift(e, c) = DriftBetween(y, x)
  BY <1>3 DEF Drift, DriftBetween
<1>5. /\ calls[c].intent.valence = Valence(x) /\ calls[c].intent.energy = Energy(x)
      /\ calls[e].intent.valence = Valence(y) /\ calls[e].intent.energy = Energy(y)
  BY <1>3 DEF InferredIntent
<1> QED
  BY <1>2, <1>4, <1>5, DriftOfTexts

\* What the gateway reports of itself is what it told its clients, however many calls and
\* submissions there are: generations that were started, submissions by their outcome and
\* a compliance that shows the first refusal among fewer than 20000 submissions; and the
\* drift of any two intents is a distance (generate_text, emit_cognitive_dsl,
\* _metrics_snapshot, _compute_drift_metrics).
THEOREM MeasuresAlwaysTell == Spec => []MeasuresTell
<1>1. GatewayInv => MeasuresTell
  BY MetricsAreTold, DriftsAreDistances DEF MeasuresTell
<1> QED
  BY <1>1, GatewayInvHolds, PTL

\* What is inferred from any text, and what is adapted from any canonical contract whose
\* primary colour is not the emergency's, is never refused
\* (_infer_intent_from_text and to_visual_manifestation against VisualManifestation and
\* FirmaValidator).
THEOREM OwnOutputAlwaysEmittable == Spec => []OwnOutputIsEmittable
<1>1. GatewayInv => GeneratedIsEmittable
  <2> SUFFICES ASSUME GatewayInv, NEW c \in Calls PROVE told[c] \in {"nothing", "success"}
    BY DEF GeneratedIsEmittable
  <2>1. c \in Sources
    BY DEF Sources
  <2>2. CASE visuals[c] = Missing
    BY <2>1, <2>2 DEF GatewayInv, AnswersOK
  <2>3. CASE visuals[c] # Missing
    <3>1. PICK text \in Texts : visuals[c] = InferredVisual(text)
      BY <2>3 DEF GatewayInv, CallsOK
    <3>2. told[c] = "nothing" \/ told[c] = Verdict(visuals[c])
      BY <2>1 DEF GatewayInv, AnswersOK
    <3> QED
      BY <3>1, <3>2, InferredIsAllowed
  <2> QED
    BY <2>2, <2>3
<1>2. GatewayInv => AdaptedIsEmittable
  <2> SUFFICES ASSUME GatewayInv, NEW k \in DOMAIN Contracts,
                      Canonical(Contracts[k]), Contracts[k].primary # "crimson"
               PROVE  told[k] \in {"nothing", "success"}
    BY DEF AdaptedIsEmittable
  <2>1. k \in Sources
    BY DEF Sources
  <2>2. visuals[k] = VisualManifestation(Contracts[k])
        /\ (told[k] = "nothing" \/ told[k] = Verdict(visuals[k]))
    BY <2>1 DEF GatewayInv, AnswersOK
  <2> QED
    BY <2>2, AdaptedIsAllowed
<1>3. GatewayInv => OwnOutputIsEmittable
  BY <1>1, <1>2 DEF OwnOutputIsEmittable
<1> QED
  BY <1>3, GatewayInvHolds, PTL

LEMMA SeriesAreNewest ==
  ASSUME TelemetryInv
  PROVE  SeriesIsNewest /\ \A m \in MetricNames : Len(tsdb[m]) <= SeriesMax
<1> SUFFICES ASSUME NEW m \in MetricNames
             PROVE  /\ LET n == Least(Len(arrived[m]), SeriesMax)
                       IN tsdb[m] = SubSeq(arrived[m], Len(arrived[m]) - n + 1, Len(arrived[m]))
                    /\ Len(tsdb[m]) <= SeriesMax
  BY DEF SeriesIsNewest
<1>1. arrived[m] \in Seq(Stored) /\ tsdb[m] = Trimmed(arrived[m])
  BY DEF TelemetryInv, KeepsNewest
<1> QED
  BY <1>1, TrimmedIs

LEMMA P95sAreQuantiles == TelemetryInv => P95IsAQuantile
<1> SUFFICES ASSUME TelemetryInv, NEW m \in MetricNames, NEW w \in Windows,
                    DOMAIN Values(m, w) # {}
             PROVE  LET values == Values(m, w)
                        rows   == DOMAIN values
                    IN /\ P95(values) \in {values[i] : i \in rows}
                       /\ 100 * Cardinality(NotLarger(values, P95(values))) >= 95 * Cardinality(rows)
                       /\ 100 * Cardinality(Smaller(values, P95(values))) <= 95 * Cardinality(rows)
  BY DEF P95IsAQuantile
<1> DEFINE values == Values(m, w)
           n == Cardinality(DOMAIN values)
           k == P95Index(n) + 1
           p95 == P95(values)
<1>1. Window(values)
  <2>1. tsdb[m] \in Seq(Stored)
    BY DEF TelemetryInv, KeepsNewest
  <2>2. /\ DOMAIN tsdb[m] = 1..Len(tsdb[m]) /\ Len(tsdb[m]) \in Nat
        /\ \A i \in 1..Len(tsdb[m]) : tsdb[m][i] \in Stored
    BY <2>1, LenProperties, ElementOfSeq
  <2>3. IsFiniteSet(DOMAIN tsdb[m])
    BY <2>2, FS_Interval
  <2>4. DOMAIN values \in SUBSET DOMAIN tsdb[m]
    BY DEF Values
  <2>5. \A i \in DOMAIN values : values[i] = tsdb[m][i].value
    BY DEF Values
  <2>6. IsFiniteSet(DOMAIN values)
    BY <2>3, <2>4, FS_Subset
  <2> HIDE DEF values
  <2>7. \A i \in DOMAIN values : values[i] \in Int
    BY <2>2, <2>4, <2>5 DEF Stored
  <2> QED
    BY <2>6, <2>7 DEF Window
<1>2. DOMAIN values # {}
  OBVIOUS
<1>3. p95 = Ordered(values)[k]
  BY DEF P95
<1> HIDE DEF values, p95
<1>4. n \in Nat \ {0}
  <2>1. IsFiniteSet(DOMAIN values)
    BY <1>1 DEF Window
  <2> QED
    BY <2>1, <1>2, FS_CardinalityType, FS_EmptySet
<1> HIDE DEF n
<1>5. k \in 1..n /\ 100 * (k - 1) <= 95 * n /\ 95 * n < 100 * k /\ P95Index(n) \in Int
  <2>1. /\ P95Index(n) + 1 \in 1..n
        /\ 100 * P95Index(n) <= 95 * n /\ 95 * n < 100 * (P95Index(n) + 1)
    BY <1>4, P95IndexIs
  <2>2. P95Index(n) \in Int
    BY <1>4 DEF P95Index
  <2> QED
    BY <2>1, <2>2
<1> HIDE DEF k
<1>6. /\ p95 \in {values[i] : i \in DOMAIN values}
      /\ Cardinality(Smaller(values, p95)) < k /\ k <= Cardinality(NotLarger(values, p95))
  <2>1. k \in 1..Cardinality(DOMAIN values)
    BY <1>5 DEF n
  <2> QED
    BY <1>1, <1>3, <2>1, OrderedIs
<1>7. Cardinality(Smaller(values, p95)) \in Nat /\ Cardinality(NotLarger(values, p95)) \in Nat
  <2>1. Smaller(values, p95) \in SUBSET DOMAIN values /\ NotLarger(values, p95) \in SUBSET DOMAIN values
    BY DEF Smaller, NotLarger
  <2> QED
    BY <1>1, <2>1, SizesOf
<1>8. /\ 100 * Cardinality(NotLarger(values, p95)) >= 95 * n
      /\ 100 * Cardinality(Smaller(values, p95)) <= 95 * n
  <2> DEFINE s == Cardinality(Smaller(values, p95))
             l == Cardinality(NotLarger(values, p95))
  <2>1. s \in Nat /\ l \in Nat /\ s < k /\ k <= l /\ k \in Nat
    BY <1>5, <1>6, <1>7
  <2> HIDE DEF s, l
  <2>2. 100 * l >= 95 * n /\ 100 * s <= 95 * n
    BY <1>4, <1>5, <2>1
  <2> QED
    BY <2>2 DEF s, l
<1> QED
  BY <1>6, <1>8 DEF values, n, p95

\* A series is the newest points that arrived for it, whatever batches were ingested and
\* however long they are, and the p95 of any query is one of the values of its window, no
\* smaller than 95 in 100 of them and larger than 95 in 100 at most (ingest_telemetry,
\* query_telemetry).
THEOREM TelemetryAlwaysTells == Spec => []TelemetryTells
<1>1. GatewayInv /\ TelemetryInv => TypeOK
  <2> SUFFICES ASSUME GatewayInv, TelemetryInv PROVE TypeOK
    OBVIOUS
  <2>1. \A c \in Calls : calls[c].phase \in {"idle", "waiting", "answered"}
    BY StatesOf DEF GatewayInv, CallsOK
  <2>2. told \in [Sources -> {"nothing", "success", "policy", "malformed"}]
    BY DEF GatewayInv, AnswersOK, Verdict
  <2> QED
    BY <2>1, <2>2, SeriesAreNewest DEF TypeOK, GatewayInv, MetricsOK
<1>2. GatewayInv /\ TelemetryInv => TelemetryTells
  BY <1>1, SeriesAreNewest, P95sAreQuantiles DEF TelemetryTells
<1> QED
  BY <1>2, GatewayInvHolds, TelemetryInvHolds, PTL

\* Older consumers see a contract's density to within half a particle; a manifestation is
\* what they see in shape, turbulence and amount, if the contract brings no controls of its
\* own, and shows another amount only for controls that are half a particle or more off the
\* density (to_visual_manifestation against to_legacy_visual_parameters).
THEOREM AdaptersAlwaysAgree == Spec => []AdaptersAgree
<1>1. GatewayInv => AdaptersAgree
  <2> SUFFICES ASSUME GatewayInv, NEW k \in DOMAIN Contracts
               PROVE  /\ AbsDiff(LegacyParameters(Contracts[k]).density, Density(Contracts[k])) <= 10
                      /\ Contracts[k].controls = Missing =>
                           /\ visuals[k].shape = LegacyParameters(Contracts[k]).shape
                           /\ visuals[k].turbulence = LegacyParameters(Contracts[k]).turbulence
                           /\ ShownDensity(visuals[k]) = LegacyParameters(Contracts[k]).density
                      /\ ShownDensity(visuals[k]) # LegacyParameters(Contracts[k]).density =>
                           AbsDiff(ShownDensity(visuals[k]), Density(Contracts[k])) >= 10
    BY DEF AdaptersAgree
  <2>1. visuals[k] = VisualManifestation(Contracts[k])
    BY DEF GatewayInv, AnswersOK
  <2>2. ShownDensity(visuals[k]) \in Int /\ Density(Contracts[k]) \in Int
    BY ShownDensityIsInt, <2>1, DensityIsUnit, UnitIs
  <2>3. AbsDiff(ShownDensity(visuals[k]), Density(Contracts[k])) \in Int
    BY <2>2 DEF AbsDiff
  <2>4. \/ AbsDiff(ShownDensity(visuals[k]), Density(Contracts[k])) < 10
        \/ AbsDiff(ShownDensity(visuals[k]), Density(Contracts[k])) >= 10
    BY SMT, <2>3
  <2> QED
    BY <2>1, <2>4, DensityReturns, IntentsAgree, NearControlsAgree
<1> QED
  BY <1>1, GatewayInvHolds, PTL

\* The scholar's contracts are of the latter kind, whatever it is asked: the manifestation
\* shows 8000 particles and older consumers 30000. Both have the shape of the entry, unless
\* the adapters do not know it, and older consumers get a ring (handle_request maps the entry's
\* visual twice, and writes the controls by hand).
THEOREM ScholarsDiffer ==
  ASSUME NEW prompt \in Prompts, NEW tone \in Tones
  PROVE  LET contract == HandleRequest(prompt, tone)
             shown    == VisualManifestation(contract)
             legacy   == LegacyParameters(contract)
         IN /\ shown.count = 8000
            /\ legacy.density = 30000 * (One \div Particles)
            /\ legacy.shape = CoerceShape(shown.shape)
<1> DEFINE contract == HandleRequest(prompt, tone)
<1>1. /\ contract.density = 600000 /\ contract.controls.count = 8000
      /\ contract.controls.shape = contract.shape
  BY DEF HandleRequest
<1>2. ControlsOf(contract) = contract.controls
  BY WrittenAssumption DEF ControlsOf
<1> HIDE DEF contract
<1>3. /\ VisualManifestation(contract).count = 8000
      /\ VisualManifestation(contract).shape = contract.shape
  BY <1>1, <1>2 DEF VisualManifestation
<1>4. Density(contract) = 600000
  BY SMT, <1>1, ScalarAssumption, OneIs DEF Density, ClampFloat
<1>5. ParticleCount(600000) = 30000
  BY SMT, OneIs DEF ParticleCount, Rounded
<1>6. LegacyParameters(contract).density = 30000 * (One \div Particles)
  BY <1>4, <1>5 DEF LegacyParameters, RendererControls
<1>7. LegacyParameters(contract).shape = CoerceShape(contract.shape)
  BY DEF LegacyParameters, RendererControls
<1> QED
  BY <1>3, <1>6, <1>7 DEF contract

=============================================================================
