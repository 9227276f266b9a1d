---------------------------- MODULE GovernorProofs ---------------------------
(***************************************************************************)
(* What the governor guarantees, for every payload, context and series.    *)
(* First the stages of its pipeline, one lemma each, and the contract that *)
(* leaves them; then every decision a RuntimeGovernor returns in a session *)
(* of any length; then what the rooms of the governor service get, for any *)
(* number of requests, failures and restarts.                              *)
(***************************************************************************)
EXTENDS RuntimeGovernor, GovernorService, SequenceTheorems, FiniteSetTheorems,
        WellFoundedInduction, TLAPS

\* A contract whose dangerous intensities are within g, f and v.
Below(g, f, v) ==
  {w \in Contract : w.glow \in 0..g /\ w.flicker \in 0..f /\ w.velocity \in 0..v}

\* What profile_map leaves: no field it fills is missing any more.
Mapped ==
  [state : StateNames, shape : Shapes, mode : Palettes,
   glow : Int \cup {Garbage}, flicker : Int \cup {Garbage},
   density : Int \cup {Garbage}, velocity : Int \cup {Garbage},
   cadence : Int \cup {Missing}, crowded : BOOLEAN, scholar : Scholars]

ProfileType ==
  [shape : Shapes, mode : Palettes, glow : 0..90, flicker : 0..8,
   density : 0..82, velocity : 0..56]

\* Every state, listed or not, has a complete profile.
LEMMA ProfileOfType == \A s : ProfileOf(s) \in ProfileType
<1>1. ASSUME NEW t \in States PROVE StateProfiles[t] \in ProfileType
  <2>1. CASE t = "IDLE"
    BY <2>1, NameAssumption DEF States, StateProfiles, Profile, ProfileType
  <2>2. CASE t = "LISTENING"
    BY <2>2, NameAssumption DEF States, StateProfiles, Profile, ProfileType
  <2>3. CASE t = "THINKING"
    BY <2>3, NameAssumption DEF States, StateProfiles, Profile, ProfileType
  <2>4. CASE t = "GENERATING"
    BY <2>4, NameAssumption DEF States, StateProfiles, Profile, ProfileType
  <2>5. CASE t = "RESPONDING"
    BY <2>5, NameAssumption DEF States, StateProfiles, Profile, ProfileType
  <2>6. CASE t = "WARNING"
    BY <2>6, NameAssumption DEF States, StateProfiles, Profile, ProfileType
  <2>7. CASE t = "ERROR"
    BY <2>7, NameAssumption DEF States, StateProfiles, Profile, ProfileType
  <2>8. CASE t = "NIRODHA"
    BY <2>8, NameAssumption DEF States, StateProfiles, Profile, ProfileType
  <2>9. CASE t = "SENSOR_ACTIVE"
    BY <2>9, NameAssumption DEF States, StateProfiles, Profile, ProfileType
  <2> QED
    BY <2>1, <2>2, <2>3, <2>4, <2>5, <2>6, <2>7, <2>8, <2>9 DEF States
<1>2. "IDLE" \in States
  BY DEF States
<1> QED
  BY <1>1, <1>2 DEF ProfileOf

\* profile_map leaves no governed field missing.
LEMMA ProfileMapType ==
  ASSUME NEW w \in Body, w.state \in StateNames
  PROVE  ApplyProfileMap(w) \in Mapped
<1> DEFINE p == ProfileOf(w.state)
<1>1. p \in ProfileType
  BY ProfileOfType
<1> HIDE DEF p
<1>2. Or(w.shape, p.shape) \in Shapes /\ Or(w.mode, p.mode) \in Palettes
  BY <1>1 DEF Or, Body, ProfileType
<1>3. /\ Or(w.glow, p.glow) \in Int \cup {Garbage}
      /\ Or(w.flicker, p.flicker) \in Int \cup {Garbage}
      /\ Or(w.density, p.density) \in Int \cup {Garbage}
      /\ Or(w.velocity, p.velocity) \in Int \cup {Garbage}
  BY <1>1 DEF Or, Body, Number, ProfileType
<1> QED
  BY <1>2, <1>3 DEF ApplyProfileMap, p, Body, Mapped

\* A mapped contract has a value, perhaps unreadable, in every governed field.
LEMMA NormaliseType ==
  ASSUME NEW payload \in Payload, NEW ctx \in Context,
         NEW was \in StateNames \cup {Missing}
  PROVE  Normalise(payload, ctx, was) \in Mapped
<1> DEFINE from == PreviousState(ctx, was)
           to == RequestedState(payload.body, ctx)
           s == IF Allowed(from, to) THEN to ELSE from
<1>1. from \in StateNames /\ to \in StateNames
  BY NameAssumption DEF PreviousState, RequestedState, Or, Payload, Body, Context, States
<1>2. s \in StateNames
  BY <1>1
<1> HIDE DEF s
<1>3. [payload.body EXCEPT !.state = s] \in Body /\ [payload.body EXCEPT !.state = s].state = s
  BY <1>2 DEF Payload, Body
<1> QED
  BY <1>2, <1>3, ProfileMapType DEF Normalise, ApplyTransitionRules, s

-----------------------------------------------------------------------------
(* Intensities only go down.                                                 *)

\* A well-typed value put in a field of a contract leaves a contract.
LEMMA PutType ==
  ASSUME NEW w \in Contract
  PROVE  /\ \A a \in StateNames : [w EXCEPT !.state = a] \in Contract
         /\ \A a \in Shapes : [w EXCEPT !.shape = a] \in Contract
         /\ \A a \in Palettes : [w EXCEPT !.mode = a] \in Contract
         /\ \A a \in Int : /\ [w EXCEPT !.glow = a] \in Contract
                           /\ [w EXCEPT !.flicker = a] \in Contract
                           /\ [w EXCEPT !.density = a] \in Contract
                           /\ [w EXCEPT !.velocity = a] \in Contract
         /\ \A a \in Int \cup {Missing} : [w EXCEPT !.cadence = a] \in Contract
         /\ \A a \in Scholars : [w EXCEPT !.scholar = a] \in Contract
BY DEF Contract

LEMMA UnitBounds ==
  ASSUME NEW x \in Int PROVE Unit(x) \in 0..100
BY DEF Unit, AtMost

\* Capping lowers three intensities and leaves everything else alone.
LEMMA CapBounds ==
  ASSUME NEW g \in Nat, NEW f \in Nat, NEW v \in Nat, NEW w \in Below(g, f, v),
         NEW a \in Nat, NEW b \in Nat, NEW c \in Nat
  PROVE  /\ Cap(w, a, b, c) \in Below(g, f, v) \cap Below(a, b, c)
         /\ Cap(w, a, b, c).state = w.state /\ Cap(w, a, b, c).mode = w.mode
         /\ Cap(w, a, b, c).shape = w.shape /\ Cap(w, a, b, c).density = w.density
         /\ Cap(w, a, b, c).cadence = w.cadence /\ Cap(w, a, b, c).crowded = w.crowded
         /\ Cap(w, a, b, c).flicker = AtMost(w.flicker, b)
<1> DEFINE gl == AtMost(w.glow, a)
           fl == AtMost(w.flicker, b)
           ve == AtMost(w.velocity, c)
           w1 == [w EXCEPT !.glow = gl]
           w2 == [w1 EXCEPT !.flicker = fl]
           w3 == [w2 EXCEPT !.velocity = ve]
<1>1. w \in Contract
  BY DEF Below
<1>2. Cap(w, a, b, c) = w3
  BY <1>1 DEF Cap, Contract
<1>3. /\ gl \in 0..g /\ gl \in 0..a /\ fl \in 0..f /\ fl \in 0..b
      /\ ve \in 0..v /\ ve \in 0..c
  BY DEF AtMost, Below
<1>4. gl \in Int /\ fl \in Int /\ ve \in Int
  BY <1>3
<1> HIDE DEF gl, fl, ve
<1>5. /\ w3.glow = gl /\ w3.flicker = fl /\ w3.velocity = ve
      /\ w3.state = w.state /\ w3.mode = w.mode /\ w3.shape = w.shape
      /\ w3.density = w.density /\ w3.cadence = w.cadence /\ w3.crowded = w.crowded
  BY <1>1 DEF Contract
<1> HIDE DEF w1, w2, w3
<1>6. w1 \in Contract
  BY <1>1, <1>4, PutType DEF w1
<1>7. w2 \in Contract
  BY <1>6, <1>4, PutType DEF w2
<1>8. w3 \in Contract
  BY <1>7, <1>4, PutType DEF w3
<1> QED
  BY <1>2, <1>3, <1>5, <1>8 DEF Below, fl

\* A mapped contract the clamp stage can read is a contract.
LEMMA ReadableIsContract ==
  ASSUME NEW w \in Mapped, ~ClampRaises(w)
  PROVE  w \in Contract
BY DEF Mapped, ClampRaises, Contract

\* The clamps and the psycho-safety limits, for any device.
LEMMA LimitBounds ==
  ASSUME NEW w \in Contract, NEW ctx \in Context
  PROVE  Limit(w, ctx) \in Below(72, 12, 50)
<1> DEFINE capg == DeviceCaps[ctx.tier].glow
           capd == DeviceCaps[ctx.tier].density
           glow == AtMost(Unit(w.glow), capg)
           flicker == AtMost(Unit(w.flicker), 20)
           density == AtMost(AtMost(Unit(w.density), capd), DensityCap(ctx))
           velocity == Unit(w.velocity)
           w1 == [w EXCEPT !.glow = glow]
           w2 == [w1 EXCEPT !.flicker = flicker]
           w3 == [w2 EXCEPT !.density = density]
           w4 == [w3 EXCEPT !.velocity = velocity]
<1>1. capg \in 0..100 /\ capd \in 0..100
  BY DEF DeviceCaps, Context, Tiers
<1>2. DensityCap(ctx) \in 0..100
  BY UnitBounds DEF DensityCap, Context
<1>3. ApplyClamps(w, ctx) = w4
  BY DEF ApplyClamps, Contract
<1> HIDE DEF capg, capd
<1>4. glow \in 0..100 /\ flicker \in 0..20 /\ density \in 0..100 /\ velocity \in 0..100
  BY <1>1, <1>2, UnitBounds DEF AtMost, Contract
<1>5. glow \in Int /\ flicker \in Int /\ density \in Int /\ velocity \in Int
  BY <1>4
<1> HIDE DEF glow, flicker, density, velocity
<1>6. w4.glow = glow /\ w4.flicker = flicker /\ w4.velocity = velocity
  BY DEF Contract
<1> HIDE DEF w1, w2, w3, w4
<1>7. w1 \in Contract
  BY <1>5, PutType DEF w1
<1>8. w2 \in Contract
  BY <1>5, <1>7, PutType DEF w2
<1>9. w3 \in Contract
  BY <1>5, <1>8, PutType DEF w3
<1>10. w4 \in Contract
  BY <1>5, <1>9, PutType DEF w4
<1>11. w4 \in Below(100, 20, 100)
  BY <1>4, <1>6, <1>10 DEF Below
<1> QED
  BY <1>3, <1>11, CapBounds DEF Limit, LimitIntensity, PsychoLimits

\* Showing a cadence changes no intensity.
LEMMA ShowCadenceBounds ==
  ASSUME NEW g \in Nat, NEW f \in Nat, NEW v \in Nat, NEW w \in Below(g, f, v),
         NEW c \in Int \cup {Missing}
  PROVE  ShowCadence(w, c) \in Below(g, f, v)
<1>1. w \in Contract
  BY DEF Below
<1>2. ShowCadence(w, c) \in Contract
  BY <1>1, PutType DEF ShowCadence
<1>3. /\ ShowCadence(w, c).glow = w.glow /\ ShowCadence(w, c).flicker = w.flicker
      /\ ShowCadence(w, c).velocity = w.velocity
  BY <1>1 DEF ShowCadence, Contract
<1> QED
  BY <1>2, <1>3 DEF Below

LEMMA SafeCadenceType ==
  ASSUME NEW w \in Contract PROVE SafeCadence(w) \in Int
BY DEF SafeCadence, AskedCadence, AtMost, FlashesMax, Contract

\* Flash mitigation and drift containment stay below what they are given.
LEMMA GateBounds ==
  ASSUME NEW g \in Nat, NEW f \in Nat, NEW v \in Nat,
         NEW w \in Below(g, f, v), NEW drifting \in BOOLEAN
  PROVE  Gate(w, drifting) \in Below(g, f, v)
<1> DEFINE cap == IF LowFrequency(w) THEN LowFreqFlickerCap ELSE 100
           x == Cap(w, 100, cap, 100)
<1>1. cap \in Nat
  BY DEF LowFreqFlickerCap
<1> HIDE DEF cap
<1>2. x \in Below(g, f, v)
  BY <1>1, CapBounds
<1>3. SafeCadence(w) \in Int \cup {Missing}
  BY SafeCadenceType DEF Below
<1> HIDE DEF x
<1>4. LimitFlashes(w) \in Below(g, f, v)
  BY <1>2, <1>3, ShowCadenceBounds DEF LimitFlashes, x, cap
<1>5. Contain(LimitFlashes(w)) \in Below(g, f, v)
  BY <1>4, CapBounds DEF Contain
<1> QED
  BY <1>4, <1>5 DEF Gate

LEMMA SafeContractBounds == SafeContract \in Below(90, 0, 26)
BY NameAssumption DEF SafeContract, StateProfiles, Profile, Below, Contract, Scholars, States

\* A contract misses nothing, so mapping a profile onto it changes nothing.
LEMMA MapKeepsContract ==
  ASSUME NEW w \in Contract
  PROVE  ApplyProfileMap(w) = w
<1> DEFINE p == ProfileOf(w.state)
<1>1. /\ Or(w.shape, p.shape) = w.shape /\ Or(w.mode, p.mode) = w.mode
      /\ Or(w.glow, p.glow) = w.glow /\ Or(w.flicker, p.flicker) = w.flicker
      /\ Or(w.density, p.density) = w.density
      /\ Or(w.velocity, p.velocity) = w.velocity
  BY MarkerAssumption DEF Or, Contract
<1> QED
  BY <1>1 DEF ApplyProfileMap, Contract

-----------------------------------------------------------------------------
(* policy_block *)

\* What two contracts share when only intensities, cadence or scholar differ.
SameLook(w, x) == x.state = w.state /\ x.mode = w.mode /\ x.shape = w.shape

\* What capping a contract w makes of it.
Capped(w, x, a, b, c) ==
  /\ x \in Contract /\ SameLook(w, x) /\ x.density = w.density
  /\ x.glow = AtMost(w.glow, a) /\ x.flicker = AtMost(w.flicker, b)
  /\ x.velocity = AtMost(w.velocity, c)

LEMMA CapLowers ==
  ASSUME NEW w \in Contract, w.glow \in Nat, w.flicker \in Nat, w.velocity \in Nat,
         NEW a \in Nat, NEW b \in Nat, NEW c \in Nat
  PROVE  Capped(w, Cap(w, a, b, c), a, b, c)
<1> DEFINE gl == AtMost(w.glow, a)
           fl == AtMost(w.flicker, b)
           ve == AtMost(w.velocity, c)
           w1 == [w EXCEPT !.glow = gl]
           w2 == [w1 EXCEPT !.flicker = fl]
           w3 == [w2 EXCEPT !.velocity = ve]
<1>1. gl \in Int /\ fl \in Int /\ ve \in Int
  BY DEF AtMost
<1>2. Cap(w, a, b, c) = w3
  BY DEF Cap, Contract
<1> HIDE DEF gl, fl, ve
<1>3. /\ w3.glow = gl /\ w3.flicker = fl /\ w3.velocity = ve /\ w3.state = w.state
      /\ w3.mode = w.mode /\ w3.shape = w.shape /\ w3.density = w.density
  BY DEF Contract
<1> HIDE DEF w1, w2, w3
<1>4. w1 \in Contract
  BY <1>1, PutType DEF w1
<1>5. w2 \in Contract
  BY <1>1, <1>4, PutType DEF w2
<1>6. w3 \in Contract
  BY <1>1, <1>5, PutType DEF w3
<1> QED
  BY <1>2, <1>3, <1>6 DEF Capped, SameLook, gl, fl, ve

LEMMA DressFacts ==
  ASSUME NEW g \in Nat, NEW f \in Nat, NEW v \in Nat, NEW w \in Below(g, f, v)
  PROVE  /\ Dress(w) \in Below(g, f, v)
         /\ Dress(w).state = w.state
         /\ w.state \in Reserved => Dress(w).mode = ReservedPalettes[w.state]
         /\ w.state = "ERROR" => Dress(w).shape = "CRACKED_SHELL"
<1> DEFINE mode == IF w.state \in Reserved THEN ReservedPalettes[w.state] ELSE w.mode
           shape == IF w.state = "ERROR" THEN "CRACKED_SHELL" ELSE w.shape
           w1 == [w EXCEPT !.mode = mode]
           w2 == [w1 EXCEPT !.shape = shape]
<1>1. w \in Contract
  BY DEF Below
<1>2. mode \in Palettes /\ shape \in Shapes
  BY <1>1, NameAssumption DEF Reserved, ReservedPalettes, Contract
<1>3. Dress(w) = w2
  BY <1>1 DEF Dress, Contract
<1> HIDE DEF mode, shape
<1>4. /\ w2.mode = mode /\ w2.shape = shape /\ w2.state = w.state
      /\ w2.glow = w.glow /\ w2.flicker = w.flicker /\ w2.velocity = w.velocity
  BY <1>1 DEF Contract
<1> HIDE DEF w1, w2
<1>5. w1 \in Contract
  BY <1>1, <1>2, PutType DEF w1
<1>6. w2 \in Contract
  BY <1>2, <1>5, PutType DEF w2
<1>7. w2 \in Below(g, f, v)
  BY <1>4, <1>6 DEF Below
<1> QED
  BY <1>3, <1>4, <1>7 DEF mode, shape

LEMMA TruncateFacts ==
  ASSUME NEW g \in Nat, NEW f \in Nat, NEW v \in Nat, NEW w \in Below(g, f, v)
  PROVE  TruncateUniforms(w) \in Below(g, f, v) /\ SameLook(w, TruncateUniforms(w))
<1> DEFINE x == [w EXCEPT !.cadence = Missing]
<1>1. w \in Contract
  BY DEF Below
<1>2. x \in Contract
  BY <1>1, PutType
<1>3. /\ x.state = w.state /\ x.mode = w.mode /\ x.shape = w.shape
      /\ x.glow = w.glow /\ x.flicker = w.flicker /\ x.velocity = w.velocity
  BY <1>1 DEF Contract
<1> HIDE DEF x
<1>4. x \in Below(g, f, v)
  BY <1>2, <1>3 DEF Below
<1>5. TruncateUniforms(w) = x \/ TruncateUniforms(w) = w
  BY DEF TruncateUniforms, x
<1> QED
  BY <1>3, <1>4, <1>5 DEF SameLook

\* An alert or dormant state leaves the stage in its own look.
LEMMA ReserveFacts ==
  ASSUME NEW g \in Nat, NEW f \in Nat, NEW v \in Nat, NEW w \in Below(g, f, v)
  PROVE  LET x == ReserveAppearance(w)
         IN /\ x \in Below(g, f, v) /\ x.state = w.state
            /\ w.state \in Reserved => x.mode = ReservedPalettes[w.state]
            /\ w.state = "ERROR" => x.shape = "CRACKED_SHELL"
            /\ w.state = "NIRODHA" => x \in Below(20, f, 10)
<1> DEFINE d == Dress(w)
           e == IF w.state = "NIRODHA" THEN Cap(d, 20, 100, 10) ELSE d
<1>1. /\ d \in Below(g, f, v) /\ d.state = w.state
      /\ w.state \in Reserved => d.mode = ReservedPalettes[w.state]
      /\ w.state = "ERROR" => d.shape = "CRACKED_SHELL"
  BY DressFacts
<1> HIDE DEF d
<1>2. /\ Cap(d, 20, 100, 10) \in Below(g, f, v) \cap Below(20, 100, 10)
      /\ SameLook(d, Cap(d, 20, 100, 10))
  <2>1. d \in Contract /\ d.glow \in Nat /\ d.flicker \in Nat /\ d.velocity \in Nat
    BY <1>1 DEF Below
  <2>2. Capped(d, Cap(d, 20, 100, 10), 20, 100, 10)
    BY ONLY <2>1, CapLowers
  <2> QED
    BY <1>1, <2>2 DEF Capped, AtMost, Below
<1>3. e \in Below(g, f, v) /\ SameLook(d, e)
  BY <1>1, <1>2 DEF SameLook
<1>4. w.state = "NIRODHA" => e \in Below(20, f, 10)
  BY <1>2 DEF Below
<1> HIDE DEF e
<1>5. TruncateUniforms(e) \in Below(g, f, v) /\ SameLook(e, TruncateUniforms(e))
  BY <1>3, TruncateFacts
<1>6. w.state = "NIRODHA" => TruncateUniforms(e) \in Below(20, f, 10)
  BY <1>4, TruncateFacts
<1>7. ReserveAppearance(w) = TruncateUniforms(e)
  BY DEF ReserveAppearance, e, d
<1> QED
  BY <1>1, <1>3, <1>5, <1>6, <1>7 DEF SameLook

LEMMA ScholarFacts ==
  ASSUME NEW g \in Nat, NEW f \in Nat, NEW v \in Nat, NEW w \in Below(g, f, v)
  PROVE  ScholarGate(w) \in Below(g, f, v) /\ SameLook(w, ScholarGate(w))
<1> DEFINE x == [w EXCEPT !.scholar = Missing]
           a == IF w.scholar = "sensitive" THEN 40 ELSE 100
           b == IF w.scholar = "sensitive" THEN 5 ELSE 20
<1>1. w \in Contract
  BY DEF Below
<1>2. x \in Contract
  BY <1>1, PutType DEF Scholars
<1>3. /\ x.state = w.state /\ x.mode = w.mode /\ x.shape = w.shape
      /\ x.glow = w.glow /\ x.flicker = w.flicker /\ x.velocity = w.velocity
  BY <1>1 DEF Contract
<1> HIDE DEF x
<1>4. x \in Below(g, f, v) /\ SameLook(w, x)
  BY <1>2, <1>3 DEF Below, SameLook
<1>5. a \in Nat /\ b \in Nat
  OBVIOUS
<1> HIDE DEF a, b
<1>6. Cap(w, a, b, 100) \in Below(g, f, v) /\ SameLook(w, Cap(w, a, b, 100))
  <2> DEFINE y == Cap(w, a, b, 100)
  <2>1. w \in Contract /\ w.glow \in Nat /\ w.flicker \in Nat /\ w.velocity \in Nat
    BY DEF Below
  <2>2. Capped(w, y, a, b, 100)
    BY ONLY <1>5, <2>1, CapLowers
  <2> HIDE DEF y
  <2>3. y \in Below(g, f, v) /\ SameLook(w, y)
    BY <1>5, <2>2 DEF Capped, AtMost, Below
  <2> QED
    BY <2>3 DEF y
<1>7. ScholarGate(w) = x \/ ScholarGate(w) = Cap(w, a, b, 100)
  BY DEF ScholarGate, x, a, b
<1> QED
  BY <1>4, <1>6, <1>7

\* policy_block as a whole.
LEMMA PolicyFacts ==
  ASSUME NEW g \in Nat, NEW f \in Nat, NEW v \in Nat, NEW w \in Below(g, f, v)
  PROVE  LET x == ApplyPolicyRules(w)
         IN /\ x \in Below(g, f, v) /\ x.state = w.state
            /\ w.state \in Reserved => x.mode = ReservedPalettes[w.state]
            /\ w.state = "ERROR" => x.shape = "CRACKED_SHELL"
            /\ w.state = "NIRODHA" => x \in Below(20, f, 10)
<1> DEFINE r == ReserveAppearance(w)
<1>1. /\ r \in Below(g, f, v) /\ r.state = w.state
      /\ w.state \in Reserved => r.mode = ReservedPalettes[w.state]
      /\ w.state = "ERROR" => r.shape = "CRACKED_SHELL"
      /\ w.state = "NIRODHA" => r \in Below(20, f, 10)
  BY ReserveFacts
<1> HIDE DEF r
<1>2. ScholarGate(r) \in Below(g, f, v) /\ SameLook(r, ScholarGate(r))
  BY <1>1, ScholarFacts
<1>3. w.state = "NIRODHA" => ScholarGate(r) \in Below(20, f, 10)
  BY <1>1, ScholarFacts
<1> QED
  BY <1>1, <1>2, <1>3 DEF ApplyPolicyRules, SameLook, r

-----------------------------------------------------------------------------
(* capability_gate *)

\* An override changes the state and, every field being set, nothing else.
LEMMA ForceFacts ==
  ASSUME NEW g \in Nat, NEW f \in Nat, NEW v \in Nat, NEW w \in Below(g, f, v),
         NEW ctx \in Context
  PROVE  /\ ForceState(w, ctx) \in Below(g, f, v)
         /\ ctx.forced \notin States => ForceState(w, ctx) = w
<1> DEFINE x == [w EXCEPT !.state = ctx.forced]
<1>1. w \in Contract
  BY DEF Below
<1>2. ASSUME ctx.forced \in States PROVE ForceState(w, ctx) \in Below(g, f, v)
  <2>1. x \in Contract
    BY <1>1, <1>2, PutType, NameAssumption
  <2>2. x.glow = w.glow /\ x.flicker = w.flicker /\ x.velocity = w.velocity
    BY <1>1 DEF Contract
  <2>3. ForceState(w, ctx) = x
    BY <1>2, <2>1, MapKeepsContract DEF ForceState
  <2> HIDE DEF x
  <2> QED
    BY <2>1, <2>2, <2>3 DEF Below
<1> QED
  BY <1>2 DEF ForceState

LEMMA LowPowerFacts ==
  ASSUME NEW g \in Nat, NEW f \in Nat, NEW v \in Nat, NEW w \in Below(g, f, v)
  PROVE  /\ LowPower(w) \in Below(g, f, v) \cap Below(20, 100, 12)
         /\ LowPower(w).density <= 22
         /\ SameLook(w, LowPower(w))
<1> DEFINE c == Cap(w, 20, 100, 12)
           d == AtMost(c.density, 22)
           x == [c EXCEPT !.density = d]
<1>1. c \in Below(g, f, v) \cap Below(20, 100, 12) /\ SameLook(w, c)
  <2>1. w \in Contract /\ w.glow \in Nat /\ w.flicker \in Nat /\ w.velocity \in Nat
    BY DEF Below
  <2>2. Capped(w, c, 20, 100, 12)
    BY ONLY <2>1, CapLowers
  <2> HIDE DEF c
  <2> QED
    BY <2>2 DEF Capped, AtMost, Below
<1> HIDE DEF c
<1>2. c \in Contract
  BY <1>1 DEF Below
<1>3. d \in Int /\ d <= 22
  BY <1>2 DEF AtMost, Contract
<1> HIDE DEF d
<1>4. x \in Contract
  BY <1>2, <1>3, PutType
<1>5. /\ x.state = c.state /\ x.mode = c.mode /\ x.shape = c.shape /\ x.density = d
      /\ x.glow = c.glow /\ x.flicker = c.flicker /\ x.velocity = c.velocity
  BY <1>2 DEF Contract
<1>6. LowPower(w) = x
  BY DEF LowPower, c, d
<1> HIDE DEF x
<1>7. x \in Below(g, f, v) \cap Below(20, 100, 12)
  BY <1>1, <1>4, <1>5 DEF Below
<1> QED
  BY <1>1, <1>3, <1>5, <1>6, <1>7 DEF SameLook

LEMMA LowSensoryFacts ==
  ASSUME NEW g \in Nat, NEW f \in Nat, NEW v \in Nat, NEW w \in Below(g, f, v)
  PROVE  /\ LowSensory(w) \in Below(g, f, v) /\ LowSensory(w) \in Below(35, 0, 18)
         /\ SameLook(w, LowSensory(w)) /\ LowSensory(w).density = w.density
<1> DEFINE x == Cap(w, 35, 0, 18)
<1>1. w \in Contract /\ w.glow \in Nat /\ w.flicker \in Nat /\ w.velocity \in Nat
  BY DEF Below
<1>2. Capped(w, x, 35, 0, 18)
  BY ONLY <1>1, CapLowers
<1> HIDE DEF x
<1>3. x \in Below(g, f, v) /\ x \in Below(35, 0, 18)
  BY <1>2 DEF Capped, AtMost, Below
<1>4. LowSensory(w) = x
  BY DEF LowSensory, x
<1> QED
  BY <1>2, <1>3, <1>4 DEF Capped

LEMMA NoFlickerFacts ==
  ASSUME NEW g \in Nat, NEW f \in Nat, NEW v \in Nat, NEW w \in Below(g, f, v)
  PROVE  /\ NoFlicker(w) \in Below(g, f, v) /\ NoFlicker(w) \in Below(100, 0, 100)
         /\ SameLook(w, NoFlicker(w)) /\ NoFlicker(w).density = w.density
<1> DEFINE x == Cap(w, 100, 0, 100)
<1>1. w \in Contract /\ w.glow \in Nat /\ w.flicker \in Nat /\ w.velocity \in Nat
  BY DEF Below
<1>2. Capped(w, x, 100, 0, 100)
  BY ONLY <1>1, CapLowers
<1> HIDE DEF x
<1>3. x \in Below(g, f, v) /\ x \in Below(100, 0, 100)
  BY <1>2 DEF Capped, AtMost, Below
<1>4. NoFlicker(w) = x
  BY DEF NoFlicker, x
<1> QED
  BY <1>2, <1>3, <1>4 DEF Capped

\* Accommodations add up: each holds whatever the others did.
LEMMA AccommodateFacts ==
  ASSUME NEW g \in Nat, NEW f \in Nat, NEW v \in Nat, NEW w \in Below(g, f, v),
         NEW ctx \in Context
  PROVE  LET x == Accommodate(w, ctx)
         IN /\ x \in Below(g, f, v) /\ SameLook(w, x)
            /\ ctx.lowPower => x.glow <= 20 /\ x.velocity <= 12 /\ x.density <= 22
            /\ ctx.lowSensory => x.glow <= 35 /\ x.velocity <= 18 /\ x.flicker <= 0
            /\ ctx.noFlicker => x.flicker = 0
<1> DEFINE p == IF ctx.lowPower THEN LowPower(w) ELSE w
           q == IF ctx.lowSensory THEN LowSensory(p) ELSE p
           x == IF ctx.noFlicker THEN NoFlicker(q) ELSE q
<1>1. /\ p \in Below(g, f, v) /\ SameLook(w, p)
      /\ ctx.lowPower => p \in Below(20, 100, 12) /\ p.density <= 22
  BY LowPowerFacts DEF SameLook
<1> HIDE DEF p
<1>2. /\ LowSensory(p) \in Below(g, f, v) /\ LowSensory(p) \in Below(35, 0, 18)
      /\ SameLook(p, LowSensory(p)) /\ LowSensory(p).density = p.density
  BY <1>1, LowSensoryFacts
<1>3. ASSUME p \in Below(20, 100, 12) PROVE LowSensory(p) \in Below(20, 100, 12)
  <2>1. 20 \in Nat /\ 100 \in Nat /\ 12 \in Nat
    OBVIOUS
  <2> QED
    BY <1>3, <2>1, LowSensoryFacts
<1>4. /\ q \in Below(g, f, v) /\ SameLook(p, q) /\ q.density = p.density
      /\ ctx.lowPower => q \in Below(20, 100, 12)
      /\ ctx.lowSensory => q \in Below(35, 0, 18)
  BY <1>1, <1>2, <1>3 DEF SameLook
<1> HIDE DEF q
<1>5. /\ NoFlicker(q) \in Below(g, f, v) /\ NoFlicker(q) \in Below(100, 0, 100)
      /\ SameLook(q, NoFlicker(q)) /\ NoFlicker(q).density = q.density
  BY <1>4, NoFlickerFacts
<1>6. ASSUME q \in Below(20, 100, 12) PROVE NoFlicker(q) \in Below(20, 100, 12)
  <2>1. 20 \in Nat /\ 100 \in Nat /\ 12 \in Nat
    OBVIOUS
  <2> QED
    BY <1>6, <2>1, NoFlickerFacts
<1>7. ASSUME q \in Below(35, 0, 18) PROVE NoFlicker(q) \in Below(35, 0, 18)
  <2>1. 35 \in Nat /\ 0 \in Nat /\ 18 \in Nat
    OBVIOUS
  <2> QED
    BY <1>7, <2>1, NoFlickerFacts
<1>8. /\ x \in Below(g, f, v) /\ SameLook(q, x) /\ x.density = q.density
      /\ ctx.lowPower => x \in Below(20, 100, 12)
      /\ ctx.lowSensory => x \in Below(35, 0, 18)
      /\ ctx.noFlicker => x \in Below(100, 0, 100)
  BY <1>4, <1>5, <1>6, <1>7 DEF SameLook
<1>9. Accommodate(w, ctx) = x
  BY DEF Accommodate, x, q, p
<1> HIDE DEF x
<1>10. /\ ctx.lowPower => x.glow <= 20 /\ x.velocity <= 12
       /\ ctx.lowSensory => x.glow <= 35 /\ x.velocity <= 18 /\ x.flicker <= 0
       /\ ctx.noFlicker => x.flicker = 0
  BY <1>8 DEF Below
<1> QED
  BY <1>1, <1>4, <1>8, <1>9, <1>10 DEF SameLook

\* What senses without a granted capability becomes idle, in the same look.
LEMMA SensorFacts ==
  ASSUME NEW g \in Nat, NEW f \in Nat, NEW v \in Nat, NEW w \in Below(g, f, v),
         NEW ctx \in Context
  PROVE  LET x == SensorGate(w, ctx)
         IN /\ x \in Below(g, f, v) /\ x.mode = w.mode /\ x.shape = w.shape
            /\ x.glow = w.glow /\ x.flicker = w.flicker /\ x.velocity = w.velocity
            /\ x.density = w.density /\ x.cadence = w.cadence
            /\ x.state = w.state \/ x.state = "IDLE"
            /\ x.state = "SENSOR_ACTIVE" => ctx.granted /\ x = w
<1> DEFINE x == [w EXCEPT !.state = "IDLE"]
<1>1. w \in Contract /\ "IDLE" \in StateNames
  BY NameAssumption DEF Below, States
<1>2. x \in Contract
  BY <1>1, PutType
<1>3. /\ x.mode = w.mode /\ x.shape = w.shape /\ x.state = "IDLE"
      /\ x.glow = w.glow /\ x.flicker = w.flicker /\ x.velocity = w.velocity
      /\ x.density = w.density /\ x.cadence = w.cadence
  BY <1>1 DEF Contract
<1>4. ApplyProfileMap(x) = x
  BY <1>2, MapKeepsContract
<1> HIDE DEF x
<1>5. x \in Below(g, f, v)
  BY <1>2, <1>3 DEF Below
<1>6. CASE w.state = "SENSOR_ACTIVE" /\ ~ctx.granted
  <2>1. SensorGate(w, ctx) = x
    BY <1>4, <1>6 DEF SensorGate, x
  <2> QED
    BY <1>3, <1>5, <2>1
<1>7. CASE ~(w.state = "SENSOR_ACTIVE" /\ ~ctx.granted)
  <2>1. SensorGate(w, ctx) = w
    BY <1>7 DEF SensorGate
  <2> QED
    BY <1>7, <2>1
<1> QED
  BY <1>6, <1>7

-----------------------------------------------------------------------------
(* What leaves the pipeline                                                  *)

\* A payload, context and earlier state the clamp stage can read.
Readable(payload, ctx, was) ==
  /\ payload \in Payload /\ ctx \in Context /\ was \in StateNames \cup {Missing}
  /\ ~ClampRaises(Normalise(payload, ctx, was))

\* The limit on glow is 0.72, or 0.90 for the schema stage's contract.
LEMMA GlowLimitValue ==
  ASSUME NEW payload
  PROVE  /\ GlowLimit(payload) = IF Replaced(payload) THEN 90 ELSE 72
         /\ GlowLimit(payload) \in Nat
BY DEF GlowLimit, SafeContract, StateProfiles, States, Profile, PsychoLimits

\* What the policy stage is handed: within the limits, or the schema's contract.
LEMMA CheckedBounds ==
  ASSUME NEW payload, NEW ctx, NEW was, NEW drifting \in BOOLEAN,
         Readable(payload, ctx, was)
  PROVE  LET w == Checked(payload, ctx, was, drifting)
         IN /\ w \in Below(90, 12, 50)
            /\ ~Replaced(payload) => w \in Below(72, 12, 50)
            /\ Replaced(payload) => w = SafeContract
            /\ w \in Below(GlowLimit(payload), 12, 50)
<1> DEFINE n == Normalise(payload, ctx, was)
           x == Gate(Limit(n, ctx), drifting)
<1>1. n \in Contract
  BY NormaliseType, ReadableIsContract DEF Readable
<1> HIDE DEF n
<1>2. Limit(n, ctx) \in Below(72, 12, 50)
  BY <1>1, LimitBounds DEF Readable
<1>3. x \in Below(72, 12, 50)
  BY <1>2, GateBounds
<1>4. Checked(payload, ctx, was, drifting) = IF Replaced(payload) THEN SafeContract ELSE x
  BY DEF Checked, Validated, x, n
<1> HIDE DEF x
<1>5. x \in Below(90, 12, 50)
  BY <1>3 DEF Below
<1>6. SafeContract \in Below(90, 12, 50)
  BY SafeContractBounds DEF Below
<1> QED
  BY <1>3, <1>4, <1>5, <1>6, GlowLimitValue

\* The last two stages together: no intensity rises, the accommodations hold, and
\* without an override the state is the one judged or idle, in its own look.
LEMMA ApproveFacts ==
  ASSUME NEW g \in Nat, NEW f \in Nat, NEW v \in Nat, NEW w \in Below(g, f, v),
         NEW ctx \in Context
  PROVE  LET u == Approve(w, ctx)
         IN /\ u \in Below(g, f, v)
            /\ ctx.lowPower => u.glow <= 20 /\ u.velocity <= 12 /\ u.density <= 22
            /\ ctx.lowSensory => u.glow <= 35 /\ u.velocity <= 18 /\ u.flicker <= 0
            /\ ctx.noFlicker => u.flicker = 0
            /\ u.state = "SENSOR_ACTIVE" => ctx.granted
            /\ ctx.forced \notin States =>
                 /\ u.state \in {w.state, "IDLE"}
                 /\ u.state \in Reserved => u.mode = ReservedPalettes[u.state]
                 /\ u.state = "ERROR" => u.shape = "CRACKED_SHELL"
                 /\ u.state = "NIRODHA" => u.glow <= 20 /\ u.velocity <= 10
<1> DEFINE x == ApplyPolicyRules(w)
           y == ForceState(x, ctx)
           z == Accommodate(y, ctx)
           u == SensorGate(z, ctx)
<1>1. /\ x \in Below(g, f, v) /\ x.state = w.state
      /\ w.state \in Reserved => x.mode = ReservedPalettes[w.state]
      /\ w.state = "ERROR" => x.shape = "CRACKED_SHELL"
      /\ w.state = "NIRODHA" => x \in Below(20, f, 10)
  BY PolicyFacts
<1> HIDE DEF x
<1>2. y \in Below(g, f, v) /\ (ctx.forced \notin States => y = x)
  BY <1>1, ForceFacts
<1> HIDE DEF y
<1>3. /\ z \in Below(g, f, v) /\ SameLook(y, z)
      /\ ctx.lowPower => z.glow <= 20 /\ z.velocity <= 12 /\ z.density <= 22
      /\ ctx.lowSensory => z.glow <= 35 /\ z.velocity <= 18 /\ z.flicker <= 0
      /\ ctx.noFlicker => z.flicker = 0
  BY <1>2, AccommodateFacts
<1>4. ASSUME y \in Below(20, f, 10) PROVE z \in Below(20, f, 10)
  BY <1>4, AccommodateFacts
<1> HIDE DEF z
<1>5. /\ u \in Below(g, f, v) /\ u.mode = z.mode /\ u.shape = z.shape
      /\ u.glow = z.glow /\ u.flicker = z.flicker /\ u.velocity = z.velocity
      /\ u.density = z.density /\ (u.state = z.state \/ u.state = "IDLE")
      /\ u.state = "SENSOR_ACTIVE" => ctx.granted
  BY <1>3, SensorFacts
<1>6. Approve(w, ctx) = u
  BY DEF Approve, ApplyCapabilityGates, u, x, y, z
<1> HIDE DEF u
<1>7. /\ ctx.lowPower => u.glow <= 20 /\ u.velocity <= 12 /\ u.density <= 22
      /\ ctx.lowSensory => u.glow <= 35 /\ u.velocity <= 18 /\ u.flicker <= 0
      /\ ctx.noFlicker => u.flicker = 0
  BY <1>3, <1>5
<1>8. ASSUME ctx.forced \notin States
      PROVE  /\ u.state \in {w.state, "IDLE"}
             /\ u.state \in Reserved => u.mode = ReservedPalettes[u.state]
             /\ u.state = "ERROR" => u.shape = "CRACKED_SHELL"
             /\ u.state = "NIRODHA" => u.glow <= 20 /\ u.velocity <= 10
  <2>1. z.state = w.state /\ z.mode = x.mode /\ z.shape = x.shape
    BY <1>1, <1>2, <1>3, <1>8 DEF SameLook
  <2>2. w.state = "NIRODHA" => z \in Below(20, f, 10)
    BY <1>1, <1>2, <1>4, <1>8
  <2>3. w.state = "NIRODHA" => u.glow <= 20 /\ u.velocity <= 10
    BY <1>5, <2>2 DEF Below
  <2>4. u.state # w.state => u.state = "IDLE"
    BY <1>5, <2>1
  <2>5. "IDLE" \notin Reserved
    BY DEF Reserved
  <2> QED
    BY <1>1, <1>5, <2>1, <2>3, <2>4, <2>5
<1> QED
  BY <1>5, <1>6, <1>7, <1>8

\* Whatever the stages make of a readable payload is a contract again.
THEOREM FinalIsContract ==
  ASSUME NEW payload, NEW ctx, NEW was, NEW drifting \in BOOLEAN,
         Readable(payload, ctx, was)
  PROVE  Final(payload, ctx, was, drifting) \in Contract
<1>1. Final(payload, ctx, was, drifting) \in Below(90, 12, 50)
  BY CheckedBounds, ApproveFacts DEF Final, Readable
<1> QED
  BY <1>1 DEF Below

\* No profile, policy or override lifts an intensity over the psycho-safety limits, and none lifts the
\* glow of the contract the schema stage falls back to over its own, which is brighter than they allow.
THEOREM FinalWithinLimits ==
  ASSUME NEW payload, NEW ctx, NEW was, NEW drifting \in BOOLEAN,
         Readable(payload, ctx, was)
  PROVE  Final(payload, ctx, was, drifting) \in Below(GlowLimit(payload), 12, 50)
BY CheckedBounds, ApproveFacts, GlowLimitValue DEF Final, Readable

\* A contract in a state of alert keeps its glow through the policy and the gates, unless an
\* accommodation lowers it.
LEMMA AlertKeepsGlow ==
  ASSUME NEW g \in Nat, g <= 100, NEW f \in Nat, NEW v \in Nat, NEW w \in Below(g, f, v), w.state = "ERROR",
         NEW ctx \in Context, ~ctx.lowPower, ~ctx.lowSensory
  PROVE  Approve(w, ctx).glow = w.glow
<1> DEFINE r == ReserveAppearance(w)
           x == ScholarGate(r)
           y == ForceState(x, ctx)
           z == Accommodate(y, ctx)
<1>1. r \in Below(g, f, v) /\ w \in Contract /\ r.state = "ERROR"
  BY ReserveFacts DEF Below
<1>2. r.glow = w.glow
  <2>1. Dress(w).glow = w.glow /\ Dress(w) \in Contract
    <3>1. Dress(w).glow = w.glow
      BY <1>1 DEF Dress, Contract
    <3> QED
      BY <3>1, DressFacts DEF Below
  <2>2. TruncateUniforms(Dress(w)).glow = Dress(w).glow
    BY <2>1 DEF TruncateUniforms, Contract
  <2> QED
    BY <2>1, <2>2 DEF ReserveAppearance
<1> HIDE DEF r
<1>3. x \in Below(g, f, v) /\ r \in Contract
  BY <1>1, ScholarFacts DEF Below
<1>4. x.glow = r.glow
  <2>1. r.glow \in Nat /\ r.glow <= 100
    BY <1>1 DEF Below
  <2>2. CASE r.scholar # Missing
    BY <1>1, <1>3, <2>2 DEF ScholarGate, Alert, Contract
  <2>3. CASE r.scholar = Missing
    <3>1. x = Cap(r, 100, 20, 100)
      BY <2>3, MarkerAssumption DEF ScholarGate
    <3>2. x.glow = AtMost(r.glow, 100)
      BY <1>3, <3>1 DEF Cap, Contract
    <3> QED
      BY <2>1, <3>2 DEF AtMost
  <2> QED
    BY <2>2, <2>3
<1> HIDE DEF x
<1>5. y \in Below(g, f, v) /\ x \in Contract
  BY <1>3, ForceFacts DEF Below
<1>6. y.glow = x.glow
  <2> DEFINE k == [x EXCEPT !.state = ctx.forced]
  <2>1. CASE ctx.forced \in States
    <3>1. k \in Contract /\ k.glow = x.glow
      BY <1>5, <2>1, PutType, NameAssumption DEF Contract
    <3> QED
      BY <2>1, <3>1, MapKeepsContract DEF ForceState
  <2>2. CASE ctx.forced \notin States
    BY <2>2 DEF ForceState
  <2> QED
    BY <2>1, <2>2
<1> HIDE DEF y
<1>7. z \in Below(g, f, v) /\ y \in Contract
  BY <1>5, AccommodateFacts DEF Below
<1>8. z.glow = y.glow
  <2>1. y.glow \in Nat /\ y.glow <= 100
    BY <1>5 DEF Below
  <2>2. z = y \/ z = Cap(y, 100, 0, 100)
    BY DEF Accommodate, NoFlicker
  <2>3. Cap(y, 100, 0, 100).glow = AtMost(y.glow, 100)
    BY <1>7 DEF Cap, Contract
  <2> QED
    BY <2>1, <2>2, <2>3 DEF AtMost
<1> HIDE DEF z
<1>9. SensorGate(z, ctx).glow = z.glow
  BY <1>7, SensorFacts
<1> QED
  BY <1>2, <1>4, <1>6, <1>8, <1>9
  DEF Approve, ApplyCapabilityGates, ApplyPolicyRules, r, x, y, z

\* The schema stage's contract leaves the pipeline as bright as it entered it.
THEOREM FinalFallback ==
  ASSUME NEW payload, NEW ctx, NEW was, NEW drifting \in BOOLEAN,
         Readable(payload, ctx, was), Replaced(payload), ~ctx.lowPower, ~ctx.lowSensory
  PROVE  Final(payload, ctx, was, drifting).glow = 90
<1>1. Checked(payload, ctx, was, drifting) = SafeContract /\ ctx \in Context
  BY CheckedBounds DEF Readable
<1>2. SafeContract.glow = 90 /\ SafeContract.state = "ERROR"
  BY DEF SafeContract, StateProfiles, States, Profile
<1>3. SafeContract \in Below(90, 0, 26) /\ 90 \in Nat /\ 90 <= 100 /\ 0 \in Nat /\ 26 \in Nat
  BY SafeContractBounds
<1> QED
  BY <1>1, <1>2, <1>3, AlertKeepsGlow DEF Final

\* Low power, low sensory and no-flicker modes all hold of the final contract.
THEOREM FinalAccommodates ==
  ASSUME NEW payload, NEW ctx, NEW was, NEW drifting \in BOOLEAN,
         Readable(payload, ctx, was)
  PROVE  LET u == Final(payload, ctx, was, drifting)
         IN /\ ctx.lowPower => u.glow <= 20 /\ u.velocity <= 12 /\ u.density <= 22
            /\ ctx.lowSensory => u.glow <= 35 /\ u.velocity <= 18 /\ u.flicker <= 0
            /\ ctx.noFlicker => u.flicker = 0
<1>1. Checked(payload, ctx, was, drifting) \in Below(90, 12, 50) /\ ctx \in Context
  BY CheckedBounds DEF Readable
<1> QED
  BY <1>1, ApproveFacts DEF Final

\* Without an override an alert or dormant state leaves in its own look.
THEOREM FinalReserved ==
  ASSUME NEW payload, NEW ctx, NEW was, NEW drifting \in BOOLEAN,
         Readable(payload, ctx, was), ctx.forced \notin States
  PROVE  LET u == Final(payload, ctx, was, drifting)
         IN /\ u.state \in Reserved => u.mode = ReservedPalettes[u.state]
            /\ u.state = "ERROR" => u.shape = "CRACKED_SHELL"
            /\ u.state = "NIRODHA" => u.glow <= 20 /\ u.velocity <= 10
<1>1. Checked(payload, ctx, was, drifting) \in Below(90, 12, 50) /\ ctx \in Context
  BY CheckedBounds DEF Readable
<1> QED
  BY <1>1, ApproveFacts DEF Final

\* A final contract senses only where sensing was granted and, unless forced, allowed.
THEOREM FinalSensing ==
  ASSUME NEW payload, NEW ctx, NEW was, NEW drifting \in BOOLEAN,
         Readable(payload, ctx, was),
         ~PolicyBlocks(Checked(payload, ctx, was, drifting), ctx),
         Final(payload, ctx, was, drifting).state = "SENSOR_ACTIVE"
  PROVE  ctx.granted /\ (ctx.forced \notin States => ctx.allowSensor)
<1>1. Checked(payload, ctx, was, drifting) \in Below(90, 12, 50) /\ ctx \in Context
  BY CheckedBounds DEF Readable
<1>2. /\ ctx.granted
      /\ ctx.forced \notin States
           => Checked(payload, ctx, was, drifting).state = "SENSOR_ACTIVE"
  BY <1>1, ApproveFacts DEF Final
<1> QED
  BY <1>2 DEF PolicyBlocks

\* The judged stages keep the state the transition stage chose.
LEMMA CheckedState ==
  ASSUME NEW payload, NEW ctx, NEW was, NEW drifting \in BOOLEAN,
         Readable(payload, ctx, was), ~Replaced(payload)
  PROVE  Checked(payload, ctx, was, drifting).state
           = ApplyTransitionRules(payload.body, ctx, was).state
<1> DEFINE b == ApplyTransitionRules(payload.body, ctx, was)
           n == ApplyProfileMap(b)
           l == Limit(n, ctx)
           m == LimitFlashes(l)
<1>1. n.state = b.state
  BY DEF ApplyProfileMap, ApplyTransitionRules, Readable, Payload, Body
<1>2. n \in Contract
  BY NormaliseType, ReadableIsContract DEF Readable, Normalise
<1> HIDE DEF n
<1>3. l \in Below(72, 12, 50)
  BY <1>2, LimitBounds DEF Readable
<1>4. l.state = n.state
  BY <1>2 DEF Limit, LimitIntensity, Cap, ApplyClamps, Contract
<1> HIDE DEF l
<1>5. m.state = l.state /\ Contain(m).state = m.state
  BY <1>3 DEF LimitFlashes, ShowCadence, Cap, Contain, Below, Contract
<1>6. Gate(l, drifting).state = l.state
  BY <1>5 DEF Gate
<1> QED
  BY <1>1, <1>4, <1>6 DEF Checked, Validated, Normalise, n, l

\* From every other state the idle one may be entered.
LEMMA IdleIsReachable ==
  \A s \in States : s # "IDLE" => "IDLE" \in AllowedTransitions[s]
<1> SUFFICES ASSUME NEW s \in States, s # "IDLE" PROVE "IDLE" \in AllowedTransitions[s]
  OBVIOUS
<1>1. CASE s = "LISTENING"
  BY <1>1 DEF States, AllowedTransitions
<1>2. CASE s = "THINKING"
  BY <1>2 DEF States, AllowedTransitions
<1>3. CASE s = "GENERATING"
  BY <1>3 DEF States, AllowedTransitions
<1>4. CASE s = "RESPONDING"
  BY <1>4 DEF States, AllowedTransitions
<1>5. CASE s = "WARNING"
  BY <1>5 DEF States, AllowedTransitions
<1>6. CASE s = "ERROR"
  BY <1>6 DEF States, AllowedTransitions
<1>7. CASE s = "NIRODHA"
  BY <1>7 DEF States, AllowedTransitions
<1>8. CASE s = "SENSOR_ACTIVE"
  BY <1>8 DEF States, AllowedTransitions
<1> QED
  BY <1>1, <1>2, <1>3, <1>4, <1>5, <1>6, <1>7, <1>8 DEF States

\* The state of a final contract is one its previous state may turn into.
THEOREM FinalTransition ==
  ASSUME NEW payload, NEW ctx, NEW was, NEW drifting \in BOOLEAN,
         Readable(payload, ctx, was), ~Replaced(payload), ctx.forced \notin States,
         PreviousState(ctx, was) \in States
  PROVE  Final(payload, ctx, was, drifting).state
           \in {PreviousState(ctx, was)} \cup AllowedTransitions[PreviousState(ctx, was)]
<1> DEFINE from == PreviousState(ctx, was)
           w == Checked(payload, ctx, was, drifting)
           u == Final(payload, ctx, was, drifting)
<1>1. w \in Below(90, 12, 50) /\ ctx \in Context
  BY CheckedBounds DEF Readable
<1>2. u.state \in {w.state, "IDLE"}
  <2>1. u = Approve(w, ctx)
    BY DEF Final
  <2> HIDE DEF u, w
  <2>2. 90 \in Nat /\ 12 \in Nat /\ 50 \in Nat
    OBVIOUS
  <2> QED
    BY <1>1, <2>1, <2>2, ApproveFacts
<1>3. w.state = ApplyTransitionRules(payload.body, ctx, was).state
  BY CheckedState
<1>4. w.state \in {from} \cup AllowedTransitions[from]
  BY <1>3 DEF ApplyTransitionRules, Allowed, Readable, Payload, Body
<1> HIDE DEF w, u
<1>5. "IDLE" \in {from} \cup AllowedTransitions[from]
  BY IdleIsReachable
<1> QED
  BY <1>2, <1>4, <1>5 DEF u

\* The last two stages pass the cadence on, or drop it with the other uniforms.
LEMMA CadenceKept ==
  ASSUME NEW g \in Nat, NEW f \in Nat, NEW v \in Nat, NEW w \in Below(g, f, v),
         NEW ctx \in Context
  PROVE  Approve(w, ctx).cadence \in {w.cadence, Missing}
<1> DEFINE r == ReserveAppearance(w)
           x == ScholarGate(r)
           y == ForceState(x, ctx)
           z == Accommodate(y, ctx)
<1>1. r \in Below(g, f, v) /\ w \in Contract
  BY ReserveFacts DEF Below
<1>2. r.cadence \in {w.cadence, Missing}
  BY <1>1 DEF ReserveAppearance, TruncateUniforms, Dress, Cap, Contract
<1> HIDE DEF r
<1>3. x \in Below(g, f, v) /\ r \in Contract
  BY <1>1, ScholarFacts DEF Below
<1>4. x.cadence = r.cadence
  BY <1>3 DEF ScholarGate, Cap, Contract
<1> HIDE DEF x
<1>5. y \in Below(g, f, v) /\ x \in Contract
  BY <1>3, ForceFacts DEF Below
<1>6. y.cadence = x.cadence
  <2> DEFINE k == [x EXCEPT !.state = ctx.forced]
  <2>1. CASE ctx.forced \in States
    <3>1. k \in Contract /\ k.cadence = x.cadence
      BY <1>5, <2>1, PutType, NameAssumption DEF Contract
    <3> QED
      BY <2>1, <3>1, MapKeepsContract DEF ForceState
  <2>2. CASE ctx.forced \notin States
    BY <2>2 DEF ForceState
  <2> QED
    BY <2>1, <2>2
<1> HIDE DEF y
<1>7. z \in Below(g, f, v) /\ y \in Contract
  BY <1>5, AccommodateFacts DEF Below
<1>8. z.cadence = y.cadence
  BY <1>7 DEF Accommodate, LowPower, LowSensory, NoFlicker, Cap, Contract
<1> HIDE DEF z
<1>9. SensorGate(z, ctx).cadence = z.cadence
  BY <1>7, SensorFacts
<1> QED
  BY <1>2, <1>4, <1>6, <1>8, <1>9
  DEF Approve, ApplyCapabilityGates, ApplyPolicyRules, r, x, y, z

\* Flashes of what the gate let through.
LEMMA GatedFlashes ==
  ASSUME NEW payload, NEW ctx, NEW was, NEW drifting \in BOOLEAN,
         Readable(payload, ctx, was), ~Replaced(payload)
  PROVE  LET u == Final(payload, ctx, was, drifting)
             c == payload.body.cadence
         IN /\ AskedCadence(u) <= FlashesMax
            /\ c # Missing /\ c > FlashesMax /\ c < LowRiskFrequency
                 => u.flicker <= LowFreqFlickerCap
<1> DEFINE n == Normalise(payload, ctx, was)
           l == Limit(n, ctx)
           m == LimitFlashes(l)
           w == Checked(payload, ctx, was, drifting)
           u == Final(payload, ctx, was, drifting)
           c == payload.body.cadence
<1>1. n \in Contract /\ ctx \in Context /\ c \in Int \cup {Missing}
  BY NormaliseType, ReadableIsContract DEF Readable, Payload, Body
<1>2. n.cadence = c
  BY DEF Normalise, ApplyProfileMap, ApplyTransitionRules, Readable, Payload, Body
<1> HIDE DEF n, c
<1>3. l \in Below(72, 12, 50)
  BY <1>1, LimitBounds
<1>4. l.cadence = c
  BY <1>1, <1>2 DEF Limit, LimitIntensity, Cap, ApplyClamps, Contract
<1> HIDE DEF l
<1>5. l \in Contract /\ l.flicker \in 0..12
  BY <1>3 DEF Below
<1>6. SafeCadence(l) \in 0..FlashesMax
  BY <1>1, <1>4, <1>5, MarkerAssumption DEF SafeCadence, AskedCadence, AtMost, FlashesMax
<1>7. m.cadence = SafeCadence(l) /\ Contain(m).cadence = m.cadence
  BY <1>5 DEF LimitFlashes, ShowCadence, Cap, Contain, Contract
<1>8. w = Gate(l, drifting)
  BY DEF Checked, Validated, n, l
<1>9. w.cadence = SafeCadence(l)
  BY <1>7, <1>8 DEF Gate
<1>10. w \in Below(72, 12, 50)
  BY <1>3, <1>8, GateBounds
<1>11. u \in Below(72, 12, 50) /\ u.cadence \in {w.cadence, Missing}
  BY <1>1, <1>10, ApproveFacts, CadenceKept DEF Final
<1> HIDE DEF u, w
<1>12. AskedCadence(u) <= FlashesMax
  <2>1. u.flicker \in 0..12
    BY <1>11 DEF Below
  <2>2. u.cadence \in 0..FlashesMax \cup {Missing}
    BY <1>6, <1>9, <1>11
  <2> QED
    BY <2>1, <2>2, MarkerAssumption DEF AskedCadence, FlashesMax
<1>13. ASSUME c # Missing, c > FlashesMax, c < LowRiskFrequency
       PROVE  u.flicker <= LowFreqFlickerCap
  <2>1. LowFrequency(l)
    BY <1>1, <1>4, <1>13 DEF LowFrequency, AskedCadence, FlashesMax
  <2>2. Cap(l, 100, 8, 100) \in Below(100, 8, 100)
    BY <1>3, CapBounds
  <2>3. m \in Below(100, 8, 100)
    <3>1. m = ShowCadence(Cap(l, 100, 8, 100), SafeCadence(l))
      BY <2>1 DEF LimitFlashes, LowFreqFlickerCap
    <3>2. SafeCadence(l) \in Int \cup {Missing}
      BY <1>6 DEF FlashesMax
    <3> HIDE DEF m
    <3> QED
      BY <2>2, <3>1, <3>2, ShowCadenceBounds
  <2> HIDE DEF m
  <2>4. Contain(m) \in Below(100, 8, 100)
    BY <2>3, CapBounds DEF Contain
  <2>5. w \in Below(100, 8, 100)
    BY <1>8, <2>3, <2>4 DEF Gate, m
  <2>6. u \in Below(100, 8, 100)
    BY <1>1, <2>5, ApproveFacts DEF Final, u, w
  <2> QED
    BY <2>6 DEF Below, LowFreqFlickerCap
<1> QED
  BY <1>12, <1>13 DEF u, c

\* Flashes: no final contract shows more than three a second, and one that asked for
\* a rate in the risky band has its flicker damped, whatever the later stages do.
THEOREM FinalFlashes ==
  ASSUME NEW payload, NEW ctx, NEW was, NEW drifting \in BOOLEAN,
         Readable(payload, ctx, was)
  PROVE  LET u == Final(payload, ctx, was, drifting)
             c == payload.body.cadence
         IN /\ AskedCadence(u) <= FlashesMax
            /\ c # Missing /\ c > FlashesMax /\ c < LowRiskFrequency
                 => u.flicker <= LowFreqFlickerCap
<1> DEFINE u == Final(payload, ctx, was, drifting)
<1>1. CASE ~Replaced(payload)
  BY <1>1, GatedFlashes
<1>2. CASE Replaced(payload)
  <2>1. Checked(payload, ctx, was, drifting) = SafeContract /\ ctx \in Context
    BY <1>2, CheckedBounds DEF Readable
  <2>2. SafeContract \in Below(90, 0, 26) /\ SafeContract.cadence = Missing
    BY SafeContractBounds DEF SafeContract
  <2>3. 90 \in Nat /\ 0 \in Nat /\ 26 \in Nat
    OBVIOUS
  <2>4. Approve(SafeContract, ctx) \in Below(90, 0, 26) /\ Approve(SafeContract, ctx).cadence = Missing
    BY <2>1, <2>2, <2>3, ApproveFacts, CadenceKept
  <2>5. u \in Below(90, 0, 26) /\ u.cadence = Missing
    BY <2>1, <2>4 DEF Final
  <2> HIDE DEF u
  <2>6. u.flicker = 0
    BY <2>5 DEF Below
  <2>7. AskedCadence(u) <= FlashesMax /\ u.flicker <= LowFreqFlickerCap
    BY <2>5, <2>6 DEF AskedCadence, FlashesMax, LowFreqFlickerCap
  <2> QED
    BY <2>7 DEF u
<1> QED
  BY <1>1, <1>2

-----------------------------------------------------------------------------
(* The RuntimeGovernor: where an accepted contract comes from. The theorems *)
(* about the pipeline do the rest.                                           *)

\* An accepted contract is what the stages make of the request it answers.
Explained ==
  Accepted =>
    \E drifting \in BOOLEAN :
      /\ Readable(decision.payload, decision.ctx, decision.was)
      /\ Approved = Final(decision.payload, decision.ctx, decision.was, drifting)
      /\ ~PolicyBlocks(Checked(decision.payload, decision.ctx, decision.was, drifting),
                       decision.ctx)

Inv == DecisionType /\ Explained

\* What a refusal returns is a contract.
LEMMA SafeContractType == SafeContract \in Contract
BY SafeContractBounds DEF Below

\* The decision of a refused or unreadable envelope keeps the invariant.
LEMMA RefusalPreserves ==
  ASSUME DecisionType, NEW payload \in Payloads, NEW ctx \in Contexts,
         RejectEnvelope(payload, ctx) \/ FailInClamp(payload, ctx)
  PROVE  Inv'
<1>1. CASE RejectEnvelope(payload, ctx)
  <2>1. decision' \in Decision /\ decision'.outcome = "invalid"
    BY <1>1, SafeContractType DEF RejectEnvelope, Decided, Decision, DecisionType
  <2> QED
    BY <1>1, <2>1 DEF RejectEnvelope, DecisionType, Inv, Explained, Accepted
<1>2. CASE FailInClamp(payload, ctx)
  <2>1. decision' \in Failure /\ decision'.outcome = "raised"
    BY <1>2 DEF FailInClamp, Failure
  <2> QED
    BY <1>2, <2>1 DEF FailInClamp, DecisionType, Inv, Explained, Accepted
<1> QED
  BY <1>1, <1>2

\* A judged request is explained by the drift its own sample shows.
LEMMA JudgePreserves ==
  ASSUME DecisionType, NEW payload \in Payloads, NEW ctx \in Contexts,
         ~ClampRaises(Normalise(payload, ctx, last)), Judge(payload, ctx)
  PROVE  Inv'
<1>1. Readable(payload, ctx, last)
  BY RequestAssumption DEF Readable, DecisionType
<1>2. PICK drifting \in BOOLEAN :
        \/ /\ decision' = Decided("blocked", SafeContract, payload, ctx)
           /\ last' = last
        \/ /\ ~PolicyBlocks(Checked(payload, ctx, last, drifting), ctx)
           /\ decision' = Decided("accepted", Final(payload, ctx, last, drifting),
                                  payload, ctx)
           /\ last' = Final(payload, ctx, last, drifting).state
  <2> DEFINE limited  == Limit(Normalise(payload, ctx, last), ctx)
             sample   == [ts |-> Timestamp(payload), cadence |-> SafeCadence(limited)]
             recorded == RecordSample(series, sample)
             d        == DetectGradualDrift(recorded, sample.ts)
  <2>1. d \in BOOLEAN
    BY DEF DetectGradualDrift
  <2>2. \/ /\ decision' = Decided("blocked", SafeContract, payload, ctx)
           /\ last' = last
        \/ /\ ~PolicyBlocks(Checked(payload, ctx, last, d), ctx)
           /\ decision' = Decided("accepted", Final(payload, ctx, last, d), payload, ctx)
           /\ last' = Final(payload, ctx, last, d).state
    BY DEF Judge
  <2> HIDE DEF d
  <2> QED
    BY <2>1, <2>2
<1> DEFINE final == Final(payload, ctx, last, drifting)
<1>3. final \in Contract
  BY <1>1, FinalIsContract
<1>4. final.state \in StateNames
  BY <1>3 DEF Contract
<1>5. CASE /\ decision' = Decided("blocked", SafeContract, payload, ctx)
           /\ last' = last
  <2>1. decision' \in Decision /\ decision'.outcome = "blocked"
    BY <1>5, SafeContractType DEF Decided, Decision, DecisionType
  <2> QED
    BY <1>5, <2>1 DEF DecisionType, Inv, Explained, Accepted
<1>6. CASE /\ ~PolicyBlocks(Checked(payload, ctx, last, drifting), ctx)
           /\ decision' = Decided("accepted", final, payload, ctx)
           /\ last' = final.state
  <2> HIDE DEF final
  <2>1. decision' \in Decision
    BY <1>3, <1>6 DEF Decided, Decision, DecisionType
  <2>2. DecisionType'
    BY <1>4, <1>6, <2>1 DEF DecisionType
  <2>3. /\ decision'.payload = payload /\ decision'.ctx = ctx
        /\ decision'.was = last /\ decision'.contract = final
    BY <1>6 DEF Decided
  <2>4. Explained'
    BY <1>1, <1>6, <2>3 DEF Explained, Approved, final
  <2> QED
    BY <2>2, <2>4 DEF Inv
<1> QED
  BY <1>2, <1>5, <1>6

\* Every decision has its type, and every accepted contract its explanation.
THEOREM EveryApprovalIsExplained == Spec => []Inv
<1>1. Init => Inv
  BY DEF Init, Inv, DecisionType, Explained, Accepted, NoDecision
<1>2. Inv /\ [Next]_vars => Inv'
  <2> SUFFICES ASSUME Inv, [Next]_vars PROVE Inv'
    OBVIOUS
  <2>1. ASSUME NEW payload \in Payloads, NEW ctx \in Contexts, Process(payload, ctx)
        PROVE  Inv'
    BY <2>1, RefusalPreserves, JudgePreserves DEF Process, Inv
  <2>2. ASSUME last' = last, decision' = decision PROVE Inv'
    BY <2>2 DEF Inv, DecisionType, Explained, Accepted, Approved
  <2>3. CASE Tick
    BY <2>2, <2>3 DEF Tick
  <2>4. CASE UNCHANGED vars
    BY <2>2, <2>4 DEF vars
  <2> QED
    BY <2>1, <2>3, <2>4 DEF Next
<1> QED
  BY <1>1, <1>2, PTL DEF Spec

-----------------------------------------------------------------------------
(* The safety invariants of RuntimeGovernor.                                 *)

\* Psycho-safety: no accepted contract leaves PSYCHO_SAFETY_LIMITS, but for the glow of the
\* contract the schema stage put in the judged one's place, which is its own.
THEOREM LimitsHold == Spec => []WithinPsychoLimits
<1>1. Inv => WithinPsychoLimits
  <2> SUFFICES ASSUME Inv, Accepted PROVE WithinPsychoLimits
    BY DEF WithinPsychoLimits
  <2>1. Approved \in Below(GlowLimit(decision.payload), 12, 50)
    BY FinalWithinLimits DEF Inv, Explained
  <2> QED
    BY <2>1 DEF Below, WithinPsychoLimits, PsychoLimits
<1> QED
  BY <1>1, EveryApprovalIsExplained, PTL

\* The schema stage's contract is accepted as bright as it is, over the limit, where nobody asked
\* for low power or low sensory mode.
THEOREM FallbackOvershoots == Spec => []FallbackStaysBright
<1>1. Inv => FallbackStaysBright
  <2> SUFFICES ASSUME Inv, Accepted, Replaced(decision.payload), ~decision.ctx.lowPower, ~decision.ctx.lowSensory
               PROVE  Approved.glow = SafeContract.glow /\ SafeContract.glow > PsychoLimits.glow
    BY DEF FallbackStaysBright
  <2>1. Approved.glow = 90
    BY FinalFallback DEF Inv, Explained
  <2>2. SafeContract.glow = 90 /\ PsychoLimits.glow = 72
    BY DEF SafeContract, StateProfiles, States, Profile, PsychoLimits
  <2> QED
    BY <2>1, <2>2
<1> QED
  BY <1>1, EveryApprovalIsExplained, PTL

\* Flashes: no accepted contract shows more than three a second, and none that asked
\* for a rate in the risky band keeps a strong flicker.
THEOREM FlashesStayBounded == Spec => []FlashesBounded
<1>1. Inv => FlashesBounded
  BY FinalFlashes DEF Inv, Explained, FlashesBounded, ShownCadence
<1> QED
  BY <1>1, EveryApprovalIsExplained, PTL

\* Accommodations: low power, low sensory and no-flicker modes hold of every accepted
\* contract, overrides and schema fallbacks included.
THEOREM AccommodationsAreKept == Spec => []AccommodationsHold
<1>1. Inv => AccommodationsHold
  BY FinalAccommodates DEF Inv, Explained, AccommodationsHold
<1> QED
  BY <1>1, EveryApprovalIsExplained, PTL

\* Reserved appearance: without an override an alert or dormant state is accepted only
\* in its own look.
THEOREM AlertsLookLikeAlerts == Spec => []ReservedAppearance
<1>1. Inv => ReservedAppearance
  BY FinalReserved DEF Inv, Explained, ReservedAppearance, NoForcing
<1> QED
  BY <1>1, EveryApprovalIsExplained, PTL

\* Sensing: an accepted contract senses only with a granted capability and, unless
\* forced, with the policy's permission.
THEOREM SensingStaysPermitted == Spec => []SensingIsPermitted
<1>1. Inv => SensingIsPermitted
  BY FinalSensing DEF Inv, Explained, SensingIsPermitted, NoForcing
<1> QED
  BY <1>1, EveryApprovalIsExplained, PTL

\* Transitions: the accepted state follows the table from the state it was judged from.
THEOREM TransitionsStayLegal == Spec => []TransitionsAreLegal
<1>1. Inv => TransitionsAreLegal
  BY FinalTransition DEF Inv, Explained, TransitionsAreLegal, Judged, NoForcing
<1> QED
  BY <1>1, EveryApprovalIsExplained, PTL

LEMMA RefusalStep == [Next]_vars => RefusalLeavesLast
<1>1. ASSUME [Next]_vars, decision' # decision, decision'.outcome # "accepted"
      PROVE  last' = last
  <2>1. ASSUME NEW payload \in Payloads, NEW ctx \in Contexts, Process(payload, ctx)
        PROVE  last' = last
    <3>1. CASE Judge(payload, ctx)
      BY <1>1, <3>1 DEF Judge, Decided
    <3> QED
      BY <2>1, <3>1 DEF Process, RejectEnvelope, FailInClamp
  <2> QED
    BY <1>1, <2>1 DEF Next, Tick, vars
<1> QED
  BY <1>1 DEF RefusalLeavesLast

\* Refusal: a request that is not accepted leaves the last accepted state alone.
THEOREM RefusalLeavesNoTrace == Spec => RefusalKeepsState
BY RefusalStep, PTL DEF Spec, RefusalKeepsState

\* How safe to look at what is accepted is, for every payload, context and session: within the limits,
\* with few flashes, and over the limit on glow exactly where the schema stage's contract stays as it is.
THEOREM ApprovalsAreSafe == Spec => []ApprovedIsSafe
BY LimitsHold, FallbackOvershoots, FlashesStayBounded, PTL DEF ApprovedIsSafe

\* What is accepted respects its context, for every payload, context and session.
THEOREM ContextsAreRespected == Spec => []ContextIsRespected
BY AccommodationsAreKept, AlertsLookLikeAlerts, SensingStaysPermitted, PTL
DEF ContextIsRespected

\* A session only goes where the table lets it, and a refusal is no step of it.
THEOREM SessionsAreLegal == Spec => SessionIsLegal
BY TransitionsStayLegal, RefusalStep, PTL DEF Spec, SessionIsLegal

-----------------------------------------------------------------------------
(* The psycho-safety series.                                                 *)

LEMMA LeastNatural ==
  ASSUME NEW T \in SUBSET Nat, T # {}
  PROVE  \E x \in T : \A y \in T : x <= y
<1>1. PICK x \in T : \A y \in T : ~ (<<y, x>> \in OpToRel(<, Nat))
  BY NatLessThanWellFounded, WFMin
<1> SUFFICES ASSUME NEW y \in T, ~ (x <= y) PROVE FALSE
  OBVIOUS
<1>2. x \in Nat /\ y \in Nat /\ y < x
  OBVIOUS
<1>3. <<y, x>> \in OpToRel(<, Nat)
  BY <1>2 DEF OpToRel
<1> QED
  BY <1>1, <1>3

\* How many members of a set of positions are no later than i.
UpTo(S, i) == Cardinality({j \in S : j <= i})

\* Counting along a set of positions meets every number up to its size at a member.
LEMMA EveryRankIsTaken ==
  ASSUME NEW size \in Nat, NEW S \in SUBSET (1..size), NEW n \in 1..Cardinality(S)
  PROVE  \E i \in S : UpTo(S, i) = n
<1>0. \A j \in S : j \in Int /\ 1 <= j /\ j <= size
  OBVIOUS
<1>1. IsFiniteSet(S) /\ Cardinality(S) \in Nat
  <2>1. IsFiniteSet(1..size)
    BY FS_Interval
  <2>2. IsFiniteSet(S)
    BY <2>1, FS_Subset
  <2> QED
    BY <2>2, FS_CardinalityType
<1>2. \A i \in Nat : IsFiniteSet({j \in S : j <= i}) /\ UpTo(S, i) \in Nat
  <2> SUFFICES ASSUME NEW i \in Nat
               PROVE  IsFiniteSet({j \in S : j <= i}) /\ UpTo(S, i) \in Nat
    OBVIOUS
  <2>1. {j \in S : j <= i} \in SUBSET S
    OBVIOUS
  <2>2. IsFiniteSet({j \in S : j <= i})
    BY <1>1, <2>1, FS_Subset
  <2> QED
    BY <2>2, FS_CardinalityType DEF UpTo
<1>3. UpTo(S, 0) = 0
  <2>1. \A j \in S : ~ (j <= 0)
    BY <1>0
  <2>2. {j \in S : j <= 0} = {}
    BY <2>1, Zenon
  <2> QED
    BY <2>2, FS_EmptySet DEF UpTo
<1>4. UpTo(S, size) = Cardinality(S)
  <2>1. {j \in S : j <= size} = S
    BY <1>0
  <2> QED
    BY <2>1 DEF UpTo
<1>5. ASSUME NEW i \in 1..size
      PROVE  UpTo(S, i) = IF i \in S THEN UpTo(S, i - 1) + 1 ELSE UpTo(S, i - 1)
  <2>1. CASE i \in S
    <3>0. \A j \in S : j <= i <=> j <= i - 1 \/ j = i
      BY <1>0
    <3>1. {j \in S : j <= i} = {j \in S : j <= i - 1} \cup {i}
      BY <2>1, <3>0, Zenon
    <3>2. i \notin {j \in S : j <= i - 1}
      OBVIOUS
    <3>3. IsFiniteSet({j \in S : j <= i - 1})
      <4>1. i - 1 \in Nat
        OBVIOUS
      <4> QED
        BY <1>2, <4>1
    <3> QED
      BY <2>1, <3>1, <3>2, <3>3, FS_AddElement DEF UpTo
  <2>2. CASE i \notin S
    <3>0. \A j \in S : j <= i <=> j <= i - 1
      BY <1>0, <2>2
    <3>1. {j \in S : j <= i} = {j \in S : j <= i - 1}
      BY <3>0, Zenon
    <3> QED
      BY <2>2, <3>1 DEF UpTo
  <2> QED
    BY <2>1, <2>2
<1> DEFINE T == {i \in 0..size : UpTo(S, i) >= n}
<1>6. PICK i \in T : \A y \in T : i <= y
  <2>1. T \in SUBSET Nat /\ size \in T
    BY <1>1, <1>4
  <2> HIDE DEF T
  <2> QED
    BY <2>1, LeastNatural
<1>7. i # 0
  BY <1>3, <1>6
<1>8. i \in 1..size /\ i - 1 \in 0..size /\ UpTo(S, i) >= n /\ i - 1 \in Nat /\ i \in Nat
  BY <1>6, <1>7
<1>9. ~ (UpTo(S, i - 1) >= n)
  BY <1>6, <1>8
<1>10. UpTo(S, i) \in Nat /\ UpTo(S, i - 1) \in Nat
  BY <1>2, <1>8
<1>11. i \in S
  BY <1>5, <1>8, <1>9, <1>10
<1> QED
  BY <1>5, <1>8, <1>9, <1>10, <1>11

LEMMA SameLength ==
  ASSUME NEW m \in Nat, NEW n \in Nat, 1..m = 1..n
  PROVE  m = n
<1>1. \A i \in Int : i \in 1..m <=> i \in 1..n
  OBVIOUS
<1>2. (m >= 1 => m <= n) /\ (n >= 1 => n <= m)
  BY <1>1
<1> QED
  BY <1>2

\* What is kept of a series are points of it, no more than it has.
LEMMA SinceType ==
  ASSUME NEW s \in Seq(Sample), NEW start \in Int
  PROVE  /\ Since(s, start) \in Seq(Sample)
         /\ Len(Since(s, start)) <= Len(s)
<1> DEFINE recent == {i \in DOMAIN s : s[i].ts >= start}
           Nth(n) == CHOOSE i \in recent : UpTo(recent, i) = n
           size == Cardinality(recent)
<1>1. Len(s) \in Nat /\ DOMAIN s = 1..Len(s)
  BY LenProperties
<1>2. recent \in SUBSET (1..Len(s))
  BY <1>1
<1>3. size \in Nat /\ size <= Len(s)
  <2>1. IsFiniteSet(1..Len(s)) /\ Cardinality(1..Len(s)) = Len(s)
    BY <1>1, FS_Interval
  <2>2. IsFiniteSet(recent) /\ size <= Len(s)
    <3> HIDE DEF recent
    <3> QED
      BY <1>2, <2>1, FS_Subset
  <2> QED
    BY <2>2, FS_CardinalityType
<1>4. ASSUME NEW n \in 1..size PROVE s[Nth(n)] \in Sample
  <2>1. \E i \in recent : UpTo(recent, i) = n
    <3> HIDE DEF recent
    <3> QED
      BY <1>1, <1>2, EveryRankIsTaken
  <2>2. Nth(n) \in recent
    BY <2>1
  <2> QED
    BY <1>1, <1>2, <2>2, ElementOfSeq
<1>5. Since(s, start) = [n \in 1..size |-> s[Nth(n)]]
  BY DEF Since, UpTo
<1> HIDE DEF recent, Nth, size
<1>6. Since(s, start) \in [1..size -> Sample]
  BY <1>4, <1>5
<1> QED
  BY <1>3, <1>6, IsASeq, LenProperties

\* In a series that is in order, they are the last ones.
LEMMA SinceIsSuffix ==
  ASSUME NEW s \in Seq(Sample), InOrder(s), NEW start \in Int
  PROVE  \E k \in 0..Len(s) :
           /\ \A i \in 1..k : s[i].ts < start
           /\ \A i \in (k + 1)..Len(s) : s[i].ts >= start
           /\ Len(Since(s, start)) = Len(s) - k
           /\ \A n \in 1..(Len(s) - k) : Since(s, start)[n] = s[k + n]
<1> DEFINE recent == {i \in DOMAIN s : s[i].ts >= start}
           Nth(n) == CHOOSE i \in recent : UpTo(recent, i) = n
           size == Cardinality(recent)
           N == Len(s)
<1>1. N \in Nat /\ DOMAIN s = 1..N
  BY LenProperties
<1>2. \A i \in 1..N : s[i].ts \in Int
  <2>1. \A i \in 1..N : s[i] \in Sample
    BY <1>1, ElementOfSeq
  <2> QED
    BY <2>1 DEF Sample
<1>3. PICK k \in 0..N : (\A i \in 1..k : s[i].ts < start)
                        /\ \A i \in (k + 1)..N : s[i].ts >= start
  <2>1. CASE recent = {}
    <3>1. \A i \in 1..N : s[i].ts < start
      BY <1>1, <1>2, <2>1
    <3> WITNESS N \in 0..N
    <3> QED
      BY <1>1, <3>1
  <2>2. CASE recent # {}
    <3>1. recent \in SUBSET Nat
      BY <1>1
    <3>2. PICK x \in recent : \A y \in recent : x <= y
      <4> HIDE DEF recent
      <4> QED
        BY <2>2, <3>1, LeastNatural
    <3>3. x \in 1..N /\ x - 1 \in 0..N
      BY <1>1
    <3>4. \A i \in 1..(x - 1) : s[i].ts < start
      <4> SUFFICES ASSUME NEW i \in 1..(x - 1), ~ (s[i].ts < start) PROVE FALSE
        OBVIOUS
      <4>1. i \in 1..N /\ i < x
        BY <1>1, <3>3
      <4>2. s[i].ts >= start
        BY <1>2, <4>1
      <4> QED
        BY <1>1, <3>2, <3>3, <4>1, <4>2
    <3>5. \A i \in x..N : s[i].ts >= start
      <4> SUFFICES ASSUME NEW i \in x..N PROVE s[i].ts >= start
        OBVIOUS
      <4>1. i \in 1..N /\ s[x].ts >= start /\ s[x].ts \in Int /\ s[i].ts \in Int
        BY <1>1, <1>2, <3>3
      <4>2. i = x \/ s[x].ts <= s[i].ts
        BY <1>1, <3>3, <4>1 DEF InOrder
      <4> QED
        BY <4>1, <4>2
    <3>6. (x - 1) + 1 = x
      BY <3>3
    <3> WITNESS x - 1 \in 0..N
    <3> QED
      BY <3>4, <3>5, <3>6
  <2> QED
    BY <2>1, <2>2
<1>4. recent = (k + 1)..N
  BY <1>1, <1>2, <1>3
<1>5. size = N - k
  <2>1. k + 1 \in Int /\ N \in Int /\ k <= N
    BY <1>1, <1>3
  <2>2. Cardinality((k + 1)..N) = IF k + 1 > N THEN 0 ELSE N - (k + 1) + 1
    BY <2>1, FS_Interval
  <2>3. size = IF k + 1 > N THEN 0 ELSE N - (k + 1) + 1
    BY <1>4, <2>2
  <2>4. k \in Int /\ N \in Int /\ k <= N
    BY <1>1
  <2> HIDE DEF size, N
  <2> QED
    BY <2>3, <2>4
<1>6. ASSUME NEW i \in (k + 1)..N PROVE UpTo(recent, i) = i - k
  <2>1. {j \in recent : j <= i} = (k + 1)..i
    BY <1>4
  <2>2. k + 1 \in Int /\ i \in Int /\ k + 1 <= i
    BY <1>1, <1>3
  <2>3. Cardinality((k + 1)..i) = i - (k + 1) + 1
    BY <2>2, FS_Interval
  <2>4. UpTo(recent, i) = i - (k + 1) + 1
    BY <2>1, <2>3 DEF UpTo
  <2> HIDE DEF recent
  <2> QED
    BY <1>3, <2>2, <2>4
<1>7. ASSUME NEW n \in 1..(N - k) PROVE Nth(n) = k + n
  <2>1. k + n \in recent /\ UpTo(recent, k + n) = n
    BY <1>1, <1>4, <1>6
  <2>2. \A i \in recent : UpTo(recent, i) = n => i = k + n
    <3> SUFFICES ASSUME NEW i \in recent, UpTo(recent, i) = n PROVE i = k + n
      OBVIOUS
    <3>1. i - k = n /\ i \in Int
      BY <1>4, <1>6
    <3> QED
      BY <3>1
  <2> HIDE DEF recent
  <2> QED
    BY <2>1, <2>2
<1>8. Since(s, start) = [n \in 1..size |-> s[Nth(n)]]
  BY DEF Since, UpTo
<1> HIDE DEF recent, Nth, size
<1>9. Since(s, start) = [n \in 1..(N - k) |-> s[k + n]]
  BY <1>5, <1>7, <1>8
<1>10. Len(Since(s, start)) = N - k
  <2>1. Since(s, start) \in Seq(Sample)
    BY SinceType
  <2>2. DOMAIN Since(s, start) = 1..(N - k)
    BY <1>9
  <2>3. Len(Since(s, start)) \in Nat /\ N - k \in Nat
    BY <1>1, <2>1, LenProperties
  <2>4. 1..Len(Since(s, start)) = 1..(N - k)
    BY <2>1, <2>2, LenProperties
  <2> QED
    BY <2>3, <2>4, SameLength
<1> QED
  BY <1>3, <1>9, <1>10

\* t is what is left of s when its oldest points are taken away.
LatestOf(t, s) ==
  /\ Len(t) <= Len(s)
  /\ \A n \in 1..Len(t) : t[n] = s[(Len(s) - Len(t)) + n]

LEMMA LatestOfLatest ==
  ASSUME NEW r \in Seq(Sample), NEW t \in Seq(Sample), NEW s \in Seq(Sample),
         LatestOf(r, t), LatestOf(t, s)
  PROVE  LatestOf(r, s)
<1>1. Len(r) \in Nat /\ Len(t) \in Nat /\ Len(s) \in Nat
  BY LenProperties
<1>2. Len(r) <= Len(t) /\ Len(t) <= Len(s)
  BY DEF LatestOf
<1>3. ASSUME NEW n \in 1..Len(r) PROVE r[n] = s[(Len(s) - Len(r)) + n]
  <2> DEFINE m == (Len(t) - Len(r)) + n
  <2>1. r[n] = t[m]
    BY <1>3 DEF LatestOf
  <2>2. m \in 1..Len(t) /\ (Len(s) - Len(t)) + m = (Len(s) - Len(r)) + n
    BY <1>1, <1>2
  <2> HIDE DEF m
  <2>3. t[m] = s[(Len(s) - Len(t)) + m]
    BY <2>2 DEF LatestOf
  <2> QED
    BY <2>1, <2>2, <2>3
<1> QED
  BY <1>1, <1>2, <1>3 DEF LatestOf

\* A full series gives up its oldest points, and no more than it has to.
LEMMA NewestIsLatest ==
  ASSUME NEW s \in Seq(Sample)
  PROVE  /\ Newest(s) \in Seq(Sample) /\ LatestOf(Newest(s), s)
         /\ Len(Newest(s)) <= MaxPoints
         /\ Len(Newest(s)) = Len(s) \/ Len(Newest(s)) = MaxPoints
<1>1. Len(s) \in Nat /\ MaxPoints \in Nat /\ MaxPoints >= 1
  BY LenProperties, WindowAssumption
<1>2. CASE Len(s) > MaxPoints
  <2> DEFINE from == Len(s) - MaxPoints + 1
             t == SubSeq(s, from, Len(s))
  <2>1. from \in Int /\ Len(s) \in Int /\ from <= Len(s) /\ from >= 1
        /\ Len(s) - from + 1 = MaxPoints
    BY <1>1, <1>2
  <2>2. \A i \in from..Len(s) : s[i] \in Sample
    <3> SUFFICES ASSUME NEW i \in from..Len(s) PROVE s[i] \in Sample
      OBVIOUS
    <3>1. i \in 1..Len(s)
      BY <2>1
    <3> QED
      BY <3>1, ElementOfSeq
  <2> HIDE DEF from
  <2>3. /\ t \in Seq(Sample) /\ Len(t) = MaxPoints
        /\ \A i \in 1..MaxPoints : t[i] = s[from + i - 1]
    BY <2>1, <2>2, SubSeqProperties
  <2>4. Newest(s) = t
    BY <1>2 DEF Newest, from
  <2> HIDE DEF t
  <2>5. ASSUME NEW n \in 1..MaxPoints PROVE t[n] = s[(Len(s) - MaxPoints) + n]
    <3>1. from + n - 1 = (Len(s) - MaxPoints) + n
      BY <1>1 DEF from
    <3> QED
      BY <2>3, <3>1
  <2>6. LatestOf(t, s)
    <3>1. Len(t) = MaxPoints /\ MaxPoints <= Len(s) /\ Len(s) \in Nat /\ MaxPoints \in Nat
      BY ONLY <1>1, <1>2, <2>3
    <3> QED
      BY ONLY <2>5, <3>1 DEF LatestOf
  <2> QED
    BY <1>1, <2>3, <2>4, <2>6
<1>3. CASE ~ (Len(s) > MaxPoints)
  <2>1. Newest(s) = s /\ Len(s) <= MaxPoints
    BY <1>1, <1>3 DEF Newest
  <2>2. \A n \in 1..Len(s) : (Len(s) - Len(s)) + n = n
    BY <1>1
  <2>3. LatestOf(s, s)
    BY <1>1, <2>2 DEF LatestOf
  <2> QED
    BY <2>1, <2>3
<1> QED
  BY <1>2, <1>3

\* What is left of a series in order is in order.
LEMMA LatestInOrder ==
  ASSUME NEW t \in Seq(Sample), NEW s \in Seq(Sample), LatestOf(t, s), InOrder(s)
  PROVE  InOrder(t)
<1>1. /\ Len(t) \in Nat /\ Len(s) \in Nat /\ DOMAIN t = 1..Len(t)
      /\ DOMAIN s = 1..Len(s) /\ Len(t) <= Len(s)
  BY LenProperties DEF LatestOf
<1> SUFFICES ASSUME NEW i \in DOMAIN t, NEW j \in DOMAIN t, i < j
             PROVE  t[i].ts <= t[j].ts
  BY DEF InOrder
<1> DEFINE k == Len(s) - Len(t)
<1>2. k + i \in DOMAIN s /\ k + j \in DOMAIN s /\ k + i < k + j
  BY <1>1
<1>3. t[i] = s[k + i] /\ t[j] = s[k + j]
  BY <1>1 DEF LatestOf
<1> HIDE DEF k
<1> QED
  BY <1>2, <1>3 DEF InOrder

\* Dropping from the front by age: what is dropped is older than start.
LEMMA SinceIsLatest ==
  ASSUME NEW s \in Seq(Sample), InOrder(s), NEW start \in Int
  PROVE  LET t == Since(s, start)
         IN /\ t \in Seq(Sample) /\ LatestOf(t, s)
            /\ \A i \in 1..(Len(s) - Len(t)) : s[i].ts < start
            /\ \A n \in 1..Len(t) : t[n].ts >= start
<1> DEFINE t == Since(s, start)
<1>1. PICK k \in 0..Len(s) :
           /\ \A i \in 1..k : s[i].ts < start
           /\ \A i \in (k + 1)..Len(s) : s[i].ts >= start
           /\ Len(t) = Len(s) - k
           /\ \A n \in 1..(Len(s) - k) : t[n] = s[k + n]
  BY SinceIsSuffix
<1>2. t \in Seq(Sample) /\ Len(s) \in Nat
  BY SinceType, LenProperties
<1> HIDE DEF t
<1>3. Len(s) - Len(t) = k /\ Len(t) <= Len(s)
  BY <1>1, <1>2
<1>4. ASSUME NEW n \in 1..Len(t) PROVE t[n].ts >= start
  <2>1. k + n \in (k + 1)..Len(s) /\ n \in 1..(Len(s) - k)
    BY <1>1, <1>2
  <2> QED
    BY <1>1, <2>1
<1>5. LatestOf(t, s)
  BY <1>1, <1>3 DEF LatestOf
<1> QED
  BY <1>1, <1>2, <1>3, <1>4, <1>5 DEF t

\* What was dropped from the series did not fit, or is too old to matter.
OldOrFull ==
  \/ Len(series) = MaxPoints
  \/ \A i \in 1..(Len(asked) - Len(series)) :
       asked[i].ts < asked[Len(asked)].ts - SeriesWindow

\* As long as samples come in order, the series is the end of all that was asked.
SeriesIsLatest == InOrder(asked) => LatestOf(series, asked) /\ OldOrFull

\* The drift an accepted contract was judged by is the one its series shows.
JudgedBySeries ==
  Accepted =>
    /\ asked # <<>>
    /\ Readable(decision.payload, decision.ctx, decision.was)
    /\ Approved = Final(decision.payload, decision.ctx, decision.was,
                        DetectGradualDrift(series, asked[Len(asked)].ts))

SeriesInv == TypeOK /\ SeriesIsLatest /\ JudgedBySeries

\* Recording a sample keeps a series, within its cap.
LEMMA RecordType ==
  ASSUME NEW s \in Seq(Sample), NEW x \in Sample
  PROVE  RecordSample(s, x) \in Seq(Sample) /\ Len(RecordSample(s, x)) <= MaxPoints
<1> DEFINE t == Newest(Append(s, x))
<1>1. t \in Seq(Sample) /\ Len(t) <= MaxPoints
  BY AppendProperties, NewestIsLatest
<1> HIDE DEF t
<1>2. x.ts - SeriesWindow \in Int
  BY WindowAssumption DEF Sample
<1>3. Since(t, x.ts - SeriesWindow) \in Seq(Sample)
      /\ Len(Since(t, x.ts - SeriesWindow)) <= Len(t)
  BY <1>1, <1>2, SinceType
<1>4. Len(t) \in Nat /\ Len(Since(t, x.ts - SeriesWindow)) \in Nat /\ MaxPoints \in Nat
  BY <1>1, <1>3, LenProperties, WindowAssumption
<1> QED
  BY <1>1, <1>3, <1>4 DEF RecordSample, t

\* The same sample recorded in the series and in the history of all that was asked: the
\* series stays the end of it, and drops nothing that is recent and would fit.
LEMMA RecordKeepsLatest ==
  ASSUME NEW s \in Seq(Sample), NEW a \in Seq(Sample), NEW x \in Sample,
         InOrder(Append(a, x)),
         LatestOf(s, a),
         \/ Len(s) = MaxPoints
         \/ \A i \in 1..(Len(a) - Len(s)) : a[i].ts < a[Len(a)].ts - SeriesWindow
  PROVE  LET r == RecordSample(s, x)
             b == Append(a, x)
         IN /\ LatestOf(r, b)
            /\ \/ Len(r) = MaxPoints
               \/ \A i \in 1..(Len(b) - Len(r)) : b[i].ts < b[Len(b)].ts - SeriesWindow
<1> DEFINE b == Append(a, x)
           p == Append(s, x)
           q == Newest(p)
           start == x.ts - SeriesWindow
           r == Since(q, start)
<1>1. /\ b \in Seq(Sample) /\ Len(b) = Len(a) + 1 /\ b[Len(a) + 1] = x
      /\ \A i \in 1..Len(a) : b[i] = a[i]
  BY AppendProperties
<1>2. /\ p \in Seq(Sample) /\ Len(p) = Len(s) + 1 /\ p[Len(s) + 1] = x
      /\ \A i \in 1..Len(s) : p[i] = s[i]
  BY AppendProperties
<1>3. Len(a) \in Nat /\ Len(s) \in Nat /\ Len(s) <= Len(a)
  BY LenProperties DEF LatestOf
<1> HIDE DEF b, p
<1>4. LatestOf(p, b)
  <2>0. Len(b) - Len(p) = Len(a) - Len(s) /\ Len(p) <= Len(b)
    BY <1>1, <1>2, <1>3
  <2> SUFFICES ASSUME NEW n \in 1..(Len(s) + 1)
               PROVE  p[n] = b[(Len(a) - Len(s)) + n]
    BY <1>2, <2>0 DEF LatestOf
  <2>1. CASE n = Len(s) + 1
    <3>1. (Len(a) - Len(s)) + n = Len(a) + 1
      BY <1>3, <2>1
    <3> QED
      BY <1>1, <1>2, <2>1, <3>1
  <2>2. CASE n \in 1..Len(s)
    <3>1. (Len(a) - Len(s)) + n \in 1..Len(a)
      BY <1>3, <2>2
    <3>2. s[n] = a[(Len(a) - Len(s)) + n]
      BY <2>2 DEF LatestOf
    <3> QED
      BY <1>1, <1>2, <2>2, <3>1, <3>2
  <2> QED
    BY <1>3, <2>1, <2>2
<1>5. /\ q \in Seq(Sample) /\ LatestOf(q, p)
      /\ Len(q) = Len(p) \/ Len(q) = MaxPoints
  BY <1>2, NewestIsLatest
<1> HIDE DEF q
<1>6. LatestOf(q, b)
  BY <1>1, <1>2, <1>4, <1>5, LatestOfLatest
<1>7. InOrder(b)
  BY DEF b
<1>8. InOrder(q)
  BY <1>1, <1>5, <1>6, <1>7, LatestInOrder
<1>9. start \in Int
  BY WindowAssumption DEF Sample
<1> HIDE DEF start
<1>10. /\ r \in Seq(Sample) /\ LatestOf(r, q)
       /\ \A i \in 1..(Len(q) - Len(r)) : q[i].ts < start
  BY <1>5, <1>8, <1>9, SinceIsLatest
<1>11. RecordSample(s, x) = r
  BY DEF RecordSample, r, q, p, start
<1> HIDE DEF r
<1>12. LatestOf(r, b)
  BY <1>1, <1>5, <1>6, <1>10, LatestOfLatest
<1>13. Len(r) \in Nat /\ Len(q) \in Nat /\ Len(r) <= Len(q) /\ Len(q) <= Len(b)
  BY <1>5, <1>6, <1>10, LenProperties DEF LatestOf
<1>14. DOMAIN b = 1..Len(b) /\ DOMAIN a = 1..Len(a)
  BY <1>1, LenProperties
<1>15. \A i \in 1..Len(b) : b[i].ts \in Int
  <2> SUFFICES ASSUME NEW i \in 1..Len(b) PROVE b[i].ts \in Int
    OBVIOUS
  <2>1. b[i] \in Sample
    BY <1>1, ElementOfSeq
  <2> QED
    BY <2>1 DEF Sample
<1>16. ASSUME Len(r) # MaxPoints, NEW i \in 1..(Len(b) - Len(r))
       PROVE  b[i].ts < b[Len(b)].ts - SeriesWindow
  <2>0. i \in 1..Len(b) /\ Len(b) \in Nat /\ i \in Int /\ b[Len(b)] = x /\ b[i].ts \in Int
    BY <1>1, <1>3, <1>13, <1>15
  <2>1. CASE Len(q) - Len(r) >= 1
    <3> DEFINE j == Len(q) - Len(r)
               m == (Len(b) - Len(q)) + j
    <3>1. j \in 1..Len(q) /\ m \in 1..Len(b) /\ i <= m
      BY <1>1, <1>3, <1>13, <2>1
    <3>2. j \in 1..(Len(q) - Len(r))
      BY <1>13, <2>1
    <3>3. q[j].ts < start /\ q[j] = b[m]
      BY <1>6, <1>10, <3>1, <3>2 DEF LatestOf
    <3> HIDE DEF m, j
    <3>4. i = m \/ b[i].ts <= b[m].ts
      BY <1>7, <1>14, <2>0, <3>1 DEF InOrder
    <3>5. b[m].ts \in Int
      BY <1>15, <3>1
    <3>6. b[i].ts < start
      BY <1>9, <2>0, <3>3, <3>4, <3>5
    <3> QED
      BY <2>0, <3>6 DEF start
  <2>2. CASE ~ (Len(q) - Len(r) >= 1)
    <3>1. Len(r) = Len(q)
      BY <1>13, <2>2
    <3>2. Len(q) = Len(p)
      BY <1>5, <1>16, <3>1
    <3>3. Len(r) = Len(s) + 1 /\ Len(b) - Len(r) = Len(a) - Len(s)
      BY <1>1, <1>2, <1>3, <3>1, <3>2
    <3>4. Len(q) <= MaxPoints
      BY <1>2, <1>5, NewestIsLatest DEF q
    <3>5. Len(s) # MaxPoints
      BY <1>3, <3>1, <3>3, <3>4, WindowAssumption
    <3>6. i \in 1..(Len(a) - Len(s)) /\ i \in 1..Len(a) /\ Len(a) \in 1..Len(a)
      BY <1>3, <3>3
    <3>7. a[i].ts < a[Len(a)].ts - SeriesWindow
      BY <3>5, <3>6
    <3>8. a[i] = b[i] /\ a[Len(a)] = b[Len(a)]
      BY <1>1, <3>6
    <3>9. Len(a) \in DOMAIN b /\ Len(b) \in DOMAIN b /\ Len(a) < Len(b)
      BY <1>1, <1>3, <1>14, <3>6
    <3>10. b[Len(a)].ts <= b[Len(b)].ts
      BY <1>7, <3>9 DEF InOrder
    <3>11. b[Len(a)].ts \in Int /\ b[Len(b)].ts \in Int /\ SeriesWindow \in Int
      BY <1>14, <1>15, <3>9, WindowAssumption
    <3>12. b[i].ts < b[Len(a)].ts - SeriesWindow
      BY <3>7, <3>8
    <3> QED
      BY <2>0, <3>10, <3>11, <3>12
  <2> QED
    BY <2>1, <2>2
<1>17. \/ Len(r) = MaxPoints
       \/ \A i \in 1..(Len(b) - Len(r)) : b[i].ts < b[Len(b)].ts - SeriesWindow
  BY <1>16
<1> QED
  BY <1>11, <1>12, <1>17 DEF b

\* A refused or unreadable envelope records nothing.
LEMMA RefusalKeepsSeries ==
  ASSUME SeriesInv, NEW payload \in Payloads, NEW ctx \in Contexts,
         requests < MaxRequests, requests' = requests + 1, now' = now,
         RejectEnvelope(payload, ctx) \/ FailInClamp(payload, ctx)
  PROVE  SeriesInv'
<1>1. series' = series /\ asked' = asked /\ decision'.outcome # "accepted"
  BY DEF RejectEnvelope, FailInClamp, Decided
<1>2. DecisionType'
  BY RefusalPreserves DEF SeriesInv, TypeOK, Inv
<1>3. TypeOK'
  BY <1>1, <1>2, RequestAssumption, LenProperties DEF SeriesInv, TypeOK
<1>4. SeriesIsLatest'
  BY <1>1 DEF SeriesInv, SeriesIsLatest, InOrder, OldOrFull
<1>5. JudgedBySeries'
  BY <1>1 DEF JudgedBySeries, Accepted
<1> QED
  BY <1>3, <1>4, <1>5 DEF SeriesInv

\* A judged request is judged by the series its own sample ends.
LEMMA JudgeKeepsSeries ==
  ASSUME SeriesInv, NEW payload \in Payloads, NEW ctx \in Contexts,
         requests < MaxRequests, requests' = requests + 1, now' = now,
         ~ClampRaises(Normalise(payload, ctx, last)), Judge(payload, ctx)
  PROVE  SeriesInv'
<1> DEFINE limited  == Limit(Normalise(payload, ctx, last), ctx)
           sample   == [ts |-> Timestamp(payload), cadence |-> SafeCadence(limited)]
           recorded == RecordSample(series, sample)
           d        == DetectGradualDrift(recorded, sample.ts)
<1>1. Readable(payload, ctx, last)
  BY RequestAssumption DEF Readable, SeriesInv, TypeOK, DecisionType
<1>2. sample \in Sample
  <2>1. limited \in Contract
    BY <1>1, NormaliseType, ReadableIsContract, LimitBounds DEF Readable, Below
  <2>2. SafeCadence(limited) \in Int
    BY <2>1, SafeCadenceType
  <2>3. Timestamp(payload) \in Int
    BY <1>1 DEF Timestamp, Or, Readable, Payload, SeriesInv, TypeOK
  <2> HIDE DEF limited
  <2> QED
    BY <2>2, <2>3 DEF Sample
<1>3. /\ series' = recorded /\ asked' = Append(asked, sample)
      /\ \/ decision'.outcome = "blocked"
         \/ decision' = Decided("accepted", Final(payload, ctx, last, d), payload, ctx)
  BY DEF Judge, Decided
<1> HIDE DEF limited, sample
<1>4. asked \in Seq(Sample) /\ series \in Seq(Sample) /\ Len(asked) <= requests
  BY DEF SeriesInv, TypeOK
<1>5. /\ asked' \in Seq(Sample) /\ Len(asked') = Len(asked) + 1 /\ asked' # <<>>
      /\ asked'[Len(asked')] = sample
      /\ \A i \in 1..Len(asked) : asked'[i] = asked[i]
  BY <1>2, <1>3, <1>4, AppendProperties
<1>6. recorded \in Seq(Sample) /\ Len(recorded) <= MaxPoints
  BY <1>2, <1>4, RecordType
<1>7. DecisionType'
  BY <1>1, JudgePreserves DEF SeriesInv, TypeOK, Inv
<1> HIDE DEF recorded
<1>8. TypeOK'
  <2>1. Len(asked) \in Nat /\ requests \in Nat /\ MaxRequests \in Nat
    BY <1>4, LenProperties, RequestAssumption DEF SeriesInv, TypeOK
  <2>2. Len(asked') <= requests' /\ requests' \in 0..MaxRequests
    BY <1>4, <1>5, <2>1
  <2>3. now' \in 0..MaxTime
    BY DEF SeriesInv, TypeOK
  <2>4. series' \in Seq(Sample) /\ Len(series') <= MaxPoints
    BY <1>3, <1>6
  <2> QED
    BY <1>5, <1>7, <2>2, <2>3, <2>4 DEF TypeOK
<1>9. SeriesIsLatest'
  <2> SUFFICES ASSUME InOrder(asked') PROVE LatestOf(series', asked') /\ OldOrFull'
    BY DEF SeriesIsLatest
  <2>1. InOrder(asked)
    <3>1. /\ DOMAIN asked = 1..Len(asked) /\ DOMAIN asked' = 1..(Len(asked) + 1)
          /\ Len(asked) \in Nat
      BY <1>4, <1>5, LenProperties
    <3> SUFFICES ASSUME NEW i \in DOMAIN asked, NEW j \in DOMAIN asked, i < j
                 PROVE  asked[i].ts <= asked[j].ts
      BY DEF InOrder
    <3>2. i \in DOMAIN asked' /\ j \in DOMAIN asked'
      BY <3>1
    <3>3. asked'[i].ts <= asked'[j].ts
      BY <3>2 DEF InOrder
    <3> QED
      BY <1>5, <3>1, <3>3
  <2>2. LatestOf(series, asked) /\ OldOrFull
    BY <2>1 DEF SeriesInv, SeriesIsLatest
  <2>3. InOrder(Append(asked, sample))
    BY <1>3
  <2>4. /\ LatestOf(recorded, Append(asked, sample))
        /\ \/ Len(recorded) = MaxPoints
           \/ \A i \in 1..(Len(Append(asked, sample)) - Len(recorded)) :
                Append(asked, sample)[i].ts
                  < Append(asked, sample)[Len(Append(asked, sample))].ts - SeriesWindow
    BY <1>2, <1>4, <2>2, <2>3, RecordKeepsLatest DEF OldOrFull, recorded
  <2> QED
    BY <1>3, <2>4 DEF OldOrFull
<1>10. JudgedBySeries'
  <2>1. CASE decision'.outcome = "blocked"
    BY <2>1 DEF JudgedBySeries, Accepted
  <2>2. CASE decision' = Decided("accepted", Final(payload, ctx, last, d), payload, ctx)
    <3>1. /\ decision'.payload = payload /\ decision'.ctx = ctx
          /\ decision'.was = last
          /\ decision'.contract = Final(payload, ctx, last, d)
      BY <2>2 DEF Decided
    <3>2. d = DetectGradualDrift(series', asked'[Len(asked')].ts)
      BY <1>3, <1>5
    <3> HIDE DEF d
    <3> QED
      BY <1>1, <1>5, <3>1, <3>2 DEF JudgedBySeries, Approved
  <2> QED
    BY <1>3, <2>1, <2>2
<1> QED
  BY <1>8, <1>9, <1>10 DEF SeriesInv

\* The series is the end of what was asked, and every approval was judged by it.
THEOREM SeriesInvariance == Spec => []SeriesInv
<1>1. Init => SeriesInv
  <2> SUFFICES ASSUME Init PROVE SeriesInv
    OBVIOUS
  <2>1. asked = <<>> /\ series = <<>> /\ Len(asked) = 0 /\ Len(series) = 0
        /\ <<>> \in Seq(Sample)
    BY DEF Init
  <2>2. TypeOK
    BY <2>1, RequestAssumption, WindowAssumption
    DEF Init, TypeOK, DecisionType, NoDecision
  <2>3. SeriesIsLatest
    BY <2>1 DEF SeriesIsLatest, LatestOf, OldOrFull
  <2>4. JudgedBySeries
    BY DEF Init, JudgedBySeries, Accepted, NoDecision
  <2> QED
    BY <2>2, <2>3, <2>4 DEF SeriesInv
<1>2. SeriesInv /\ [Next]_vars => SeriesInv'
  <2> SUFFICES ASSUME SeriesInv, [Next]_vars PROVE SeriesInv'
    OBVIOUS
  <2>1. ASSUME NEW payload \in Payloads, NEW ctx \in Contexts, Process(payload, ctx)
        PROVE  SeriesInv'
    BY <2>1, RefusalKeepsSeries, JudgeKeepsSeries DEF Process
  <2>2. ASSUME UNCHANGED <<last, series, decision, asked, requests>>, now' \in 0..MaxTime
        PROVE  SeriesInv'
    BY <2>2 DEF SeriesInv, TypeOK, DecisionType, SeriesIsLatest, OldOrFull,
                JudgedBySeries, Accepted, Approved
  <2>3. CASE Tick
    BY <2>2, <2>3, RequestAssumption DEF Tick, SeriesInv, TypeOK
  <2>4. CASE UNCHANGED vars
    BY <2>2, <2>4 DEF vars, SeriesInv, TypeOK
  <2> QED
    BY <2>1, <2>3, <2>4 DEF Next
<1> QED
  BY <1>1, <1>2, PTL DEF Spec

\* The series shows the recent points of everything asked, unless there are too many.
LEMMA RecentOfSeries ==
  ASSUME TypeOK, SeriesIsLatest, InOrder(asked), asked # <<>>,
         NEW start \in Int, start >= asked[Len(asked)].ts - SeriesWindow,
         Len(Since(asked, start)) <= MaxPoints
  PROVE  Since(series, start) = Since(asked, start)
<1> DEFINE t == Since(asked, start)
           r == Since(series, start)
           k == Len(asked) - Len(series)
           i == Len(asked) - Len(t)
           j == Len(series) - Len(r)
<1>1. /\ asked \in Seq(Sample) /\ series \in Seq(Sample) /\ Len(series) <= MaxPoints
      /\ LatestOf(series, asked) /\ OldOrFull
  BY DEF TypeOK, SeriesIsLatest
<1>2. InOrder(series)
  BY <1>1, LatestInOrder
<1>3. /\ t \in Seq(Sample) /\ LatestOf(t, asked) /\ Len(t) <= MaxPoints
      /\ \A n \in 1..i : asked[n].ts < start
      /\ \A n \in 1..Len(t) : t[n].ts >= start
  BY <1>1, SinceIsLatest
<1>4. /\ r \in Seq(Sample) /\ LatestOf(r, series)
      /\ \A n \in 1..j : series[n].ts < start
      /\ \A n \in 1..Len(r) : r[n].ts >= start
  BY <1>1, <1>2, SinceIsLatest
<1> HIDE DEF t, r
<1>5. LatestOf(r, asked)
  BY <1>1, <1>3, <1>4, LatestOfLatest
<1>6. /\ Len(asked) \in Nat /\ Len(series) \in Nat /\ Len(t) \in Nat /\ Len(r) \in Nat
      /\ Len(t) <= Len(asked) /\ Len(r) <= Len(series) /\ Len(series) <= Len(asked)
      /\ MaxPoints \in Nat
  BY <1>1, <1>3, <1>4, LenProperties, WindowAssumption DEF LatestOf
<1>7. \A n \in 1..Len(asked) : asked[n].ts \in Int
  <2> SUFFICES ASSUME NEW n \in 1..Len(asked) PROVE asked[n].ts \in Int
    OBVIOUS
  <2>1. asked[n] \in Sample
    BY <1>1, ElementOfSeq
  <2> QED
    BY <2>1 DEF Sample
<1>8. Len(t) <= Len(r)
  <2> SUFFICES ASSUME Len(t) > Len(r) PROVE FALSE
    BY <1>6
  <2> DEFINE n == Len(t) - Len(r)
             m == i + n
  \* The newest point the series no longer shows is recent.
  <2>1. n \in 1..Len(t) /\ m \in 1..Len(asked)
    BY <1>6
  <2>2. t[n] = asked[m] /\ t[n].ts >= start /\ asked[m].ts \in Int
    BY <1>3, <1>7, <2>1 DEF LatestOf
  <2>3. CASE m <= k
    <3>1. m \in 1..k
      BY <1>6, <2>1, <2>3
    <3>2. ~ (asked[m].ts < asked[Len(asked)].ts - SeriesWindow)
      <4>1. Len(asked) \in 1..Len(asked)
        BY <1>6, <2>1
      <4>2. asked[Len(asked)].ts \in Int /\ SeriesWindow \in Int
        BY <1>7, <4>1, WindowAssumption
      <4> HIDE DEF m, n
      <4> QED
        BY <2>2, <4>2
    <3>3. Len(series) = MaxPoints
      BY <1>1, <3>1, <3>2 DEF OldOrFull
    <3> QED
      BY <1>3, <1>6, <2>3, <3>3
  <2>4. CASE m > k
    <3> DEFINE p == m - k
    <3>1. p \in 1..j
      BY <1>6, <2>1, <2>4
    <3>2. series[p].ts < start
      BY <1>4, <3>1
    <3>3. p \in 1..Len(series) /\ k + p = m
      BY <1>6, <3>1
    <3>4. series[p] = asked[m]
      BY <1>1, <3>3 DEF LatestOf
    <3> HIDE DEF p, m, n
    <3> QED
      BY <2>2, <3>2, <3>4
  <2> QED
    BY <1>6, <2>1, <2>3, <2>4
<1>9. Len(r) <= Len(t)
  <2> SUFFICES ASSUME Len(r) > Len(t) PROVE FALSE
    BY <1>6
  <2> DEFINE n == Len(r) - Len(t)
             m == (Len(asked) - Len(r)) + n
  <2>1. n \in 1..Len(r) /\ m \in 1..i /\ m \in 1..Len(asked)
    BY <1>5, <1>6 DEF LatestOf
  <2>2. r[n] = asked[m] /\ r[n].ts >= start /\ asked[m].ts < start /\ asked[m].ts \in Int
    BY <1>3, <1>4, <1>5, <1>7, <2>1 DEF LatestOf
  <2> HIDE DEF n, m
  <2> QED
    BY <2>2
<1>10. Len(r) = Len(t)
  BY <1>6, <1>8, <1>9
<1>11. \A n \in 1..Len(r) : r[n] = t[n]
  BY <1>3, <1>5, <1>10 DEF LatestOf
<1>12. r = t
  BY <1>3, <1>4, <1>10, <1>11, SeqEqual
<1> QED
  BY <1>12 DEF r, t

\* A delta over a time no longer than the window is at least as steep over the window.
LEMMA SteepEnough ==
  ASSUME NEW delta \in Int, NEW elapsed \in Int, NEW window \in Nat,
         delta >= 10, elapsed <= window
  PROVE  delta * window >= 10 * elapsed
<1>1. delta * window >= 10 * window
  OBVIOUS
<1> QED
  BY <1>1

\* Whatever rises gradually within the window is detected.
LEMMA RiseIsDetected ==
  ASSUME SeriesInv, InOrder(asked), asked # <<>>,
         LET window == Since(asked, asked[Len(asked)].ts - DriftWindow)
         IN Len(window) <= MaxPoints /\ GradualRise(window)
  PROVE  DetectGradualDrift(series, asked[Len(asked)].ts)
<1> DEFINE newest == asked[Len(asked)].ts
           start == newest - DriftWindow
           w == Since(asked, start)
           n == Len(w)
<1>1. asked \in Seq(Sample) /\ Len(asked) \in 1..Len(asked) /\ Len(asked) \in Nat
  BY EmptySeq, LenProperties DEF SeriesInv, TypeOK
<1>2. \A i \in 1..Len(asked) : asked[i].ts \in Int /\ asked[i].cadence \in Int
  <2> SUFFICES ASSUME NEW i \in 1..Len(asked)
               PROVE  asked[i].ts \in Int /\ asked[i].cadence \in Int
    OBVIOUS
  <2>1. asked[i] \in Sample
    BY <1>1, ElementOfSeq
  <2> QED
    BY <2>1 DEF Sample
<1>3. newest \in Int
  BY <1>1, <1>2
<1>4. /\ DriftWindow \in Nat /\ SeriesWindow \in Nat /\ DriftWindow <= SeriesWindow
  BY WindowAssumption
<1> HIDE DEF newest
<1>5. start \in Int /\ start >= newest - SeriesWindow
  BY <1>3, <1>4
<1>6. Since(series, start) = w
  BY <1>5, RecentOfSeries DEF SeriesInv, newest
<1>7. w \in Seq(Sample) /\ LatestOf(w, asked) /\ \A i \in 1..n : w[i].ts >= start
  BY <1>1, <1>5, SinceIsLatest
<1>8. GradualRise(w)
  BY DEF newest
<1> HIDE DEF start, w
<1>9. n \in Nat /\ n >= 3 /\ n <= Len(asked)
  BY <1>7, <1>8, LenProperties DEF GradualRise, LatestOf
<1>10. ASSUME NEW i \in 1..n
       PROVE  w[i].ts \in Int /\ w[i].cadence \in Int /\ w[i].ts >= start
  <2>1. w[i] \in Sample
    BY <1>7, ElementOfSeq
  <2> QED
    BY <1>7, <2>1 DEF Sample
<1>11. w[n].ts = newest
  <2>1. n \in 1..n /\ (Len(asked) - n) + n = Len(asked)
    BY <1>1, <1>9
  <2> QED
    BY <1>7, <2>1 DEF LatestOf, newest
<1> DEFINE elapsed == w[n].ts - w[1].ts
           delta == w[n].cadence - w[1].cadence
<1>12. 1 \in 1..n /\ n \in 1..n
  BY <1>9
<1>13. elapsed \in Int /\ elapsed > 0 /\ elapsed <= DriftWindow
       /\ delta \in Int /\ delta >= 10
  <2>1. w[1].ts \in Int /\ w[n].ts \in Int /\ w[1].ts >= start
        /\ w[1].cadence \in Int /\ w[n].cadence \in Int
    BY <1>10, <1>12
  <2>2. w[1].ts < w[n].ts /\ delta >= 10
    BY <1>8 DEF GradualRise, DriftMinStep
  <2>3. start = newest - DriftWindow
    BY DEF start
  <2> DEFINE first == w[1].ts
             final == w[n].ts
  <2>4. first \in Int /\ final \in Int /\ first >= start /\ first < final /\ final = newest
        /\ w[1].cadence \in Int /\ w[n].cadence \in Int
    BY ONLY <1>11, <2>1, <2>2
  <2>5. delta \in Int /\ delta >= 10 /\ elapsed = final - first
    BY ONLY <2>2, <2>4
  <2> HIDE DEF first, final, delta, elapsed
  <2>6. elapsed \in Int /\ elapsed > 0 /\ elapsed <= DriftWindow
    BY ONLY <1>3, <1>4, <2>3, <2>4, <2>5
  <2> QED
    BY ONLY <2>5, <2>6
<1>14. delta * DriftWindow >= DriftMinStep * elapsed
  <2> HIDE DEF delta, elapsed
  <2> QED
    BY <1>4, <1>13, SteepEnough DEF DriftMinStep
<1>15. \A i \in 1..(n - 1) : w[i].cadence <= w[i + 1].cadence
  <2> SUFFICES ASSUME NEW i \in 1..(n - 1) PROVE w[i].cadence <= w[i + 1].cadence
    OBVIOUS
  <2>1. i \in 1..n /\ i + 1 \in 1..n /\ i < i + 1
    BY <1>9
  <2> QED
    BY <1>8, <2>1 DEF GradualRise
<1>16. Since(series, asked[Len(asked)].ts - DriftWindow) = w
  BY <1>6 DEF start, newest
<1> HIDE DEF n
<1>17. n = Len(w)
  BY DEF n
<1> HIDE DEF delta, elapsed
<1> QED
  BY <1>9, <1>13, <1>14, <1>15, <1>16, <1>17 DEF DetectGradualDrift, DriftMinStep, delta, elapsed

\* A drift that was detected leaves a dimmed and slow contract.
LEMMA DriftDims ==
  ASSUME NEW payload, NEW ctx, NEW was, Readable(payload, ctx, was), ~Replaced(payload)
  PROVE  Final(payload, ctx, was, TRUE) \in Below(35, 12, 18)
<1> DEFINE n == Normalise(payload, ctx, was)
           l == Limit(n, ctx)
           m == LimitFlashes(l)
           w == Checked(payload, ctx, was, TRUE)
<1>1. n \in Contract /\ ctx \in Context
  BY NormaliseType, ReadableIsContract DEF Readable
<1> HIDE DEF n
<1>2. l \in Below(72, 12, 50)
  BY <1>1, LimitBounds
<1> HIDE DEF l
<1>3. m \in Below(72, 12, 50)
  <2>1. m = Gate(l, FALSE)
    BY DEF Gate
  <2> QED
    BY <1>2, <2>1, GateBounds
<1> HIDE DEF m
<1>4. Contain(m) \in Below(72, 12, 50) \cap Below(35, 100, 18)
  BY <1>3, CapBounds DEF Contain
<1>5. w = Contain(m)
  BY DEF Checked, Validated, Gate, m, l, n
<1> HIDE DEF w
<1>6. w \in Below(35, 12, 18)
  BY <1>4, <1>5 DEF Below
<1> QED
  BY <1>1, <1>6, ApproveFacts DEF Final, w

\* Series: of any session, in whatever order its samples come, the types hold, with the
\* series within its cap; and where they come in order, a rise of the cadence that the
\* window holds is contained, however the series was trimmed before.
THEOREM DriftStaysContained == Spec => []SeriesIsSound
<1>1. SeriesInv => SeriesIsSound
  <2> SUFFICES ASSUME SeriesInv PROVE DriftIsContained
    BY DEF SeriesIsSound, SeriesInv
  <2> DEFINE newest == asked[Len(asked)]
             window == Since(asked, newest.ts - DriftWindow)
  <2> SUFFICES ASSUME Judged, InOrder(asked), Len(window) <= MaxPoints,
                      GradualRise(window)
               PROVE  Approved.glow <= 35 /\ Approved.velocity <= 18
    BY DEF DriftIsContained
  <2>1. /\ asked # <<>> /\ Readable(decision.payload, decision.ctx, decision.was)
        /\ Approved = Final(decision.payload, decision.ctx, decision.was,
                            DetectGradualDrift(series, asked[Len(asked)].ts))
    BY DEF SeriesInv, JudgedBySeries, Judged
  <2>2. DetectGradualDrift(series, asked[Len(asked)].ts) = TRUE
    BY <2>1, RiseIsDetected
  <2>3. Approved \in Below(35, 12, 18)
    BY <2>1, <2>2, DriftDims DEF Judged
  <2> HIDE DEF window
  <2>4. Approved.glow \in 0..35 /\ Approved.velocity \in 0..18
    BY <2>3 DEF Below
  <2> QED
    BY ONLY <2>4
<1> QED
  BY <1>1, SeriesInvariance, PTL

-----------------------------------------------------------------------------
(* Asking again. A contract is settled when no stage has anything left to    *)
(* take from it.                                                             *)
Settled(w, ctx) ==
  /\ w \in Below(72, 12, 50) /\ w.glow <= DeviceCaps[ctx.tier].glow
  /\ w.density \in 0..DeviceCaps[ctx.tier].density /\ w.density <= DensityCap(ctx)
  /\ IF w.crowded THEN w.cadence = Missing ELSE w.cadence \in 0..FlashesMax
  /\ w.state \in Reserved => w.mode = ReservedPalettes[w.state]
  /\ w.state = "ERROR" => w.shape = "CRACKED_SHELL"
  /\ w.state = "NIRODHA" => w.glow <= 20 /\ w.velocity <= 10
  /\ Alert(w) => w.scholar = Missing
  /\ w.scholar = "sensitive" => w.glow <= 40 /\ w.flicker <= 5
  /\ ctx.lowPower => w.glow <= 20 /\ w.velocity <= 12 /\ w.density <= 22
  /\ ctx.lowSensory => w.glow <= 35 /\ w.velocity <= 18 /\ w.flicker <= 0
  /\ ctx.noFlicker => w.flicker = 0
  /\ w.state = "SENSOR_ACTIVE" => ctx.granted

LEMMA CapKeeps ==
  ASSUME NEW w \in Contract, NEW a \in Int, NEW b \in Int, NEW c \in Int,
         w.glow <= a, w.flicker <= b, w.velocity <= c
  PROVE  Cap(w, a, b, c) = w
<1>1. /\ AtMost(w.glow, a) = w.glow /\ AtMost(w.flicker, b) = w.flicker
      /\ AtMost(w.velocity, c) = w.velocity
  BY DEF AtMost, Contract
<1> QED
  BY <1>1 DEF Cap, Contract

\* The first stages keep the intensities of a settled contract.
LEMMA LimitKeeps ==
  ASSUME NEW ctx \in Context, NEW w, Settled(w, ctx)
  PROVE  Limit(w, ctx) = w
<1> DEFINE caps == DeviceCaps[ctx.tier]
<1>1. /\ w \in Contract /\ w.glow \in 0..72 /\ w.flicker \in 0..12
      /\ w.velocity \in 0..50
  BY DEF Settled, Below
<1>2. /\ w.glow <= caps.glow /\ w.density <= caps.density
      /\ w.density \in Nat /\ w.density <= DensityCap(ctx)
      /\ caps.glow \in 0..100 /\ caps.density \in 0..100 /\ DensityCap(ctx) \in 0..100
  <2>1. caps.glow \in 0..100 /\ caps.density \in 0..100
    BY DEF DeviceCaps, Context, Tiers
  <2>2. DensityCap(ctx) \in 0..100
    BY UnitBounds DEF DensityCap, Context
  <2> HIDE DEF caps
  <2>3. w.glow <= caps.glow /\ w.density \in 0..caps.density /\ w.density <= DensityCap(ctx)
    BY DEF Settled, caps
  <2> QED
    BY <2>1, <2>2, <2>3
<1> HIDE DEF caps
<1>3. /\ AtMost(Unit(w.glow), caps.glow) = w.glow
      /\ AtMost(Unit(w.flicker), 20) = w.flicker
      /\ AtMost(AtMost(Unit(w.density), caps.density), DensityCap(ctx)) = w.density
      /\ Unit(w.velocity) = w.velocity
  BY <1>1, <1>2 DEF AtMost, Unit
<1>4. ApplyClamps(w, ctx) = w
  BY <1>1, <1>3 DEF ApplyClamps, Contract, caps
<1>5. LimitIntensity(w) = w
  BY <1>1, CapKeeps DEF LimitIntensity, PsychoLimits
<1> QED
  BY <1>4, <1>5 DEF Limit

\* The flash stage shows the cadence again that was truncated away, and nothing else.
LEMMA FlashesKept ==
  ASSUME NEW ctx, NEW w, Settled(w, ctx)
  PROVE  \E c \in Int : /\ LimitFlashes(w) = ShowCadence(w, c)
                        /\ ~w.crowded => w.cadence = c
<1>1. /\ w \in Contract /\ w.glow \in 0..72 /\ w.flicker \in 0..12
      /\ w.velocity \in 0..50
      /\ IF w.crowded THEN w.cadence = Missing ELSE w.cadence \in 0..FlashesMax
  BY DEF Settled, Below
<1>2. AskedCadence(w) \in 0..FlashesMax /\ (~w.crowded => AskedCadence(w) = w.cadence)
  BY <1>1, MarkerAssumption DEF AskedCadence, FlashesMax
<1>3. ~LowFrequency(w) /\ SafeCadence(w) = AskedCadence(w)
  BY <1>2 DEF LowFrequency, SafeCadence, AtMost, FlashesMax
<1>4. Cap(w, 100, 100, 100) = w
  BY <1>1, CapKeeps
<1>5. LimitFlashes(w) = ShowCadence(w, SafeCadence(w))
  BY <1>3, <1>4 DEF LimitFlashes
<1>6. SafeCadence(w) \in Int
  BY <1>2, <1>3 DEF FlashesMax
<1> QED
  BY <1>2, <1>3, <1>5, <1>6

\* policy_block drops the cadence again where it did before, and nothing else.
LEMMA PolicyKeeps ==
  ASSUME NEW ctx, NEW w, Settled(w, ctx), NEW c \in Int, ~w.crowded => w.cadence = c
  PROVE  ApplyPolicyRules(ShowCadence(w, c)) = w
<1> DEFINE x == ShowCadence(w, c)
<1>1. /\ w \in Contract /\ w.glow \in 0..72 /\ w.flicker \in 0..12
      /\ w.velocity \in 0..50 /\ w.crowded \in BOOLEAN
      /\ IF w.crowded THEN w.cadence = Missing ELSE w.cadence \in 0..FlashesMax
      /\ w.state \in Reserved => w.mode = ReservedPalettes[w.state]
      /\ w.state = "ERROR" => w.shape = "CRACKED_SHELL"
      /\ w.state = "NIRODHA" => w.glow <= 20 /\ w.velocity <= 10
  BY DEF Settled, Below, Contract
<1>2. /\ x.state = w.state /\ x.mode = w.mode /\ x.shape = w.shape
      /\ x.glow = w.glow /\ x.flicker = w.flicker /\ x.velocity = w.velocity
      /\ x.crowded = w.crowded
  BY <1>1 DEF ShowCadence, Contract
<1>3. x \in Contract
  BY <1>1, PutType DEF ShowCadence
<1>4. (w.crowded => [x EXCEPT !.cadence = Missing] = w) /\ (~w.crowded => x = w)
  BY <1>1 DEF ShowCadence, Contract
<1> HIDE DEF x
<1>5. Dress(x) = x
  <2>1. /\ x.mode = IF x.state \in Reserved THEN ReservedPalettes[x.state] ELSE x.mode
        /\ x.shape = IF x.state = "ERROR" THEN "CRACKED_SHELL" ELSE x.shape
    BY <1>1, <1>2
  <2> QED
    BY <1>3, <2>1 DEF Dress, Contract
<1>6. x.state = "NIRODHA" => Cap(x, 20, 100, 10) = x
  BY <1>1, <1>2, <1>3, CapKeeps
<1>7. ReserveAppearance(x) = w
  BY <1>2, <1>4, <1>5, <1>6 DEF ReserveAppearance, TruncateUniforms
<1>8. ScholarGate(w) = w
  <2> DEFINE a == IF w.scholar = "sensitive" THEN 40 ELSE 100
             b == IF w.scholar = "sensitive" THEN 5 ELSE 20
  <2>1. a \in Int /\ b \in Int /\ w.glow <= a /\ w.flicker <= b
    BY <1>1 DEF Settled
  <2> HIDE DEF a, b
  <2>2. Cap(w, a, b, 100) = w
    BY <1>1, <2>1, CapKeeps
  <2>3. ~ (w.scholar # Missing /\ Alert(w))
    BY DEF Settled
  <2> QED
    BY <2>2, <2>3 DEF ScholarGate, a, b
<1> QED
  BY <1>7, <1>8 DEF ApplyPolicyRules, x

\* capability_gate asks for nothing a settled contract does not already give.
LEMMA CapabilityKeeps ==
  ASSUME NEW ctx \in Context, NEW w, Settled(w, ctx), ctx.forced \notin States
  PROVE  ApplyCapabilityGates(w, ctx) = w
<1>1. /\ w \in Contract /\ w.glow \in 0..72 /\ w.flicker \in 0..12
      /\ w.velocity \in 0..50
  BY DEF Settled, Below
<1>2. ForceState(w, ctx) = w
  BY DEF ForceState
<1>3. ctx.lowPower => LowPower(w) = w
  <2> SUFFICES ASSUME ctx.lowPower PROVE LowPower(w) = w
    OBVIOUS
  <2>1. w.glow <= 20 /\ w.velocity <= 12 /\ w.density <= 22
    BY DEF Settled
  <2>2. Cap(w, 20, 100, 12) = w
    BY <1>1, <2>1, CapKeeps
  <2>3. AtMost(w.density, 22) = w.density
    BY <1>1, <2>1 DEF AtMost, Contract
  <2> QED
    BY <1>1, <2>2, <2>3 DEF LowPower, Contract
<1>4. ctx.lowSensory => LowSensory(w) = w
  <2> SUFFICES ASSUME ctx.lowSensory PROVE LowSensory(w) = w
    OBVIOUS
  <2>1. w.glow <= 35 /\ w.velocity <= 18 /\ w.flicker <= 0
    BY DEF Settled
  <2> QED
    BY <1>1, <2>1, CapKeeps DEF LowSensory
<1>5. ctx.noFlicker => NoFlicker(w) = w
  <2> SUFFICES ASSUME ctx.noFlicker PROVE NoFlicker(w) = w
    OBVIOUS
  <2>1. w.flicker <= 0
    BY <1>1 DEF Settled
  <2> QED
    BY <1>1, <2>1, CapKeeps DEF NoFlicker
<1>6. Accommodate(w, ctx) = w
  BY <1>3, <1>4, <1>5 DEF Accommodate
<1>7. SensorGate(w, ctx) = w
  BY DEF SensorGate, Settled
<1> QED
  BY <1>2, <1>6, <1>7 DEF ApplyCapabilityGates

\* So asking for a settled contract again yields it again.
LEMMA SettledIsStable ==
  ASSUME NEW ctx \in Context, NEW w, Settled(w, ctx), ctx.forced \notin States
  PROVE  Approve(Gate(Limit(w, ctx), FALSE), ctx) = w
<1>1. PICK c \in Int : /\ LimitFlashes(w) = ShowCadence(w, c)
                       /\ ~w.crowded => w.cadence = c
  BY FlashesKept
<1>2. Gate(Limit(w, ctx), FALSE) = ShowCadence(w, c)
  BY <1>1, LimitKeeps DEF Gate
<1> QED
  BY <1>1, <1>2, PolicyKeeps, CapabilityKeeps DEF Approve

\* What the last two stages leave of the fields they hand on.
LEMMA ApproveKeeps ==
  ASSUME NEW g \in Nat, NEW f \in Nat, NEW v \in Nat, NEW w \in Below(g, f, v),
         NEW d \in Int, w.density \in 0..d,
         NEW ctx \in Context, ctx.forced \notin States
  PROVE  LET u == Approve(w, ctx)
         IN /\ u.density \in 0..d /\ u.crowded = w.crowded
            /\ u.cadence = IF w.crowded THEN Missing ELSE w.cadence
            /\ Alert(u) => u.scholar = Missing
            /\ u.scholar = "sensitive" => u.glow <= 40 /\ u.flicker <= 5
<1> DEFINE r == ReserveAppearance(w)
           x == ScholarGate(r)
           z == Accommodate(x, ctx)
           u == SensorGate(z, ctx)
<1>1. r \in Below(g, f, v) /\ w \in Contract
  BY ReserveFacts DEF Below
<1>2. /\ r.density = w.density /\ r.crowded = w.crowded
      /\ r.cadence = IF w.crowded THEN Missing ELSE w.cadence
  BY <1>1 DEF ReserveAppearance, TruncateUniforms, Dress, Cap, Contract
<1> HIDE DEF r
<1>3. x \in Below(g, f, v) /\ SameLook(r, x) /\ r \in Contract
  BY <1>1, ScholarFacts DEF Below
<1>4. x.density = r.density /\ x.crowded = r.crowded /\ x.cadence = r.cadence
  BY <1>3 DEF ScholarGate, Cap, Contract
<1>5. /\ Alert(x) => x.scholar = Missing
      /\ x.scholar = "sensitive" => x \in Below(40, 5, v)
  <2>1. CASE r.scholar # Missing /\ Alert(r)
    <3>1. x.scholar = Missing
      BY <1>3, <2>1 DEF ScholarGate, Contract
    <3>2. x.scholar # "sensitive"
      BY <3>1, MarkerAssumption
    <3> QED
      BY <3>1, <3>2
  <2>2. CASE ~ (r.scholar # Missing /\ Alert(r))
    <3> DEFINE a == IF r.scholar = "sensitive" THEN 40 ELSE 100
               b == IF r.scholar = "sensitive" THEN 5 ELSE 20
    <3>1. x = Cap(r, a, b, 100)
      BY <2>2 DEF ScholarGate
    <3>2. a \in Nat /\ b \in Nat
      OBVIOUS
    <3> HIDE DEF a, b
    <3>3. x.scholar = r.scholar
      BY <1>3, <3>1 DEF Cap, Contract
    <3>4. x \in Below(a, b, 100)
      BY <1>1, <3>1, <3>2, CapBounds
    <3>5. x.scholar = "sensitive" => x \in Below(40, 5, v)
      BY <1>3, <3>3, <3>4 DEF Below, a, b
    <3>6. Alert(x) => Alert(r)
      BY <1>3 DEF Alert, SameLook
    <3> QED
      BY <2>2, <3>3, <3>5, <3>6
  <2> QED
    BY <2>1, <2>2
<1> HIDE DEF x
<1>6. z \in Below(g, f, v) /\ SameLook(x, z) /\ x \in Contract
  BY <1>3, AccommodateFacts DEF Below
<1>7. z.crowded = x.crowded /\ z.cadence = x.cadence /\ z.scholar = x.scholar
  BY <1>6 DEF Accommodate, LowPower, LowSensory, NoFlicker, Cap, Contract
<1>8. z.density = x.density \/ (z.density = AtMost(x.density, 22))
  BY <1>6 DEF Accommodate, LowPower, LowSensory, NoFlicker, Cap, Contract
<1>9. z.density \in 0..d
  <2>1. x.density \in 0..d /\ x.density \in Int
    BY <1>2, <1>4, <1>6 DEF Contract
  <2> QED
    BY <1>8, <2>1 DEF AtMost
<1>10. ASSUME x \in Below(40, 5, v) PROVE z \in Below(40, 5, v)
  BY <1>10, AccommodateFacts
<1> HIDE DEF z
<1>11. /\ u.density = z.density /\ u.cadence = z.cadence
       /\ u.glow = z.glow /\ u.flicker = z.flicker
       /\ u.state = z.state \/ u.state = "IDLE"
  BY <1>6, SensorFacts
<1>12. u.crowded = z.crowded /\ u.scholar = z.scholar
  <2>1. z \in Contract
    BY <1>6 DEF Below
  <2> DEFINE e == [z EXCEPT !.state = "IDLE"]
  <2>2. e \in Contract /\ e.crowded = z.crowded /\ e.scholar = z.scholar
    BY <2>1, PutType, NameAssumption DEF Contract, States
  <2>3. ApplyProfileMap(e) = e
    BY <2>2, MapKeepsContract
  <2>4. u = e \/ u = z
    BY <2>3 DEF SensorGate
  <2> QED
    BY <2>2, <2>4
<1> HIDE DEF u
<1>13. Alert(u) => Alert(x)
  BY <1>6, <1>11 DEF Alert, SameLook
<1>14. z \in Below(40, 5, v) => u.glow <= 40 /\ u.flicker <= 5
  BY <1>11 DEF Below
<1>15. Approve(w, ctx) = u
  BY DEF Approve, ApplyPolicyRules, ApplyCapabilityGates, ForceState, u, z, x, r
<1> QED
  BY <1>2, <1>4, <1>5, <1>7, <1>9, <1>10, <1>11, <1>12, <1>13, <1>14, <1>15

\* Every contract the gate let through leaves the pipeline settled.
LEMMA FinalIsSettled ==
  ASSUME NEW payload, NEW ctx, NEW was, NEW drifting \in BOOLEAN,
         Readable(payload, ctx, was), ~Replaced(payload), ctx.forced \notin States
  PROVE  Settled(Final(payload, ctx, was, drifting), ctx)
<1> DEFINE n == Normalise(payload, ctx, was)
           l == Limit(n, ctx)
           m == LimitFlashes(l)
           w == Gate(l, drifting)
           u == Final(payload, ctx, was, drifting)
           capg == DeviceCaps[ctx.tier].glow
           capd == DeviceCaps[ctx.tier].density
           d == AtMost(capd, DensityCap(ctx))
<1>1. n \in Contract /\ ctx \in Context
  BY NormaliseType, ReadableIsContract DEF Readable
<1> HIDE DEF n
<1>2. capg \in 0..100 /\ capd \in 0..100 /\ DensityCap(ctx) \in 0..100
  <2>1. capg \in 0..100 /\ capd \in 0..100
    BY <1>1 DEF DeviceCaps, Context, Tiers
  <2> QED
    BY <1>1, <2>1, UnitBounds DEF DensityCap, Context
<1> HIDE DEF capg, capd
<1>3. l \in Below(72, 12, 50)
  BY <1>1, LimitBounds
<1>4. l.glow <= capg /\ l.density \in 0..d
  <2> DEFINE c == ApplyClamps(n, ctx)
  <2>1. /\ c.glow = AtMost(Unit(n.glow), capg) /\ l.glow = AtMost(c.glow, 72)
        /\ l.density = AtMost(AtMost(Unit(n.density), capd), DensityCap(ctx))
    BY <1>1 DEF ApplyClamps, Limit, LimitIntensity, PsychoLimits, Cap, Contract, capg, capd
  <2> HIDE DEF c
  <2>2. Unit(n.glow) \in 0..100 /\ Unit(n.density) \in 0..100
    BY <1>1, UnitBounds DEF Contract
  <2> QED
    BY <1>2, <2>1, <2>2 DEF AtMost
<1> HIDE DEF l
<1>5. l \in Contract /\ l.flicker \in 0..12
  BY <1>3 DEF Below
<1>6. SafeCadence(l) \in 0..FlashesMax
  BY <1>5, MarkerAssumption DEF SafeCadence, AskedCadence, AtMost, FlashesMax, Contract
<1>7. /\ m.cadence = SafeCadence(l) /\ Contain(m).cadence = m.cadence
      /\ m.density = l.density /\ Contain(m).density = m.density
  BY <1>5 DEF LimitFlashes, ShowCadence, Cap, Contain, Contract
<1>8. w.cadence \in 0..FlashesMax /\ w.density \in 0..d
  BY <1>4, <1>6, <1>7 DEF Gate
<1>9. w \in Below(72, 12, 50) /\ w \in Below(capg, 12, 50)
  <2>1. l \in Below(capg, 12, 50)
    BY <1>3, <1>4 DEF Below
  <2> QED
    BY <1>2, <1>3, <2>1, GateBounds
<1>10. u = Approve(w, ctx)
  BY DEF Final, Checked, Validated, w, l, n
<1> HIDE DEF w, u
<1>11. d \in Int /\ d <= capd /\ d <= DensityCap(ctx)
  BY <1>2 DEF AtMost
<1>12. /\ u.density \in 0..d /\ u.crowded = w.crowded
       /\ u.cadence = IF w.crowded THEN Missing ELSE w.cadence
       /\ Alert(u) => u.scholar = Missing
       /\ u.scholar = "sensitive" => u.glow <= 40 /\ u.flicker <= 5
  BY <1>1, <1>8, <1>9, <1>10, <1>11, ApproveKeeps
<1>13. /\ u \in Below(72, 12, 50)
       /\ ctx.lowPower => u.glow <= 20 /\ u.velocity <= 12 /\ u.density <= 22
       /\ ctx.lowSensory => u.glow <= 35 /\ u.velocity <= 18 /\ u.flicker <= 0
       /\ ctx.noFlicker => u.flicker = 0
       /\ u.state = "SENSOR_ACTIVE" => ctx.granted
       /\ u.state \in Reserved => u.mode = ReservedPalettes[u.state]
       /\ u.state = "ERROR" => u.shape = "CRACKED_SHELL"
       /\ u.state = "NIRODHA" => u.glow <= 20 /\ u.velocity <= 10
  BY <1>1, <1>9, <1>10, ApproveFacts
<1>14. u \in Below(capg, 12, 50)
  BY <1>1, <1>2, <1>9, <1>10, ApproveFacts
<1>15. u.glow <= capg
  BY <1>14 DEF Below
<1>16. u.density \in 0..capd /\ u.density <= DensityCap(ctx)
  <2> HIDE DEF d
  <2> QED
    BY <1>2, <1>11, <1>12
<1>17. IF u.crowded THEN u.cadence = Missing ELSE u.cadence \in 0..FlashesMax
  BY <1>8, <1>12
<1>18. Settled(u, ctx)
  BY <1>12, <1>13, <1>15, <1>16, <1>17 DEF Settled, capg, capd
<1> QED
  BY <1>18 DEF u

\* The state of an accepted contract is one its previous state may turn into, also where
\* the table does not know that state.
LEMMA FinalIsAllowed ==
  ASSUME NEW payload, NEW ctx, NEW was, NEW drifting \in BOOLEAN,
         Readable(payload, ctx, was), ~Replaced(payload), ctx.forced \notin States
  PROVE  Allowed(PreviousState(ctx, was), Final(payload, ctx, was, drifting).state)
<1> DEFINE from == PreviousState(ctx, was)
           w == Checked(payload, ctx, was, drifting)
           u == Final(payload, ctx, was, drifting)
<1>1. w \in Below(90, 12, 50) /\ ctx \in Context
  BY CheckedBounds DEF Readable
<1>2. u.state \in {w.state, "IDLE"}
  <2>1. u = Approve(w, ctx)
    BY DEF Final
  <2> HIDE DEF u, w
  <2>2. 90 \in Nat /\ 12 \in Nat /\ 50 \in Nat
    OBVIOUS
  <2> QED
    BY <1>1, <2>1, <2>2, ApproveFacts
<1>3. w.state = ApplyTransitionRules(payload.body, ctx, was).state
  BY CheckedState
<1>4. Allowed(from, w.state)
  <2>1. \A s \in StateNames : [payload.body EXCEPT !.state = s].state = s
    BY DEF Readable, Payload, Body
  <2>2. from \in StateNames /\ RequestedState(payload.body, ctx) \in StateNames
    BY NameAssumption
    DEF PreviousState, RequestedState, Or, Readable, Payload, Body, Context, States
  <2>3. \/ w.state = from
        \/ Allowed(from, RequestedState(payload.body, ctx))
           /\ w.state = RequestedState(payload.body, ctx)
    BY <1>3, <2>1, <2>2 DEF ApplyTransitionRules
  <2> HIDE DEF from, w
  <2> QED
    BY <2>3 DEF Allowed
<1> HIDE DEF w, u
<1>5. Allowed(from, "IDLE")
  <2> HIDE DEF from
  <2> QED
    BY IdleIsReachable DEF Allowed, States
<1> QED
  BY <1>2, <1>4, <1>5 DEF u

\* What was accepted last is the state the next request starts from.
AcceptedIsLast == Accepted => last = Approved.state

LEMMA AcceptedStaysLast == Spec => []AcceptedIsLast
<1>1. Init => AcceptedIsLast
  BY DEF Init, AcceptedIsLast, Accepted, NoDecision
<1>2. AcceptedIsLast /\ [Next]_vars => AcceptedIsLast'
  <2> SUFFICES ASSUME AcceptedIsLast, [Next]_vars PROVE AcceptedIsLast'
    OBVIOUS
  <2>1. ASSUME NEW payload \in Payloads, NEW ctx \in Contexts, Process(payload, ctx)
        PROVE  AcceptedIsLast'
    <3>1. CASE Judge(payload, ctx)
      BY <3>1 DEF Judge, Decided, AcceptedIsLast, Accepted, Approved
    <3>2. CASE RejectEnvelope(payload, ctx) \/ FailInClamp(payload, ctx)
      BY <3>2 DEF RejectEnvelope, FailInClamp, Decided, AcceptedIsLast, Accepted
    <3> QED
      BY <2>1, <3>1, <3>2 DEF Process
  <2> QED
    BY <2>1 DEF Next, Tick, vars, AcceptedIsLast, Accepted, Approved
<1> QED
  BY <1>1, <1>2, PTL DEF Spec

\* A request that asks for exactly what was accepted, from the state that left: its
\* transition is allowed, so the first stages hand the contract on as it is.
LEMMA AskedAgain ==
  ASSUME NEW payload, NEW ctx, NEW was, NEW drifting \in BOOLEAN,
         Readable(payload, ctx, was), ~Replaced(payload), ctx.forced \notin States
  PROVE  LET u == Final(payload, ctx, was, drifting)
         IN Normalise([payload EXCEPT !.body = u], ctx, u.state) = u
<1> DEFINE u == Final(payload, ctx, was, drifting)
           again == [payload EXCEPT !.body = u]
           from == PreviousState(ctx, u.state)
<1>1. u \in Contract /\ Allowed(PreviousState(ctx, was), u.state)
  BY FinalIsContract, FinalIsAllowed
<1> HIDE DEF u
<1>2. again.body = u
  BY DEF Readable, Payload
<1> HIDE DEF again
<1>3. u.state \in StateNames /\ u.state # Missing
  BY <1>1, MarkerAssumption DEF Contract
<1>4. RequestedState(u, ctx) = u.state
  BY <1>3 DEF RequestedState, Or
<1>5. Allowed(from, u.state)
  <2>1. CASE ctx.previous = Missing
    BY <1>3, <2>1 DEF PreviousState, Or, Allowed
  <2>2. CASE ctx.previous # Missing
    BY <1>1, <2>2 DEF PreviousState, Or
  <2> QED
    BY <2>1, <2>2
<1>6. [u EXCEPT !.state = u.state] = u
  BY <1>1 DEF Contract
<1>7. ApplyTransitionRules(u, ctx, u.state) = u
  BY <1>4, <1>5, <1>6 DEF ApplyTransitionRules
<1> QED
  BY <1>1, <1>2, <1>7, MapKeepsContract DEF Normalise, u, again

\* Stability: whoever asks again for exactly what was accepted gets it unchanged; no
\* stage undoes what a later one did.
THEOREM ApprovalsAreStable == Spec => []ApprovalIsStable
<1>1. Inv /\ AcceptedIsLast => ApprovalIsStable
  <2> SUFFICES ASSUME Inv, AcceptedIsLast, Judged, NoForcing PROVE ApprovalIsStable
    BY DEF ApprovalIsStable
  <2> DEFINE ctx == decision.ctx
             again == [decision.payload EXCEPT !.body = Approved]
             n == Normalise(again, ctx, last)
  <2>1. PICK drifting \in BOOLEAN :
          /\ Readable(decision.payload, ctx, decision.was)
          /\ Approved = Final(decision.payload, ctx, decision.was, drifting)
          /\ ~PolicyBlocks(Checked(decision.payload, ctx, decision.was, drifting), ctx)
    BY DEF Inv, Explained, Judged
  <2>2. last = Approved.state /\ ~Replaced(decision.payload) /\ ctx.forced \notin States
        /\ ctx \in Context
    BY <2>1 DEF AcceptedIsLast, Judged, NoForcing, Readable
  <2>3. Settled(Approved, ctx) /\ Approved \in Contract
    BY <2>1, <2>2, FinalIsSettled, FinalIsContract
  <2>4. n = Approved
    BY <2>1, <2>2, AskedAgain
  <2>5. Limit(Approved, ctx) = Approved
    BY <2>2, <2>3, LimitKeeps
  <2>6. Approve(Gate(Approved, FALSE), ctx) = Approved
    BY <2>2, <2>3, <2>5, SettledIsStable
  <2>7. ~ClampRaises(Approved)
    BY <2>3, MarkerAssumption DEF ClampRaises, Contract
  <2>8. ~PolicyBlocks(Gate(Approved, FALSE), ctx)
    <3>1. PICK c \in Int : LimitFlashes(Approved) = ShowCadence(Approved, c)
      BY <2>3, FlashesKept
    <3>2. Gate(Approved, FALSE).state = Approved.state
      BY <2>3, <3>1 DEF Gate, ShowCadence, Contract
    <3>3. Approved.state = "SENSOR_ACTIVE" => ctx.allowSensor
      BY <2>1, <2>2, FinalSensing
    <3> QED
      BY <3>2, <3>3 DEF PolicyBlocks
  <2> QED
    BY <2>4, <2>5, <2>6, <2>7, <2>8 DEF ApprovalIsStable
<1> QED
  BY <1>1, EveryApprovalIsExplained, AcceptedStaysLast, PTL

-----------------------------------------------------------------------------
(* The governor service. The rooms alone do not say that a request is        *)
(* published once: the invariant adds that whoever is published is past      *)
(* publishing, and where each accepted contract is from.                     *)

\* A contract that was accepted came out of the pipeline.
AnswersJudged ==
  \A r \in Requests : answer[r].outcome = "accepted" =>
    /\ answer[r] \in Answer
    /\ answer[r].contract \in Below(GlowLimit(answer[r].payload), 12, 50)

\* A request that has no answer yet has nothing to publish, and one that is to be published
\* is accepted and was not published before.
Tasks ==
  \A r \in Requests :
    /\ phase[r] = "publish" => answer[r].outcome = "accepted"
    /\ phase[r] \in {"audit", "publish"} => answer[r] \in Answer
    /\ phase[r] \in {"waiting", "audit", "publish"} =>
         \A room \in Rooms : \A i \in DOMAIN commands[room] : commands[room][i] # r

\* What a room got was accepted for it, and each request got there once.
Published ==
  \A room \in Rooms : \A i \in DOMAIN commands[room] :
    /\ answer[commands[room][i]].outcome = "accepted"
    /\ answer[commands[room][i]].room = room
    /\ \A j \in DOMAIN commands[room] : commands[room][j] = commands[room][i] => i = j

ServiceInv == ServiceTypeOK /\ AnswersJudged /\ Tasks /\ Published

LEMMA ServiceInitInv == ServiceInit => ServiceInv
BY OutcomeAssumption
DEF ServiceInit, ServiceInv, ServiceTypeOK, Phases, AnswersJudged, Tasks, Published, NoAnswer

\* The answer to a readable request is a contract, within the limits that hold for it.
LEMMA VerdictType ==
  ASSUME NEW payload \in ServicePayloads, NEW ctx \in ServiceContexts, ~Raises(payload, ctx)
  PROVE  LET v == FreshVerdict(payload, ctx)
         IN /\ v.outcome \in {"accepted", "blocked", "invalid"} /\ v.contract \in Contract
            /\ v.outcome = "accepted" => v.contract \in Below(GlowLimit(payload), 12, 50)
<1>1. SafeContract \in Contract
  BY SafeContractBounds DEF Below
<1>2. CASE ~payload.wellFormed
  BY <1>1, <1>2 DEF FreshVerdict
<1>3. CASE payload.wellFormed
  <2>1. Readable(payload, ctx, Missing)
    BY <1>3, ServiceAssumption DEF Readable, Raises
  <2> DEFINE limited == Limit(Normalise(payload, ctx, Missing), ctx)
             sample  == [ts |-> Or(payload.emittedAt, 0), cadence |-> SafeCadence(limited)]
             drifting == DetectGradualDrift(RecordSample(<<>>, sample), sample.ts)
  <2>2. drifting \in BOOLEAN
    BY DEF DetectGradualDrift
  <2>3. FreshVerdict(payload, ctx) =
          IF PolicyBlocks(Checked(payload, ctx, Missing, drifting), ctx)
          THEN [outcome |-> "blocked", contract |-> SafeContract]
          ELSE [outcome |-> "accepted", contract |-> Final(payload, ctx, Missing, drifting)]
    BY <1>3 DEF FreshVerdict
  <2> HIDE DEF drifting
  <2>4. /\ Final(payload, ctx, Missing, drifting) \in Contract
        /\ Final(payload, ctx, Missing, drifting) \in Below(GlowLimit(payload), 12, 50)
    BY <2>1, <2>2, FinalIsContract, FinalWithinLimits
  <2> QED
    BY <1>1, <2>3, <2>4
<1> QED
  BY <1>2, <1>3

LEMMA ReceivePreserves ==
  ASSUME ServiceInv, NEW r \in Requests, NEW payload \in ServicePayloads, NEW ctx \in ServiceContexts,
         NEW room \in Rooms, ProcessContract(r, payload, ctx, room)
  PROVE  ServiceInv'
<1> USE DEF ServiceInv
<1>1. phase[r] = "waiting" /\ UNCHANGED <<audited, commands, crashes>>
  BY DEF ProcessContract
<1>2. CASE Raises(payload, ctx)
  <2>1. phase' = [phase EXCEPT ![r] = "failed"] /\ answer' = answer
    BY <1>2 DEF ProcessContract
  <2> QED
    BY <1>1, <2>1 DEF ServiceTypeOK, Phases, AnswersJudged, Tasks, Published
<1>3. CASE ~Raises(payload, ctx)
  <2> DEFINE v == FreshVerdict(payload, ctx)
             given == [outcome |-> v.outcome, contract |-> v.contract,
                       payload |-> payload, ctx |-> ctx, room |-> room]
  <2>1. /\ phase' = [phase EXCEPT ![r] = "audit"]
        /\ answer' = [answer EXCEPT ![r] = given]
    BY <1>3 DEF ProcessContract
  <2>2. /\ given \in Answer
        /\ given.outcome = "accepted" => given.contract \in Below(GlowLimit(given.payload), 12, 50)
    BY <1>3, VerdictType DEF Answer
  <2> HIDE DEF given
  <2>3. ServiceTypeOK'
    BY <1>1, <2>1, <2>2 DEF ServiceTypeOK, Phases
  <2>4. AnswersJudged'
    BY <2>1, <2>2 DEF ServiceTypeOK, AnswersJudged
  <2>5. Tasks'
    BY <1>1, <2>1, <2>2 DEF ServiceTypeOK, Tasks
  <2>6. Published'
    <3>1. \A q \in Rooms : \A i \in DOMAIN commands[q] : commands[q][i] # r
      BY <1>1 DEF Tasks
    <3>2. \A q \in Requests \ {r} : answer'[q] = answer[q]
      BY <2>1 DEF ServiceTypeOK
    <3>3. \A q \in Rooms : \A i \in DOMAIN commands[q] : commands[q][i] \in Requests
      BY DEF ServiceTypeOK
    <3> QED
      BY <1>1, <3>1, <3>2, <3>3 DEF Published
  <2> QED
    BY <2>3, <2>4, <2>5, <2>6
<1> QED
  BY <1>2, <1>3

LEMMA AuditPreserves ==
  ASSUME ServiceInv, NEW r \in Requests, PublishAuditLog(r)
  PROVE  ServiceInv'
<1>1. /\ phase[r] = "audit" /\ UNCHANGED <<answer, commands, crashes>>
      /\ phase' = [phase EXCEPT ![r] =
                     IF answer[r].outcome = "accepted" THEN "publish" ELSE "done"]
      /\ audited' \subseteq Requests
  BY DEF PublishAuditLog, ServiceInv, ServiceTypeOK
<1>2. ServiceTypeOK' /\ AnswersJudged' /\ Published'
  BY <1>1 DEF ServiceInv, ServiceTypeOK, Phases, AnswersJudged, Published
<1>3. Tasks'
  BY <1>1 DEF ServiceInv, ServiceTypeOK, Tasks
<1> QED
  BY <1>2, <1>3 DEF ServiceInv

LEMMA PublishPreserves ==
  ASSUME ServiceInv, NEW r \in Requests, PublishVisualCommand(r)
  PROVE  ServiceInv'
<1> DEFINE home == answer[r].room
<1>1. /\ phase[r] = "publish" /\ phase' = [phase EXCEPT ![r] = "done"]
      /\ UNCHANGED <<answer, audited, crashes>>
  BY DEF PublishVisualCommand
<1>2. answer[r].outcome = "accepted" /\ home \in Rooms
  BY <1>1 DEF ServiceInv, Tasks, Answer
<1>3. CASE commands' = commands
  BY <1>1, <1>3 DEF ServiceInv, ServiceTypeOK, Phases, AnswersJudged, Tasks, Published
<1>4. CASE commands' = [commands EXCEPT ![home] = Append(commands[home], r)]
  <2>1. /\ commands[home] \in Seq(Requests) /\ Append(commands[home], r) \in Seq(Requests)
        /\ DOMAIN Append(commands[home], r) = 1..(Len(commands[home]) + 1)
        /\ DOMAIN commands[home] = 1..Len(commands[home]) /\ Len(commands[home]) \in Nat
        /\ \A i \in 1..Len(commands[home]) : Append(commands[home], r)[i] = commands[home][i]
        /\ Append(commands[home], r)[Len(commands[home]) + 1] = r
    BY <1>2, AppendProperties, LenProperties DEF ServiceInv, ServiceTypeOK
  <2>2. \A q \in Rooms \ {home} : commands'[q] = commands[q]
    BY <1>2, <1>4 DEF ServiceInv, ServiceTypeOK
  <2>3. commands'[home] = Append(commands[home], r)
    BY <1>2, <1>4 DEF ServiceInv, ServiceTypeOK
  <2>4. ServiceTypeOK' /\ AnswersJudged'
    BY <1>1, <1>4, <2>1 DEF ServiceInv, ServiceTypeOK, Phases, AnswersJudged
  <2>5. ASSUME NEW q \in Requests, phase'[q] \in {"waiting", "audit", "publish"},
               NEW room \in Rooms, NEW i \in DOMAIN commands'[room]
        PROVE  commands'[room][i] # q
    <3>1. q # r /\ phase[q] \in {"waiting", "audit", "publish"}
      BY <1>1, <2>5 DEF ServiceInv, ServiceTypeOK
    <3>2. CASE room # home
      BY <2>2, <2>5, <3>1, <3>2 DEF ServiceInv, Tasks
    <3>3. CASE room = home
      <4>1. i \in 1..(Len(commands[home]) + 1)
        BY <2>1, <2>3, <2>5, <3>3
      <4>2. CASE i \in 1..Len(commands[home])
        <5>1. commands'[room][i] = commands[home][i] /\ i \in DOMAIN commands[home]
          BY <2>1, <2>3, <3>3, <4>2
        <5> QED
          BY <1>2, <3>1, <5>1 DEF ServiceInv, Tasks
      <4>3. CASE i = Len(commands[home]) + 1
        BY <2>1, <2>3, <3>1, <3>3, <4>3
      <4> QED
        BY <2>1, <4>1, <4>2, <4>3
    <3> QED
      BY <3>2, <3>3
  <2>6. Tasks'
    BY <1>1, <2>5 DEF ServiceInv, ServiceTypeOK, Tasks
  <2>7. \A i \in DOMAIN commands[home] : commands[home][i] # r
    BY <1>1, <1>2 DEF ServiceInv, Tasks
  <2>8. Published'
    <3> SUFFICES ASSUME NEW room \in Rooms, NEW i \in DOMAIN commands'[room]
                 PROVE  /\ answer[commands'[room][i]].outcome = "accepted"
                        /\ answer[commands'[room][i]].room = room
                        /\ \A j \in DOMAIN commands'[room] :
                             commands'[room][j] = commands'[room][i] => i = j
      BY <1>1 DEF Published
    <3>1. CASE room # home
      BY <2>2, <3>1 DEF ServiceInv, Published
    <3>2. CASE room = home
      <4> DEFINE c == commands[home]
                 n == Len(commands[home])
                 new == Append(commands[home], r)
      <4>1. commands'[room] = new /\ i \in 1..(n + 1) /\ DOMAIN new = 1..(n + 1)
        BY <2>1, <2>3, <3>2
      <4>2. \A k \in 1..n : /\ new[k] = c[k] /\ c[k] # r
                            /\ answer[c[k]].outcome = "accepted"
                            /\ answer[c[k]].room = home
                            /\ \A m \in 1..n : c[m] = c[k] => k = m
        BY <1>2, <2>1, <2>7 DEF ServiceInv, Published
      <4>3. new[n + 1] = r /\ n \in Nat
        BY <2>1
      <4> HIDE DEF c, n, new
      <4>4. /\ answer[new[i]].outcome = "accepted" /\ answer[new[i]].room = home
            /\ \A j \in 1..(n + 1) : new[j] = new[i] => i = j
        <5>1. CASE i \in 1..n
          BY <4>2, <4>3, <5>1
        <5>2. CASE i = n + 1
          BY <1>2, <4>2, <4>3, <5>2
        <5> QED
          BY <4>1, <4>3, <5>1, <5>2
      <4> QED
        BY <3>2, <4>1, <4>4
    <3> QED
      BY <3>1, <3>2
  <2> QED
    BY <2>4, <2>6, <2>8 DEF ServiceInv
<1> QED
  BY <1>3, <1>4 DEF PublishVisualCommand

LEMMA CrashPreserves == ServiceInv /\ Crash => ServiceInv'
<1> SUFFICES ASSUME ServiceInv, Crash PROVE ServiceInv'
  OBVIOUS
<1>1. /\ \A r \in Requests : phase'[r] = IF phase[r] \in {"audit", "publish"} THEN "lost"
                                         ELSE phase[r]
      /\ phase' \in [Requests -> Phases] /\ UNCHANGED <<answer, audited, commands>>
      /\ crashes' \in 0..MaxCrashes
  BY OutcomeAssumption DEF Crash, ServiceInv, ServiceTypeOK, Phases
<1>2. ServiceTypeOK' /\ AnswersJudged' /\ Published'
  BY <1>1 DEF ServiceInv, ServiceTypeOK, AnswersJudged, Published
<1>3. Tasks'
  BY <1>1 DEF ServiceInv, Tasks
<1> QED
  BY <1>2, <1>3 DEF ServiceInv

\* The invariant holds of every reachable state.
THEOREM ServiceInvariance == ServiceSpec => []ServiceInv
<1>1. ServiceInv /\ [ServiceNext]_serviceVars => ServiceInv'
  <2> SUFFICES ASSUME ServiceInv, [ServiceNext]_serviceVars PROVE ServiceInv'
    OBVIOUS
  <2>1. ASSUME NEW r \in Requests, Receive(r) PROVE ServiceInv'
    BY <2>1, ReceivePreserves DEF Receive
  <2>2. CASE UNCHANGED serviceVars
    BY <2>2 DEF serviceVars, ServiceInv, ServiceTypeOK, AnswersJudged, Tasks, Published
  <2> QED
    BY <2>1, <2>2, AuditPreserves, PublishPreserves, CrashPreserves DEF ServiceNext
<1> QED
  BY ServiceInitInv, <1>1, PTL DEF ServiceSpec

\* Rooms get accepted contracts of their own only, each once, and within the limits that hold
\* for it, those of GlowLimit where the schema stage replaced it.
THEOREM RoomsStaySafe == ServiceSpec => []ServiceIsSound
<1>1. ServiceInv => ServiceIsSound
  <2> SUFFICES ASSUME ServiceInv PROVE RoomsGetApprovedContracts
    BY DEF ServiceInv, ServiceIsSound
  <2>1. ASSUME NEW room \in Rooms, NEW i \in DOMAIN commands[room]
        PROVE  commands[room][i] \in Requests
    BY <2>1 DEF ServiceInv, ServiceTypeOK
  <2>2. \A g : \A c \in Below(g, 12, 50) :
          c.flicker <= PsychoLimits.flicker /\ c.glow <= g /\ c.velocity <= PsychoLimits.velocity
    BY DEF Below, PsychoLimits
  <2> QED
    BY <2>1, <2>2 DEF ServiceInv, AnswersJudged, Published, RoomsGetApprovedContracts
<1> QED
  BY <1>1, ServiceInvariance, PTL
=============================================================================
