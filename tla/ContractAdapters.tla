-------------------------- MODULE ContractAdapters --------------------------
(***************************************************************************)
(* The adapters from particle-control contracts to what older consumers    *)
(* read: visual manifestations (tools/contracts/particle_control_adapter.py)*)
(* and visual parameters (tools/contracts/protocol_adapter.py).            *)
(*                                                                         *)
(* Scalars are in millionths. Colours are kept as far as the gateway tells *)
(* them apart; goals, profiles, concepts and the other fields that are     *)
(* copied, or coerced into a list of names like the shape, are left out.   *)
(***************************************************************************)
EXTENDS Integers

CONSTANTS
  Missing,   \* an absent field, and a null one where the adapters take it for absent
  Null,      \* the null colour, which they do not
  Garbage,   \* a value float() cannot convert
  NaN        \* float("nan")

ASSUME ScalarAssumption ==
  /\ Missing \notin Int /\ Garbage \notin Int /\ NaN \notin Int
  /\ Missing # Garbage /\ Missing # NaN /\ Garbage # NaN /\ Missing # Null

Scalar == Int \cup {Missing, Garbage, NaN}

One == 1000000
Particles == 50000

Shapes == {"ring", "helix", "spiral_vortex", "sphere", "stream", "burst", "lattice"}

\* Slip: nothing is clamped from above.
ClampFloatBelow(value, default) ==
  CASE value \in {Missing, Garbage} -> default
    [] value = NaN                  -> One
    [] OTHER                        -> IF value < 0 THEN 0 ELSE value

\* min(1.0, nan) is 1.0 in Python: what is not a number is taken for the maximum.
ClampFloat(value, default) ==
  CASE value \in {Missing, Garbage} -> default
    [] value = NaN                  -> One
    [] OTHER                        -> IF value < 0 THEN 0 ELSE IF value > One THEN One ELSE value

CoerceShape(shape) == IF shape \in Shapes THEN shape ELSE "ring"

\* round() of a quotient: halves go to the even neighbour.
Rounded(a, b) ==
  LET below == a \div b
      rest  == 2 * (a % b)
  IN IF rest > b \/ (rest = b /\ below % 2 = 1) THEN below + 1 ELSE below

\* Slip: int() without round().
ParticleCountCut(density) == density \div (One \div Particles)

\* round(density * 50000): one particle is 20 millionths.
ParticleCount(density) == Rounded(density, One \div Particles)

Density(contract) == ClampFloat(contract.density, 200000)

RuntimeProfile(contract) ==
  IF Density(contract) >= 750000 THEN "cinematic"
  ELSE IF ClampFloat(contract.velocity, 300000) >= 600000 THEN "adaptive" ELSE "deterministic"

RendererControls(contract) ==
  [shape |-> CoerceShape(contract.shape), count |-> ParticleCount(Density(contract)),
   turbulence |-> ClampFloat(contract.turbulence, 0), profile |-> RuntimeProfile(contract)]

\* Controls the contract brings along are used as they are.
ControlsOf(contract) ==
  IF contract.controls = Missing THEN RendererControls(contract) ELSE contract.controls

\* to_visual_manifestation: an absent primary is white, an absent secondary null, and a
\* null colour stays null.
VisualManifestation(contract) ==
  [shape |-> ControlsOf(contract).shape,
   primary |-> IF contract.primary = Missing THEN "white" ELSE contract.primary,
   secondary |-> IF contract.secondary = Missing THEN Null ELSE contract.secondary,
   turbulence |-> ClampFloat(contract.turbulence, 0),
   luminance |-> ClampFloat(contract.glow, 500000),
   count |-> ControlsOf(contract).count, override |-> FALSE]

\* to_legacy_visual_parameters of an EMBODIMENT_V2 envelope that carries the contract:
\* its own controls are not looked at.
LegacyParameters(contract) ==
  LET controls == RendererControls(contract)
  IN [shape |-> controls.shape, density |-> controls.count * (One \div Particles),
      turbulence |-> controls.turbulence]
=============================================================================
