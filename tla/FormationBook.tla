--------------------------- MODULE FormationBook ---------------------------
(***************************************************************************)
(* The Book of Formation and its compiler (am_formation_retriever.py): a    *)
(* control packet names a motion, the book has a formation for it, and the  *)
(* two together are what the renderer is told.                              *)
(*                                                                          *)
(* Scalars are in thousandths, tempos in hundredths of a hertz, times in    *)
(* milliseconds. A packet is a record; a part that it may leave out is      *)
(* given with the default the code reads in its place.                      *)
(***************************************************************************)
EXTENDS Integers

Formation(start, target, turbulence, vorticity, pulse, behavior) ==
  [start |-> start, target |-> target, turbulence |-> turbulence, vorticity |-> vorticity,
   pulse |-> pulse, behavior |-> behavior]

Ids == {"emergence/nebula_birth", "stabilization/sphere_equilibrium", "dissolution/light_fade",
        "reasoning/spiral_convergence", "error/fracture_shell"}

Book == [id \in Ids |->
  CASE id = "emergence/nebula_birth"           -> Formation(200, 750, 350, 100, 0, "soft_expansion")
    [] id = "stabilization/sphere_equilibrium" -> Formation(700, 850, 50, 0, 80, "static_formation")
    [] id = "dissolution/light_fade"           -> Formation(800, 0, 500, 0, 0, "dispersal_outward")
    [] id = "reasoning/spiral_convergence"     -> Formation(300, 880, 200, 700, 150, "spiral_inbound")
    [] id = "error/fracture_shell"             -> Formation(500, 100, 800, 0, 300, "sharp_burst")]

Calm == "stabilization/sphere_equilibrium"

\* Slip: one of the labels is missing from the mapping.
CanonicalPartial(archetype) ==
  CASE archetype = "emergence"     -> "emergence/nebula_birth"
    [] archetype = "stabilization" -> Calm
    [] archetype = "dissolution"   -> "dissolution/light_fade"
    [] archetype = "reasoning"     -> "reasoning/spiral_convergence"
    [] OTHER                       -> Calm

Canonical(archetype) ==
  CASE archetype = "emergence"     -> "emergence/nebula_birth"
    [] archetype = "stabilization" -> Calm
    [] archetype = "dissolution"   -> "dissolution/light_fade"
    [] archetype = "reasoning"     -> "reasoning/spiral_convergence"
    [] archetype = "error"         -> "error/fracture_shell"
    [] OTHER                       -> Calm

\* The id the packet asks for, if the book has it; else the id of its motion.
Resolve(packet) ==
  Book[IF packet.reference \in Ids THEN packet.reference ELSE Canonical(packet.motion.archetype)]

\* Slip: a dense form is more coherent than coherent.
AtMostOneNot(x) == x

AtMostOne(x) == IF x > 1000 THEN 1000 ELSE x

AdaptField(base, morphology, motion) ==
  LET gain == (morphology.density * 15) \div 100
  IN [start |-> AtMostOne(base.start + gain), target |-> AtMostOne(base.target + gain),
      turbulence |-> base.turbulence + morphology.complexity \div 10,
      vorticity |-> base.vorticity,
      flow |-> motion.tempo * 20]

AdaptTiming(base, motion) ==
  [attack |-> (motion.attack * motion.tempo) \div 50, hold |-> (motion.settle * motion.tempo) \div 50,
   release |-> (motion.release * motion.tempo) \div 50,
   pulse |-> 10000 \div motion.tempo, strength |-> base.pulse]

AdaptVisuals(base, optics) == [behavior |-> base.behavior, colour |-> optics]

RenderMode(mode, family) ==
  CASE mode \in {"scene", "world"}                                    -> "scene_field"
    [] mode \in {"motion", "feedback"} \/ family = "fracture_shell"   -> "motion_field"
    [] family = "nebula_cloud"                                        -> "scene_field"
    [] OTHER                                                          -> "shape_field"

RuntimeControl(packet) ==
  LET base == Resolve(packet)
  IN [field |-> AdaptField(base, packet.morphology, packet.motion),
      timing |-> AdaptTiming(base, packet.motion),
      visual |-> AdaptVisuals(base, packet.optics),
      bias |-> packet.bias,
      mode |-> RenderMode(packet.intent, packet.morphology.family)]

=============================================================================
