-------------------------- MODULE MCInterpretation --------------------------
EXTENDS Interpretation

CONSTANTS none   \* model value

MCTexts == {"like thinking", "breaking to dust"}

Analysis(goal, tone, form, speed) == [goal |-> goal, tone |-> tone, form |-> form, speed |-> speed]

\* The other labels of the archetype map, each speed, and ambiguous forms.
MCAnalyses ==
  {Analysis({"error"}, {"confused"}, {"fracture"}, "fast"),
   Analysis({"dissolve", "thinking"}, {"broken", "breaking"}, {"sphere"}, "moderate"),
   Analysis({}, {"breathing"}, {"wave", "cloud"}, "other"),
   Analysis({"concept"}, {"calm", "energetic"}, {"cloud"}, "fast"),
   Analysis({}, {"growing"}, {"flower"}, "slow")}

\* The example at the end of am_formation_retriever.py, denser and dissolving variants of it, and
\* the shortest and the fastest motion of the schema.
Example ==
  [request |-> "", intent |-> "auto", optics |-> "thinking", bias |-> None,
   morphology |-> [family |-> "spiral_vortex", complexity |-> 700, density |-> 800],
   motion |-> [archetype |-> "reasoning", tempo |-> 30, attack |-> 900, settle |-> 2400,
               release |-> 1300],
   reference |-> "reasoning/spiral_convergence"]
MCHandPackets ==
  {Example, [Example EXCEPT !.morphology.density = 1000],
   [Example EXCEPT !.intent = "scene", !.reference = "dissolution/light_fade"],
   [Example EXCEPT !.intent = "feedback", !.reference = "wave", !.motion.archetype = "error",
                   !.morphology.complexity = 1000],
   [Example EXCEPT !.motion = [archetype |-> "emergence", tempo |-> 10, attack |-> 50,
                               settle |-> 50, release |-> 54]],
   [Example EXCEPT !.motion = [archetype |-> "wave", tempo |-> 400, attack |-> 50,
                               settle |-> 70, release |-> 50], !.reference = "none"]}

=============================================================================
