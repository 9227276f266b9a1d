---------------------------- MODULE ScholarAgent ----------------------------
(***************************************************************************)
(* The scholar (api_gateway/scholar_agent.py): a prompt becomes an entry of *)
(* a knowledge table, and the entry a particle-control contract that brings *)
(* renderer controls of its own along.                                      *)
(*                                                                          *)
(* A prompt is the set of topics whose words it contains, in either         *)
(* language; summaries, sources and the language are left out. Scalars and  *)
(* colours are those of ContractAdapters.                                   *)
(***************************************************************************)
EXTENDS ContractAdapters, Sequences

Tones == {"formal", "casual", "creative"}

\* In the order they are looked for: the first one found decides.
Topics == <<"sound waves", "story", "research", "connection", "javascript", "unverified", "long">>

TopicOf(prompt) ==
  LET found == SelectSeq(Topics, LAMBDA topic : topic \in prompt)
  IN IF found = <<>> THEN "other" ELSE Head(found)

\* _query_knowledge_engine. A story has a tone of its own.
Knowledge(prompt, tone) ==
  LET topic == TopicOf(prompt)
  IN [visual |-> CASE topic = "sound waves" -> "ripple pattern"
                   [] topic = "story"       -> "nebula diffusion"
                   [] topic = "research"    -> "fractal branching"
                   [] topic = "connection"  -> "luminous constellations"
                   [] topic = "javascript"  -> "crystalline growth"
                   [] topic = "unverified"  -> "node diagram"
                   [] OTHER                 -> "spiral arcs",
      tone |-> IF topic = "story" THEN "creative" ELSE tone]

MapVisualToShape(visual) ==
  CASE visual = "ripple pattern"    -> "spiral_vortex"
    [] visual = "spiral arcs"       -> "helix"
    [] visual = "fractal branching" -> "burst"
    [] visual \in {"node diagram", "crystalline growth", "luminous constellations"} -> "lattice"
    [] visual \in {"prismatic diffusion", "nebula diffusion"} -> "nebula_cloud"
    [] OTHER                        -> "sphere"

\* The palette follows the tone of the request, not that of the entry.
PaletteForTone(tone) ==
  CASE tone = "creative" -> <<"deep pink", "turquoise">>
    [] tone = "casual"   -> <<"lime", "green yellow">>
    [] OTHER             -> <<"royal blue", "steel blue">>

\* The controls are written by hand, not compiled from the intent: they show 8000
\* particles where the density stands for 30000.
HandleRequest(prompt, tone) ==
  LET shape == MapVisualToShape(Knowledge(prompt, tone).visual)
  IN [shape |-> shape, density |-> 600000, velocity |-> 300000, turbulence |-> 200000,
      glow |-> 700000, primary |-> PaletteForTone(tone)[1], secondary |-> PaletteForTone(tone)[2],
      controls |-> [shape |-> shape, count |-> 8000, turbulence |-> Missing,
                    profile |-> "cinematic"]]

Prompts == SUBSET {Topics[i] : i \in DOMAIN Topics}

\* Controls that are written down are not missing.
ASSUME WrittenAssumption ==
  \A prompt \in Prompts, tone \in Tones : HandleRequest(prompt, tone).controls # Missing
=============================================================================
