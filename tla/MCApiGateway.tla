---------------------------- MODULE MCApiGateway ----------------------------
EXTENDS ApiGateway, ScholarAgent

CONSTANTS gone, null, garbled, nan   \* model values

MCCalls == {"first", "second"}
MCModels == {"gemini-pro", "gpt-4", "claude-3-opus", "other"}
MCProviders == [m \in MCModels \ {"other"} |->
  CASE m = "gemini-pro" -> "google" [] m = "gpt-4" -> "openai" [] OTHER -> "anthropic"]
MCKeyed == {"google", "anthropic"}

Text(length, exclamations, question, positive, negative) ==
  [length |-> length, exclamations |-> exclamations, question |-> question,
   positive |-> positive, negative |-> negative]
MCTexts == {Text(0, 0, FALSE, 0, 0), Text(40, 1, FALSE, 2, 0), Text(90, 0, TRUE, 0, 2),
            Text(900, 0, FALSE, 1, 1), Text(60, 4, TRUE, 0, 5)}

Contract(shape, density, turbulence, primary, secondary) ==
  [shape |-> shape, density |-> density, velocity |-> 300000, turbulence |-> turbulence,
   glow |-> 500000, primary |-> primary, secondary |-> secondary, controls |-> gone]
MCContracts == [k \in {"wild", "odd", "alarm", "plain", "blank", "own", "story"} |->
  CASE k = "wild"    -> Contract("cube", 1700000, 1400000, "blue", "white")
    [] k = "odd"     -> [Contract("ring", nan, -200000, "blue", "white") EXCEPT !.glow = garbled]
    [] k = "alarm"   -> Contract("burst", 500017, gone, "crimson", "white")
    [] k = "plain"   -> Contract("sphere", gone, 0, gone, gone)
    [] k = "blank"   -> Contract("lattice", 250010, 0, null, "white")
    [] k = "own"     -> [Contract("ring", 100009, 0, gone, "white") EXCEPT
                           !.controls = [RendererControls(Contract("helix", 100000, 0, gone, "white"))
                                           EXCEPT !.turbulence = gone]]
    [] k = "story"   -> HandleRequest({"story", "long"}, "formal")]

MCOwnVisuals == [k \in {"emergency"} |->
  [shape |-> "ring", primary |-> "crimson", secondary |-> "white", turbulence |-> 0,
   luminance |-> 500000, count |-> 1000, override |-> TRUE]]

Point(metric, value, age) == [metric |-> metric, value |-> value, age |-> age]
MCMetricNames == {"fps", "rtt"}
\* 21 points: the first length at which the p95 is not the largest value.
MCBatches ==
  {<<Point("fps", 7, 0)>>, <<Point("rtt", 3, 0), Point("fps", 1, 2)>>,
   [i \in 1..21 |-> Point("fps", 25 - i, 0)]}
MCWindows == {1, 3}
=============================================================================
