-------------------------- MODULE MCRuntimeGovernor -------------------------
(* Small instances of RuntimeGovernor for TLC.                               *)
EXTENDS RuntimeGovernor

MCStateNames == States \cup {"FOO"}
MCShapes == {StateProfiles[s].shape : s \in States}
MCPalettes == {StateProfiles[s].mode : s \in States} \cup {"CUSTOM"}

Blank ==
  [state |-> Missing, shape |-> Missing, mode |-> Missing, glow |-> Missing,
   flicker |-> Missing, density |-> Missing, velocity |-> Missing,
   cadence |-> Missing, crowded |-> FALSE, scholar |-> Missing]

Sent(body) ==
  [body |-> body, wellFormed |-> TRUE, conforms |-> TRUE, emittedAt |-> Missing]

\* A payload that only names a state, and one that asks for too much of everything.
Plain(s) == Sent([Blank EXCEPT !.state = s])
Loud(s, mode, cadence, crowded, scholar) ==
  Sent([state |-> s, shape |-> "STREAM", mode |-> mode, glow |-> 150,
        flicker |-> 30, density |-> 101, velocity |-> 60, cadence |-> cadence,
        crowded |-> crowded, scholar |-> scholar])

WidePayloads ==
  {Plain(s) : s \in StateNames \cup {Missing}}
  \cup {[Plain(s) EXCEPT !.conforms = FALSE] : s \in {"IDLE", "SENSOR_ACTIVE"}}
  \cup {[Loud("THINKING", "CUSTOM", c, FALSE, "plain") EXCEPT !.conforms = FALSE] : c \in {250, 1000}}
  \cup {Loud(s, "CUSTOM", c, u, k) :
          s \in States \ {"LISTENING", "RESPONDING"},
          c \in {Missing, 250, 1000, 9500}, u \in BOOLEAN,
          k \in {Missing, "plain", "sensitive"}}
  \cup {Sent([Blank EXCEPT !.state = "THINKING", !.glow = g, !.flicker = f,
                           !.velocity = g]) :
          g \in {-1, 0, 40, Garbage}, f \in {0, 6, 20, Garbage}}
  \cup {[Plain("IDLE") EXCEPT !.wellFormed = FALSE]}

Neutral ==
  [tier |-> "HIGH", lowPower |-> FALSE, lowSensory |-> FALSE, noFlicker |-> FALSE,
   allowSensor |-> FALSE, granted |-> FALSE, forced |-> Missing,
   previous |-> Missing, maxDensity |-> Missing]

WideContexts ==
  {[Neutral EXCEPT !.previous = p] : p \in StateNames}
  \cup {[Neutral EXCEPT !.tier = t, !.lowPower = p, !.lowSensory = s, !.noFlicker = f] :
          t \in {"MID", "LOW"}, p \in BOOLEAN, s \in BOOLEAN, f \in BOOLEAN}
  \cup {[Neutral EXCEPT !.allowSensor = a, !.granted = g, !.maxDensity = 10,
                        !.forced = f] :
          a \in BOOLEAN, g \in BOOLEAN, f \in {Missing, "SENSOR_ACTIVE", "ERROR"}}
  \cup {[Neutral EXCEPT !.previous = "ERROR", !.forced = "THINKING"]}

\* A session: cadences that rise too little, enough or not at all, one on a late clock,
\* and states that are entered, refused, blocked or unreadable in between.
Rising(s, c, t) ==
  [Sent([Blank EXCEPT !.state = s, !.glow = 60, !.velocity = 40, !.cadence = c])
     EXCEPT !.emittedAt = t]
SessionPayloads ==
  {Rising("IDLE", c, Missing) : c \in {100, 105, 110}}
  \cup {Rising("SENSOR_ACTIVE", 110, Missing), Rising("IDLE", 105, 2), Plain("ERROR"), Plain("GENERATING"),
        [Plain("IDLE") EXCEPT !.wellFormed = FALSE],
        Sent([Blank EXCEPT !.state = "THINKING", !.glow = Garbage])}
SessionContexts == {Neutral, [Neutral EXCEPT !.previous = "LISTENING"]}
=============================================================================
