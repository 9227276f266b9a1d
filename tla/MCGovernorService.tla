-------------------------- MODULE MCGovernorService -------------------------
(* Small instances of GovernorService for TLC.                               *)
EXTENDS GovernorService

MCStateNames == States \cup {"FOO"}
MCShapes == {StateProfiles[s].shape : s \in States}
MCPalettes == {StateProfiles[s].mode : s \in States} \cup {"CUSTOM"}

Neutral ==
  [tier |-> "MID", lowPower |-> FALSE, lowSensory |-> FALSE, noFlicker |-> FALSE,
   allowSensor |-> FALSE, granted |-> FALSE, forced |-> Missing,
   previous |-> Missing, maxDensity |-> Missing]
MCContexts == {Neutral}

Asks(state, glow, cadence) ==
  [body |-> [state |-> state, shape |-> Missing, mode |-> Missing, glow |-> glow,
             flicker |-> Missing, density |-> Missing, velocity |-> Missing,
             cadence |-> cadence, crowded |-> FALSE, scholar |-> Missing],
   wellFormed |-> TRUE, conforms |-> TRUE, emittedAt |-> Missing]

\* Accepted, replaced by the schema stage, blocked, malformed and unreadable payloads.
MixedPayloads ==
  {Asks("THINKING", 95, Missing), Asks("SENSOR_ACTIVE", Missing, Missing),
   Asks("IDLE", Garbage, Missing),
   [Asks("IDLE", Missing, Missing) EXCEPT !.wellFormed = FALSE],
   [Asks("IDLE", Missing, Missing) EXCEPT !.conforms = FALSE]}
StatePayloads  == {Asks("ERROR", Missing, Missing), Asks("THINKING", Missing, Missing)}

=============================================================================
