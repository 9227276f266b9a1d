--------------------------- MODULE Interpretation ---------------------------
(***************************************************************************)
(* From a request in words to the control of a light form: the interpreter  *)
(* and its cache (am_intent_interpreter.py), whose packets the formation    *)
(* book compiles.                                                           *)
(*                                                                          *)
(* A language model is asked between a look into the cache and a store into *)
(* it. The code has a stub in its place that answers the same at once; here *)
(* the model takes its time, answers like the stub or any of Analyses, or   *)
(* fails. A word of an analysis is the set of the known words it contains.  *)
(* The cache's key, hash(user_text), is taken to tell texts apart.          *)
(***************************************************************************)
EXTENDS FormationBook, Sequences

CONSTANTS
  Requests,      \* calls of parse_user_request
  Texts,         \* what users ask for
  Analyses,      \* what a language model may answer besides the stub's analysis
  HandPackets,   \* control packets that a caller hands to the compiler itself
  None

GoalWords == {"error", "broken", "fracture", "dissolve", "fade", "disappear", "feeling", "emotion",
              "concept", "idea", "thinking"}
ToneWords == {"calm", "peaceful", "thinking", "confused", "broken", "growing", "breathing",
              "energetic", "sad", "growth", "breaking"}
FormWords == {"spiral", "sphere", "flower", "wave", "cloud", "fracture", "spiral of contemplation"}

\* A form with the longer name of a spiral contains "spiral" too.
ASSUME AnalysisAssumption ==
  \A a \in Analyses :
    /\ a.goal \subseteq GoalWords /\ a.tone \subseteq ToneWords /\ a.form \subseteq FormWords
    /\ a.speed \in {"slow", "moderate", "fast", "other"}
    /\ "spiral of contemplation" \in a.form => "spiral" \in a.form

\* The ranges of lcl_schema.json:66-110; complexity, which it does not name, is a share like
\* density. The compiler does not check them.
MeetsSchema(packet) ==
  /\ packet.morphology.density \in 0..1000 /\ packet.morphology.complexity \in 0..1000
  /\ packet.motion.tempo \in 10..400
  /\ packet.motion.attack \in Nat /\ packet.motion.attack >= 50
  /\ packet.motion.settle \in Nat /\ packet.motion.settle >= 50
  /\ packet.motion.release \in Nat /\ packet.motion.release >= 50

ASSUME HandPacketAssumption == \A p \in HandPackets : MeetsSchema(p)

VARIABLES
  cache,    \* text -> the packet kept for it, or None
  calls,    \* request -> its phase, text and packet, and when it was made and answered
  events    \* calls and answers so far

vars == <<cache, calls, events>>

-----------------------------------------------------------------------------
(* _build_control_packet                                                     *)

\* The value of the first pair of a table whose key is among the words.
FirstMatch(table, words, default) ==
  LET hits == {i \in DOMAIN table : table[i][1] \in words}
  IN IF hits = {} THEN default ELSE table[CHOOSE i \in hits : \A j \in hits : i <= j][2]

ClassifyIntent(a) ==
  CASE a.goal \cap {"error", "broken", "fracture"} # {}    -> "manifest_error"
    [] a.goal \cap {"dissolve", "fade", "disappear"} # {}  -> "dissolve"
    [] a.goal \cap {"feeling", "emotion"} # {}             -> "respond_to_emotion"
    [] a.goal \cap {"concept", "idea", "thinking"} # {}    -> "visualize_concept"
    [] OTHER                                               -> "create_form"

Families ==
  <<<<"spiral", "spiral_vortex">>, <<"sphere", "sphere">>, <<"flower", "flower_shell">>,
    <<"wave", "wave_ribbon">>, <<"cloud", "nebula_cloud">>, <<"fracture", "fracture_shell">>,
    <<"spiral of contemplation", "spiral_convergence">>>>

SelectMorphology(a) ==
  LET family == FirstMatch(Families, a.form, "sphere")
  IN [family |-> family, complexity |-> 600, density |-> 700,
      symmetry |-> CASE family = "flower_shell" -> 5
                     [] family \in {"spiral_vortex", "spiral_convergence"} -> 3
                     [] OTHER -> 1]

ArchetypeMap ==
  <<<<"calm", "stabilization">>, <<"peaceful", "stabilization">>, <<"thinking", "reasoning">>,
    <<"confused", "error">>, <<"broken", "dissolution">>, <<"growing", "emergence">>,
    <<"breathing", "wave">>, <<"energetic", "spiral_convergence">>>>

\* Attack, settling and release.
SpeedMap(speed) ==
  CASE speed = "slow" -> <<1200, 3000, 2000>>
    [] speed = "fast" -> <<400, 1000, 800>>
    [] OTHER          -> <<800, 2000, 1500>>

\* A speed that is not known has the timing of "moderate" and the tempo of "fast".
Tempo(speed) == CASE speed = "slow" -> 20 [] speed = "moderate" -> 50 [] OTHER -> 100

SelectMotion(a) ==
  [archetype |-> FirstMatch(ArchetypeMap, a.tone, "stabilization"), tempo |-> Tempo(a.speed),
   attack |-> SpeedMap(a.speed)[1], settle |-> SpeedMap(a.speed)[2],
   release |-> SpeedMap(a.speed)[3]]

\* Colours are looked up by the whole tone: one known word alone.
SelectOptics(a) ==
  IF \E w \in {"thinking", "energetic", "sad", "growth", "breaking"} : a.tone = {w}
  THEN CHOOSE w \in a.tone : TRUE ELSE "calm"

\* The reference names the motion by its label, which is no id of the book.
ControlPacket(text, a) ==
  [request |-> text, goal |-> ClassifyIntent(a), intent |-> "shape",
   morphology |-> SelectMorphology(a), motion |-> SelectMotion(a), optics |-> SelectOptics(a),
   bias |-> [attack |-> IF Tempo(a.speed) < 40 THEN 700 ELSE 500,
             collapse |-> IF ClassifyIntent(a) = "manifest_error" THEN 220 ELSE 30],
   reference |-> SelectMotion(a).archetype]

\* _call_llm_for_intent, as it stands in the repository.
StubAnalysis ==
  [goal |-> {"feeling"}, tone |-> {"thinking"}, form |-> {"spiral", "spiral of contemplation"},
   speed |-> "slow"]

\* A packet is a packet, not the mark of an empty place in the cache.
ASSUME PacketAssumption ==
  \A text \in Texts, a \in Analyses \cup {StubAnalysis} : ControlPacket(text, a) # None

-----------------------------------------------------------------------------
(* parse_user_request                                                        *)

Init ==
  /\ cache = [x \in Texts |-> None] /\ events = 0
  /\ calls = [r \in Requests |-> [phase |-> "none"]]

Answer(r, text, made, packet) ==
  /\ events' = events + 1
  /\ calls' = [calls EXCEPT ![r] = [phase |-> "answered", text |-> text, packet |-> packet,
                                    made |-> made, answered |-> events + 1]]

Ask(r, text) ==
  /\ events' = events + 1
  /\ calls' = [calls EXCEPT ![r] = [phase |-> "waiting", text |-> text, made |-> events + 1]]

\* Slip: the cache is filled and never looked at.
ParseAlwaysAsks(r, text) == Ask(r, text)

Parse(r, text) ==
  IF cache[text] # None THEN Answer(r, text, events + 1, cache[text]) ELSE Ask(r, text)

ParseUserRequest(r) ==
  /\ calls[r].phase = "none"
  /\ \E text \in Texts : Parse(r, text)
  /\ UNCHANGED cache

\* Computed before the model is asked, and kept over the wait.
CacheKey(r) == calls[r].text

\* What is stored is what is returned; an answer that came in between is overwritten.
ModelAnswers(r) ==
  /\ calls[r].phase = "waiting"
  /\ \E a \in Analyses \cup {StubAnalysis} :
       LET packet == ControlPacket(calls[r].text, a)
       IN /\ cache' = [cache EXCEPT ![CacheKey(r)] = packet]
          /\ Answer(r, calls[r].text, calls[r].made, packet)

\* The exception leaves parse_user_request, and nothing is kept.
ModelFails(r) ==
  /\ calls[r].phase = "waiting"
  /\ calls' = [calls EXCEPT ![r] = [phase |-> "failed"]]
  /\ UNCHANGED <<cache, events>>

Next == \E r \in Requests : ParseUserRequest(r) \/ ModelAnswers(r) \/ ModelFails(r)

Spec == Init /\ [][Next]_vars

-----------------------------------------------------------------------------
(* Properties                                                                *)

Answered(r) == calls[r].phase = "answered"

FamilyNames == {"spiral_vortex", "sphere", "flower_shell", "wave_ribbon", "nebula_cloud",
                 "fracture_shell", "spiral_convergence"}
Archetypes == {"stabilization", "reasoning", "error", "dissolution", "emergence", "wave",
               "spiral_convergence"}

Packets ==
  [request : Texts, intent : {"shape"}, optics : ToneWords,
   goal : {"manifest_error", "dissolve", "respond_to_emotion", "visualize_concept", "create_form"},
   morphology : [family : FamilyNames, complexity : {600}, density : {700}, symmetry : {1, 3, 5}],
   motion : [archetype : Archetypes, tempo : {20, 50, 100},
             attack : 400..1200, settle : 1000..3000, release : 800..2000],
   bias : [attack : {500, 700}, collapse : {30, 220}],
   reference : Archetypes]

\* The cache keeps a packet or nothing, a call is where its phase says it is, and a packet is made
\* of the tables' entries and no others.
TypeOK ==
  /\ cache \in [Texts -> Packets \cup {None}] /\ events \in Nat
  /\ \A r \in Requests :
       \/ calls[r].phase \in {"none", "failed"}
       \/ calls[r].phase = "waiting" /\ calls[r].text \in Texts /\ calls[r].made \in 1..events
       \/ Answered(r) /\ calls[r].packet \in Packets /\ calls[r].answered \in calls[r].made..events

\* Every request is answered with a packet for its own text, whatever other requests were waiting
\* for the model at the same time, and whether or not the packet comes from the cache
\* (am_intent_interpreter.py:42-57).
AnswersFitTheirText ==
  /\ \A r \in Requests : Answered(r) => calls[r].packet.request = calls[r].text
  /\ \A x \in Texts : cache[x] # None => cache[x].request = x

\* A text once answered is answered the same from then on, unless requests for it overlapped: a
\* later request gets another answer only from a third that was already waiting when the first was
\* answered, and overwrote the cache when its own answer came (am_intent_interpreter.py:43-55).
AnswersSettle ==
  \A p, q \in Requests :
    (/\ Answered(p) /\ Answered(q) /\ calls[p].text = calls[q].text
     /\ calls[p].answered < calls[q].made /\ calls[p].packet # calls[q].packet)
    => \E s \in Requests \ {p, q} :
         /\ Answered(s) /\ calls[s].text = calls[p].text /\ calls[s].packet = calls[q].packet
         /\ calls[s].made < calls[p].answered /\ calls[p].answered < calls[s].answered

\* A part of the envelope lasts between a fifth and eight times what was asked.
Spans(drawn, asked) == drawn >= asked \div 5 /\ drawn <= 8 * asked

\* The flow is a share for tempos up to half a hertz, and for no others.
Flows(flow, tempo) == flow \in 0..8000 /\ (flow <= 1000 <=> tempo <= 50)

Drawable(packet) ==
  LET field  == RuntimeControl(packet).field
      timing == RuntimeControl(packet).timing
      motion == packet.motion
  IN /\ \A x \in {field.start, field.target, field.turbulence} : x \in 0..1000
     /\ Flows(field.flow, motion.tempo)
     /\ Spans(timing.attack, motion.attack) /\ Spans(timing.hold, motion.settle)
     /\ Spans(timing.release, motion.release)
     /\ timing.pulse \in 25..1000

Compiled == {calls[r].packet : r \in {q \in Requests : Answered(q)}} \cup HandPackets

\* Whatever the model answered, and for any packet in the schema's ranges that is handed to the
\* compiler directly: coherence and turbulence stay shares under adaptation, though nothing caps
\* turbulence; the flow is a share exactly up to half a hertz, and eight at most; no part of the
\* envelope vanishes, however slow the motion; and pulses are between a quarter of a hertz and ten
\* (am_formation_retriever.py:243-268).
CompiledIsDrawable == \A packet \in Compiled : Drawable(packet)

\* A form loses its coherence exactly when the motion asked for is a dissolution or an error: a
\* label that the book does not know never makes a form fall apart, and these two never leave one
\* standing (am_formation_retriever.py:217-230).
FallingIsAsked ==
  \A r \in Requests : Answered(r) =>
    LET field == RuntimeControl(calls[r].packet).field
    IN field.target < field.start <=> calls[r].packet.motion.archetype \in {"dissolution", "error"}

\* Answers are packets of the tables, fit their text, and settle.
AnswersAreSound == TypeOK /\ AnswersFitTheirText /\ AnswersSettle

=============================================================================
