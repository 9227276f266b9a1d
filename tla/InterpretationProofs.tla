------------------------ MODULE InterpretationProofs ------------------------
(***************************************************************************)
(* What holds of the interpreter for any number of overlapping requests,    *)
(* any texts and any answers of the model. The cache alone does not explain *)
(* an answer: the invariant also says who wrote what the cache holds, and   *)
(* that nobody waits for a text since it was first answered.                *)
(***************************************************************************)
EXTENDS Interpretation, TLAPS

-----------------------------------------------------------------------------
(* Tables                                                                    *)

\* Some places of a table of eight at most have a first one among them.
LEMMA FirstOfEight ==
  ASSUME NEW S \in SUBSET (1..8), S # {}
  PROVE  \E i \in S : \A j \in S : i <= j
<1>1. CASE 1 \in S
  BY <1>1
<1>2. CASE 1 \notin S /\ 2 \in S
  BY <1>2
<1>3. CASE 1 \notin S /\ 2 \notin S /\ 3 \in S
  BY <1>3
<1>4. CASE 1 \notin S /\ 2 \notin S /\ 3 \notin S /\ 4 \in S
  BY <1>4
<1>5. CASE 1 \notin S /\ 2 \notin S /\ 3 \notin S /\ 4 \notin S
  <2>1. S \subseteq {5, 6, 7, 8}
    BY <1>5
  <2>2. CASE 5 \in S
    BY <2>1, <2>2
  <2>3. CASE 5 \notin S /\ 6 \in S
    BY <2>1, <2>3
  <2>4. CASE 5 \notin S /\ 6 \notin S /\ 7 \in S
    BY <2>1, <2>4
  <2>5. CASE 5 \notin S /\ 6 \notin S /\ 7 \notin S
    <3>1. 8 \in S /\ \A j \in S : j = 8
      BY <2>1, <2>5
    <3> QED
      BY <3>1
  <2> QED
    BY <2>2, <2>3, <2>4, <2>5
<1> QED
  BY <1>1, <1>2, <1>3, <1>4, <1>5

\* What is looked up in a table is one of its values or the default: of the pairs that
\* match, the first is taken, and there is a first.
LEMMA FirstMatchIsKnown ==
  ASSUME NEW table, NEW n \in 1..8, DOMAIN table = 1..n, NEW words, NEW V, NEW default \in V,
         \A i \in 1..n : table[i][2] \in V
  PROVE  FirstMatch(table, words, default) \in V
<1> DEFINE hits == {i \in DOMAIN table : table[i][1] \in words}
<1>1. CASE hits = {}
  BY <1>1 DEF FirstMatch
<1>2. CASE hits # {}
  <2>1. hits \subseteq 1..n /\ hits \subseteq 1..8
    OBVIOUS
  <2> HIDE DEF hits
  <2>2. \E i \in hits : \A j \in hits : i <= j
    BY <1>2, <2>1, FirstOfEight
  <2>3. (CHOOSE i \in hits : \A j \in hits : i <= j) \in hits
    BY <2>2
  <2>4. table[CHOOSE i \in hits : \A j \in hits : i <= j][2] \in V
    BY <2>1, <2>3
  <2> QED
    BY <1>2, <2>4 DEF FirstMatch, hits
<1> QED
  BY <1>1, <1>2

LEMMA ArchetypeIsKnown ==
  ASSUME NEW words
  PROVE  FirstMatch(ArchetypeMap, words, "stabilization") \in Archetypes
<1>1. DOMAIN ArchetypeMap = 1..8
  BY DEF ArchetypeMap
<1>2. \A i \in 1..8 : ArchetypeMap[i][2] \in Archetypes
  BY DEF ArchetypeMap, Archetypes
<1>3. "stabilization" \in Archetypes /\ 8 \in 1..8
  BY DEF Archetypes
<1> QED
  BY <1>1, <1>2, <1>3, FirstMatchIsKnown

LEMMA FamilyIsKnown ==
  ASSUME NEW words
  PROVE  FirstMatch(Families, words, "sphere") \in FamilyNames
<1>1. DOMAIN Families = 1..7
  BY DEF Families
<1>2. \A i \in 1..7 : Families[i][2] \in FamilyNames
  <2>1. /\ Families[1][2] = "spiral_vortex" /\ Families[2][2] = "sphere"
        /\ Families[3][2] = "flower_shell" /\ Families[4][2] = "wave_ribbon"
        /\ Families[5][2] = "nebula_cloud" /\ Families[6][2] = "fracture_shell"
        /\ Families[7][2] = "spiral_convergence"
    BY DEF Families
  <2>2. \A i \in 1..7 : i \in {1, 2, 3, 4, 5, 6, 7}
    OBVIOUS
  <2> QED
    BY <2>1, <2>2 DEF FamilyNames
<1>3. "sphere" \in FamilyNames /\ 7 \in 1..8
  BY DEF FamilyNames
<1> QED
  BY <1>1, <1>2, <1>3, FirstMatchIsKnown

-----------------------------------------------------------------------------
(* Packets                                                                   *)

\* Every packet the interpreter can make.
Made == {ControlPacket(x, a) : x \in Texts, a \in Analyses \cup {StubAnalysis}}

\* A packet is made of the tables' entries.
LEMMA MadeIsPacket == Made \subseteq Packets
<1> SUFFICES ASSUME NEW x \in Texts, NEW a \in Analyses \cup {StubAnalysis}
             PROVE  ControlPacket(x, a) \in Packets
  BY DEF Made
<1>1. SelectMorphology(a) \in
        [family : FamilyNames, complexity : {600}, density : {700}, symmetry : {1, 3, 5}]
  BY FamilyIsKnown DEF SelectMorphology
<1>2. SelectMotion(a) \in
        [archetype : Archetypes, tempo : {20, 50, 100},
         attack : 400..1200, settle : 1000..3000, release : 800..2000]
  BY ArchetypeIsKnown DEF SelectMotion, Tempo, SpeedMap
<1>3. SelectMotion(a).archetype \in Archetypes
  BY <1>2
<1>4. SelectOptics(a) \in ToneWords
  BY DEF SelectOptics, ToneWords
<1>5. ClassifyIntent(a) \in {"manifest_error", "dissolve", "respond_to_emotion",
                              "visualize_concept", "create_form"}
  BY DEF ClassifyIntent
<1> DEFINE bias == [attack   |-> IF Tempo(a.speed) < 40 THEN 700 ELSE 500,
                    collapse |-> IF ClassifyIntent(a) = "manifest_error" THEN 220 ELSE 30]
<1>6. bias \in [attack : {500, 700}, collapse : {30, 220}]
  OBVIOUS
<1>7. ControlPacket(x, a).bias = bias /\ x \in Texts
  BY DEF ControlPacket
<1> DEFINE p == ControlPacket(x, a)
<1>8. /\ p.request \in Texts /\ p.goal = ClassifyIntent(a) /\ p.intent = "shape"
      /\ p.morphology = SelectMorphology(a) /\ p.motion = SelectMotion(a)
      /\ p.optics = SelectOptics(a) /\ p.reference = SelectMotion(a).archetype
      /\ p = [request |-> p.request, goal |-> p.goal, intent |-> p.intent,
              morphology |-> p.morphology, motion |-> p.motion, optics |-> p.optics,
              bias |-> p.bias, reference |-> p.reference]
  BY DEF ControlPacket
<1> HIDE DEF p, bias
<1>9. p.bias = bias
  BY <1>7 DEF p
<1>10. p \in Packets
  <2> DEFINE Ms == [family : FamilyNames, complexity : {600}, density : {700}, symmetry : {1, 3, 5}]
             Mo == [archetype : Archetypes, tempo : {20, 50, 100},
                    attack : 400..1200, settle : 1000..3000, release : 800..2000]
             Bi == [attack : {500, 700}, collapse : {30, 220}]
             Gs == {"manifest_error", "dissolve", "respond_to_emotion", "visualize_concept",
                    "create_form"}
  <2>1. p.morphology \in Ms
    BY ONLY <1>1, <1>8
  <2>2. p.motion \in Mo /\ p.reference \in Archetypes
    BY ONLY <1>2, <1>3, <1>8
  <2>3. p.bias \in Bi
    BY ONLY <1>6, <1>9
  <2>4. p.goal \in Gs
    BY ONLY <1>5, <1>8
  <2>5. p.optics \in ToneWords /\ p.request \in Texts
    BY ONLY <1>4, <1>8
  <2>6. Packets = [request : Texts, intent : {"shape"}, optics : ToneWords, goal : Gs,
                   morphology : Ms, motion : Mo, bias : Bi, reference : Archetypes]
    BY ONLY Packets = Packets DEF Packets
  <2> HIDE DEF Ms, Mo, Bi, Gs
  <2> QED
    BY ONLY <1>8, <2>1, <2>2, <2>3, <2>4, <2>5, <2>6
<1> QED
  BY ONLY <1>10 DEF p

-----------------------------------------------------------------------------
(* The inductive invariant                                                   *)

CallsInv ==
  /\ DOMAIN calls = Requests /\ events \in Nat
  /\ \A r \in Requests :
       \/ calls[r].phase \in {"none", "failed"}
       \/ /\ calls[r].phase = "waiting" /\ calls[r].text \in Texts
          /\ calls[r].made \in Nat \ {0} /\ calls[r].made <= events
       \/ /\ Answered(r) /\ calls[r].text \in Texts
          /\ calls[r].packet \in Made /\ calls[r].packet.request = calls[r].text
          /\ calls[r].made \in Nat \ {0} /\ calls[r].answered \in Nat
          /\ calls[r].made <= calls[r].answered /\ calls[r].answered <= events

CacheInv ==
  /\ cache \in [Texts -> Made \cup {None}]
  /\ \A x \in Texts : cache[x] # None => cache[x].request = x

\* Where a text was answered, the cache has that answer, or one that overtook it.
KeptInv ==
  \A p \in Requests : Answered(p) =>
    /\ cache[calls[p].text] # None
    /\ \/ cache[calls[p].text] = calls[p].packet
       \/ \E s \in Requests \ {p} :
            /\ Answered(s) /\ calls[s].text = calls[p].text
            /\ calls[s].packet = cache[calls[p].text]
            /\ calls[s].made < calls[p].answered /\ calls[p].answered < calls[s].answered

\* Whoever waits for a text was there before its first answer.
OverlapInv ==
  \A p, s \in Requests :
    Answered(p) /\ calls[s].phase = "waiting" /\ calls[s].text = calls[p].text
      => calls[s].made < calls[p].answered

IInv == CallsInv /\ CacheInv /\ KeptInv /\ OverlapInv /\ AnswersSettle

\* A packet carries the text it was made for.
LEMMA PacketNamesText ==
  ASSUME NEW x \in Texts, NEW a \in Analyses \cup {StubAnalysis}
  PROVE  /\ ControlPacket(x, a) \in Made /\ ControlPacket(x, a).request = x
         /\ ControlPacket(x, a) # None
<1>1. ControlPacket(x, a) \in Made
  BY DEF Made
<1>2. ControlPacket(x, a).request = x
  BY DEF ControlPacket
<1> QED
  BY <1>1, <1>2, PacketAssumption

LEMMA InitInv == Init => IInv
BY DEF Init, IInv, CallsInv, CacheInv, KeptInv, OverlapInv, AnswersSettle, Answered

\* A look into an empty cache adds a waiting request, the youngest of all.
LEMMA AskPreserves ==
  ASSUME IInv, NEW r \in Requests, NEW x \in Texts,
         calls[r].phase = "none", cache[x] = None, Ask(r, x), UNCHANGED cache
  PROVE  IInv'
<1>1. /\ calls'[r] = [phase |-> "waiting", text |-> x, made |-> events + 1]
      /\ \A p \in Requests \ {r} : calls'[p] = calls[p]
      /\ DOMAIN calls' = Requests /\ events' = events + 1 /\ cache' = cache /\ events \in Nat
  BY DEF IInv, CallsInv, Ask
<1>2. ~Answered(r)' /\ ~Answered(r) /\ \A p \in Requests \ {r} : Answered(p)' <=> Answered(p)
  BY <1>1 DEF Answered
<1>3. \A p \in Requests : Answered(p) => calls[p].text # x
  BY DEF IInv, KeptInv
<1>4. CallsInv'
  BY <1>1, <1>2 DEF IInv, CallsInv, Answered
<1>5. CacheInv'
  BY <1>1 DEF IInv, CacheInv
<1>6. KeptInv'
  <2> SUFFICES ASSUME NEW p \in Requests, Answered(p)'
               PROVE  /\ (cache[calls[p].text] # None)'
                      /\ \/ (cache[calls[p].text] = calls[p].packet)'
                         \/ \E s \in Requests \ {p} :
                              (/\ Answered(s) /\ calls[s].text = calls[p].text
                               /\ calls[s].packet = cache[calls[p].text]
                               /\ calls[s].made < calls[p].answered
                               /\ calls[p].answered < calls[s].answered)'
    BY DEF KeptInv
  <2> QED
    BY <1>1, <1>2 DEF IInv, KeptInv
<1>7. OverlapInv'
  BY <1>1, <1>2, <1>3 DEF IInv, OverlapInv
<1>8. AnswersSettle'
  <2> SUFFICES ASSUME NEW p \in Requests, NEW q \in Requests, Answered(p)', Answered(q)',
                      calls'[p].text = calls'[q].text, calls'[p].answered < calls'[q].made,
                      calls'[p].packet # calls'[q].packet
               PROVE  \E s \in Requests \ {p, q} :
                        (/\ Answered(s) /\ calls[s].text = calls[p].text
                         /\ calls[s].packet = calls[q].packet
                         /\ calls[s].made < calls[p].answered
                         /\ calls[p].answered < calls[s].answered)'
    BY DEF AnswersSettle
  <2> QED
    BY <1>1, <1>2 DEF IInv, AnswersSettle
<1> QED
  BY <1>4, <1>5, <1>6, <1>7, <1>8 DEF IInv

\* An answer from the cache is the one the cache holds, and changes nothing else.
LEMMA HitPreserves ==
  ASSUME IInv, NEW r \in Requests, NEW x \in Texts,
         calls[r].phase = "none", cache[x] # None,
         Answer(r, x, events + 1, cache[x]), UNCHANGED cache
  PROVE  IInv'
<1>1. /\ calls'[r] = [phase |-> "answered", text |-> x, packet |-> cache[x],
                      made |-> events + 1, answered |-> events + 1]
      /\ \A p \in Requests \ {r} : calls'[p] = calls[p]
      /\ DOMAIN calls' = Requests /\ events' = events + 1 /\ cache' = cache /\ events \in Nat
  BY DEF IInv, CallsInv, Answer
<1>2. Answered(r)' /\ ~Answered(r) /\ \A p \in Requests \ {r} : Answered(p)' <=> Answered(p)
  BY <1>1 DEF Answered
<1>3. CallsInv'
  BY <1>1, <1>2 DEF IInv, CallsInv, CacheInv, Answered
<1>4. CacheInv'
  BY <1>1 DEF IInv, CacheInv
<1>5. KeptInv'
  <2> SUFFICES ASSUME NEW p \in Requests, Answered(p)'
               PROVE  /\ (cache[calls[p].text] # None)'
                      /\ \/ (cache[calls[p].text] = calls[p].packet)'
                         \/ \E s \in Requests \ {p} :
                              (/\ Answered(s) /\ calls[s].text = calls[p].text
                               /\ calls[s].packet = cache[calls[p].text]
                               /\ calls[s].made < calls[p].answered
                               /\ calls[p].answered < calls[s].answered)'
    BY DEF KeptInv
  <2>1. CASE p = r
    BY <2>1, <1>1
  <2>2. CASE p # r
    BY <2>2, <1>1, <1>2 DEF IInv, KeptInv
  <2> QED
    BY <2>1, <2>2
<1>6. OverlapInv'
  <2> SUFFICES ASSUME NEW p \in Requests, NEW s \in Requests, Answered(p)',
                      calls'[s].phase = "waiting", calls'[s].text = calls'[p].text
               PROVE  calls'[s].made < calls'[p].answered
    BY DEF OverlapInv
  <2>1. s # r /\ calls'[s] = calls[s]
    BY <1>1
  <2>2. CASE p = r
    BY <2>1, <2>2, <1>1 DEF IInv, CallsInv, Answered
  <2>3. CASE p # r
    BY <2>1, <2>3, <1>1, <1>2 DEF IInv, OverlapInv
  <2> QED
    BY <2>2, <2>3
<1>7. AnswersSettle'
  <2> SUFFICES ASSUME NEW p \in Requests, NEW q \in Requests, Answered(p)', Answered(q)',
                      calls'[p].text = calls'[q].text, calls'[p].answered < calls'[q].made,
                      calls'[p].packet # calls'[q].packet
               PROVE  \E s \in Requests \ {p, q} :
                        (/\ Answered(s) /\ calls[s].text = calls[p].text
                         /\ calls[s].packet = calls[q].packet
                         /\ calls[s].made < calls[p].answered
                         /\ calls[p].answered < calls[s].answered)'
    BY DEF AnswersSettle
  <2>1. p # r
    BY <1>1, <1>2 DEF IInv, CallsInv, Answered
  <2>2. CASE q = r
    BY <2>1, <2>2, <1>1, <1>2 DEF IInv, KeptInv
  <2>3. CASE q # r
    BY <2>1, <2>3, <1>1, <1>2 DEF IInv, AnswersSettle
  <2> QED
    BY <2>2, <2>3
<1> QED
  BY <1>3, <1>4, <1>5, <1>6, <1>7 DEF IInv

\* The model's answer overtakes every answer its text had, all of them given while this
\* request was waiting.
LEMMA ModelAnswersPreserves ==
  ASSUME IInv, NEW r \in Requests, ModelAnswers(r)
  PROVE  IInv'
<1>1. PICK a \in Analyses \cup {StubAnalysis} :
        LET packet == ControlPacket(calls[r].text, a)
        IN /\ cache' = [cache EXCEPT ![calls[r].text] = packet]
           /\ Answer(r, calls[r].text, calls[r].made, packet)
  BY DEF ModelAnswers, CacheKey
<1> DEFINE x == calls[r].text
           packet == ControlPacket(x, a)
<1>2. /\ calls[r].phase = "waiting" /\ x \in Texts
      /\ calls[r].made \in Nat /\ calls[r].made <= events /\ events \in Nat
  BY DEF ModelAnswers, IInv, CallsInv, Answered
<1>3. packet \in Made /\ packet.request = x /\ packet # None
  BY <1>2, PacketNamesText
<1> HIDE DEF packet
<1>4. /\ calls'[r] = [phase |-> "answered", text |-> x, packet |-> packet,
                      made |-> calls[r].made, answered |-> events + 1]
      /\ \A p \in Requests \ {r} : calls'[p] = calls[p]
      /\ DOMAIN calls' = Requests /\ events' = events + 1
      /\ cache' = [cache EXCEPT ![x] = packet]
  BY <1>1 DEF IInv, CallsInv, Answer, packet
<1>5. Answered(r)' /\ ~Answered(r) /\ \A p \in Requests \ {r} : Answered(p)' <=> Answered(p)
  BY <1>2, <1>4 DEF Answered
<1>6. DOMAIN cache = Texts /\ cache'[x] = packet /\ \A y \in Texts \ {x} : cache'[y] = cache[y]
  BY <1>2, <1>4 DEF IInv, CacheInv
<1>7. CallsInv'
  BY <1>2, <1>3, <1>4, <1>5 DEF IInv, CallsInv, Answered
<1>8. CacheInv'
  BY <1>2, <1>3, <1>4, <1>6 DEF IInv, CacheInv
<1>9. KeptInv'
  <2> SUFFICES ASSUME NEW p \in Requests, Answered(p)'
               PROVE  /\ (cache[calls[p].text] # None)'
                      /\ \/ (cache[calls[p].text] = calls[p].packet)'
                         \/ \E s \in Requests \ {p} :
                              (/\ Answered(s) /\ calls[s].text = calls[p].text
                               /\ calls[s].packet = cache[calls[p].text]
                               /\ calls[s].made < calls[p].answered
                               /\ calls[p].answered < calls[s].answered)'
    BY DEF KeptInv
  <2>1. CASE p = r
    BY <2>1, <1>3, <1>4, <1>6
  <2>2. CASE p # r /\ calls[p].text = x
    <3>1. calls[r].made < calls[p].answered /\ calls[p].answered < events + 1
      BY <2>2, <1>2, <1>5 DEF IInv, OverlapInv, CallsInv, Answered
    <3> QED
      BY <2>2, <3>1, <1>3, <1>4, <1>5, <1>6
  <2>3. CASE p # r /\ calls[p].text # x
    <3>1. calls[p].text \in Texts \ {x}
      BY <2>3, <1>5 DEF IInv, CallsInv, Answered
    <3> QED
      BY <2>3, <3>1, <1>4, <1>5, <1>6 DEF IInv, KeptInv
  <2> QED
    BY <2>1, <2>2, <2>3
<1>10. OverlapInv'
  <2> SUFFICES ASSUME NEW p \in Requests, NEW s \in Requests, Answered(p)',
                      calls'[s].phase = "waiting", calls'[s].text = calls'[p].text
               PROVE  calls'[s].made < calls'[p].answered
    BY DEF OverlapInv
  <2>1. s # r /\ calls'[s] = calls[s]
    BY <1>4
  <2>2. CASE p = r
    BY <2>1, <2>2, <1>2, <1>4 DEF IInv, CallsInv, Answered
  <2>3. CASE p # r
    BY <2>1, <2>3, <1>4, <1>5 DEF IInv, OverlapInv
  <2> QED
    BY <2>2, <2>3
<1>11. AnswersSettle'
  <2> SUFFICES ASSUME NEW p \in Requests, NEW q \in Requests, Answered(p)', Answered(q)',
                      calls'[p].text = calls'[q].text, calls'[p].answered < calls'[q].made,
                      calls'[p].packet # calls'[q].packet
               PROVE  \E s \in Requests \ {p, q} :
                        (/\ Answered(s) /\ calls[s].text = calls[p].text
                         /\ calls[s].packet = calls[q].packet
                         /\ calls[s].made < calls[p].answered
                         /\ calls[p].answered < calls[s].answered)'
    BY DEF AnswersSettle
  <2>1. p # r
    BY <1>2, <1>4, <1>5 DEF IInv, CallsInv, Answered
  <2>2. q # r
    BY <2>1, <1>2, <1>4, <1>5 DEF IInv, OverlapInv, CallsInv, Answered
  <2> QED
    BY <2>1, <2>2, <1>4, <1>5 DEF IInv, AnswersSettle
<1> QED
  BY <1>7, <1>8, <1>9, <1>10, <1>11 DEF IInv

\* A failure leaves nothing behind.
LEMMA ModelFailsPreserves ==
  ASSUME IInv, NEW r \in Requests, ModelFails(r)
  PROVE  IInv'
<1>1. /\ calls'[r].phase = "failed" /\ calls[r].phase = "waiting"
      /\ \A p \in Requests \ {r} : calls'[p] = calls[p]
      /\ DOMAIN calls' = Requests /\ events' = events /\ cache' = cache
  BY DEF IInv, CallsInv, ModelFails
<1>2. ~Answered(r)' /\ ~Answered(r) /\ \A p \in Requests \ {r} : Answered(p)' <=> Answered(p)
  BY <1>1 DEF Answered
<1>3. CallsInv' /\ CacheInv'
  BY <1>1, <1>2 DEF IInv, CallsInv, CacheInv, Answered
<1>4. KeptInv' /\ OverlapInv'
  BY <1>1, <1>2 DEF IInv, KeptInv, OverlapInv
<1>5. AnswersSettle'
  BY <1>1, <1>2 DEF IInv, AnswersSettle
<1> QED
  BY <1>3, <1>4, <1>5 DEF IInv

LEMMA NextPreserves == IInv /\ [Next]_vars => IInv'
<1> SUFFICES ASSUME IInv, [Next]_vars PROVE IInv'
  OBVIOUS
<1>1. ASSUME NEW r \in Requests, ParseUserRequest(r) PROVE IInv'
  BY <1>1, AskPreserves, HitPreserves DEF ParseUserRequest, Parse
<1>2. ASSUME NEW r \in Requests, ModelAnswers(r) PROVE IInv'
  BY <1>2, ModelAnswersPreserves
<1>3. ASSUME NEW r \in Requests, ModelFails(r) PROVE IInv'
  BY <1>3, ModelFailsPreserves
<1>4. CASE UNCHANGED vars
  BY <1>4 DEF vars, IInv, CallsInv, CacheInv, KeptInv, OverlapInv, AnswersSettle, Answered
<1> QED
  BY <1>1, <1>2, <1>3, <1>4 DEF Next

\* The invariant holds of every reachable state.
THEOREM Invariance == Spec => []IInv
BY InitInv, NextPreserves, PTL DEF Spec

\* Every request is answered for its own text, and so does the cache keep answers.
THEOREM AnswersAlwaysFit == Spec => []AnswersFitTheirText
<1>1. IInv => AnswersFitTheirText
  BY DEF IInv, CallsInv, CacheInv, AnswersFitTheirText, Answered
<1> QED
  BY <1>1, Invariance, PTL

\* A text once answered is answered the same from then on, overlapping requests apart.
THEOREM AnswersAlwaysSettle == Spec => []AnswersSettle
<1>1. IInv => AnswersSettle
  BY DEF IInv
<1> QED
  BY <1>1, Invariance, PTL

\* The cache and the calls hold packets of the tables, and every answer is as late as its
\* request.
THEOREM TypeCorrect == Spec => []TypeOK
<1>1. IInv => TypeOK
  <2> SUFFICES ASSUME IInv PROVE TypeOK
    OBVIOUS
  <2>1. cache \in [Texts -> Packets \cup {None}]
    BY MadeIsPacket DEF IInv, CacheInv
  <2>2. ASSUME NEW r \in Requests
        PROVE  \/ calls[r].phase \in {"none", "failed"}
               \/ calls[r].phase = "waiting" /\ calls[r].text \in Texts
                  /\ calls[r].made \in 1..events
               \/ Answered(r) /\ calls[r].packet \in Packets
                  /\ calls[r].answered \in calls[r].made..events
    <3>1. CASE calls[r].phase = "waiting"
      BY <3>1 DEF IInv, CallsInv, Answered
    <3>2. CASE Answered(r)
      <4>1. calls[r].packet \in Made
        BY <3>2 DEF IInv, CallsInv, Answered
      <4>2. calls[r].answered \in calls[r].made..events
        BY <3>2 DEF IInv, CallsInv, Answered
      <4> QED
        BY <3>2, <4>1, <4>2, MadeIsPacket
    <3> QED
      BY <3>1, <3>2 DEF IInv, CallsInv
  <2> QED
    BY <2>1, <2>2 DEF TypeOK, IInv, CallsInv
<1> QED
  BY <1>1, Invariance, PTL

\* Answers are packets of the tables, fit their text, and settle.
THEOREM AnswersStaySound == Spec => []AnswersAreSound
BY TypeCorrect, AnswersAlwaysFit, AnswersAlwaysSettle, PTL DEF AnswersAreSound

-----------------------------------------------------------------------------
(* What the book makes of packets                                            *)

\* Of the formations, those of dissolution and error lose coherence, with the density
\* that the interpreter asks for; no label of the archetype map is itself an id.
LEMMA MadePacketsFallAsAsked ==
  ASSUME NEW packet \in Made
  PROVE  LET field == RuntimeControl(packet).field
         IN field.target < field.start <=> packet.motion.archetype \in {"dissolution", "error"}
<1>1. PICK x \in Texts, a \in Analyses \cup {StubAnalysis} : packet = ControlPacket(x, a)
  BY DEF Made
<1> DEFINE label == packet.motion.archetype
<1>2. /\ packet.reference = label /\ label \in Archetypes
      /\ packet.morphology.density = 700
  BY <1>1, ArchetypeIsKnown DEF ControlPacket, SelectMotion, SelectMorphology
<1>3. label \notin Ids
  BY <1>2 DEF Archetypes, Ids
<1>4. Resolve(packet) = Book[Canonical(label)]
  BY <1>2, <1>3 DEF Resolve
<1>5. /\ RuntimeControl(packet).field.start = AtMostOne(Resolve(packet).start + 105)
      /\ RuntimeControl(packet).field.target = AtMostOne(Resolve(packet).target + 105)
  BY <1>2 DEF RuntimeControl, AdaptField
<1> HIDE DEF label
<1>6. CASE label = "dissolution"
  BY <1>4, <1>5, <1>6 DEF label, Book, Ids, Canonical, Formation, AtMostOne
<1>7. CASE label = "error"
  BY <1>4, <1>5, <1>7 DEF label, Book, Ids, Canonical, Formation, AtMostOne
<1>8. CASE label = "emergence"
  BY <1>4, <1>5, <1>8 DEF label, Book, Ids, Canonical, Formation, AtMostOne
<1>9. CASE label = "reasoning"
  BY <1>4, <1>5, <1>9 DEF label, Book, Ids, Canonical, Formation, AtMostOne
<1>10. CASE label \in {"stabilization", "wave", "spiral_convergence"}
  <2>1. Canonical(label) = Calm
    BY <1>10 DEF Canonical
  <2>2. Book[Calm].start = 700 /\ Book[Calm].target = 850
    BY DEF Book, Ids, Formation, Calm
  <2>3. Resolve(packet).start = 700 /\ Resolve(packet).target = 850
    BY ONLY <1>4, <2>1, <2>2
  <2>4. RuntimeControl(packet).field.start = 805 /\ RuntimeControl(packet).field.target = 955
    BY ONLY <1>5, <2>3 DEF AtMostOne
  <2> QED
    BY <1>10, <2>4 DEF label
<1> QED
  BY <1>2, <1>6, <1>7, <1>8, <1>9, <1>10 DEF label, Archetypes

\* A form made of a request falls apart exactly when a dissolution or an error was asked for.
THEOREM FallingIsAlwaysAsked == Spec => []FallingIsAsked
<1>1. IInv => FallingIsAsked
  BY MadePacketsFallAsAsked DEF IInv, CallsInv, FallingIsAsked, Answered
<1> QED
  BY <1>1, Invariance, PTL

LEMMA BookIsBounded ==
  ASSUME NEW packet
  PROVE  /\ Resolve(packet).start \in 0..1000 /\ Resolve(packet).target \in 0..1000
         /\ Resolve(packet).turbulence \in 0..800
<1> DEFINE Entry(f) == f.start \in 0..1000 /\ f.target \in 0..1000 /\ f.turbulence \in 0..800
<1>1. Resolve(packet) \in {Book[id] : id \in Ids}
  BY DEF Resolve, Canonical, Calm, Ids
<1>2. \A id \in Ids : Entry(Book[id])
  BY DEF Book, Ids, Formation
<1> HIDE DEF Entry
<1>3. Entry(Resolve(packet))
  BY ONLY <1>1, <1>2
<1> QED
  BY ONLY <1>3 DEF Entry

\* A time scaled by a tempo of the schema is between a fifth and eight times itself.
LEMMA TimesSpan ==
  ASSUME NEW t \in Nat, NEW tempo \in 10..400
  PROVE  Spans((t * tempo) \div 50, t)
<1> DEFINE n == t * tempo
<1>1. n \in Nat /\ 10 * t <= n /\ n <= 400 * t
  BY SMTT(30)
<1>2. \A m, x \in Nat : 10 * x <= m /\ m <= 400 * x => m \div 50 >= x \div 5 /\ m \div 50 <= 8 * x
  BY SMTT(30)
<1> HIDE DEF n
<1>3. n \div 50 >= t \div 5 /\ n \div 50 <= 8 * t
  BY <1>1, <1>2
<1> QED
  BY <1>3 DEF n, Spans

\* A pulse is the reciprocal of a tempo of the schema.
LEMMA PulsesAreBounded == \A tempo \in 10..400 : 10000 \div tempo \in 25..1000
<1> SUFFICES ASSUME NEW tempo \in 10..400 PROVE 10000 \div tempo \in 25..1000
  OBVIOUS
<1> DEFINE q == 10000 \div tempo
<1>1. q \in Int /\ q * tempo <= 10000 /\ 10000 < q * tempo + tempo
  BY SMTT(30)
<1> HIDE DEF q
<1>2. q <= 1000
  <2> SUFFICES ASSUME q >= 1001 PROVE FALSE
    BY <1>1
  <2>1. q * tempo >= 1001 * 10
    BY SMTT(30), <1>1
  <2> QED
    BY <2>1, <1>1
<1>3. q >= 25
  <2> SUFFICES ASSUME q <= 24 PROVE FALSE
    BY <1>1
  <2>1. q * tempo <= 24 * tempo
    BY SMTT(30), <1>1
  <2> QED
    BY <2>1, <1>1
<1> QED
  BY <1>1, <1>2, <1>3 DEF q

\* The flow is twice the tempo.
LEMMA FlowsAreBounded == \A tempo \in 10..400 : Flows(tempo * 20, tempo)
BY DEF Flows

\* Shares stay shares.
LEMMA CappedShares == \A x \in 0..1000, n \in Nat : AtMostOne(x + n) \in 0..1000
BY DEF AtMostOne

LEMMA RoughShares == \A x \in 0..800, n \in 0..100 : x + n \in 0..1000
OBVIOUS

LEMMA DensityGains == \A d \in 0..1000 : (d * 15) \div 100 \in Nat
<1> SUFFICES ASSUME NEW d \in 0..1000 PROVE (d * 15) \div 100 \in Nat
  OBVIOUS
<1>1. d * 15 \in Nat
  OBVIOUS
<1>2. \A n \in Nat : n \div 100 \in Nat
  BY SMTT(60)
<1> QED
  BY <1>1, <1>2

LEMMA ComplexityRoughens == \A d \in 0..1000 : d \div 10 \in 0..100
BY SMTT(60)

LEMMA CompilesToDrawable ==
  ASSUME NEW packet, MeetsSchema(packet)
  PROVE  Drawable(packet)
<1>0. /\ packet.morphology.density \in 0..1000 /\ packet.morphology.complexity \in 0..1000
      /\ packet.motion.tempo \in 10..400
      /\ packet.motion.attack \in Nat /\ packet.motion.settle \in Nat /\ packet.motion.release \in Nat
  BY DEF MeetsSchema
<1> DEFINE base  == Resolve(packet)
           start == base.start
           target == base.target
           turbulence == base.turbulence
           gain  == (packet.morphology.density * 15) \div 100
           rough == packet.morphology.complexity \div 10
<1>1. start \in 0..1000 /\ target \in 0..1000 /\ turbulence \in 0..800
  BY ONLY BookIsBounded
<1>2. gain \in Nat
  BY <1>0, DensityGains
<1>3. rough \in 0..100
  BY <1>0, ComplexityRoughens
<1>4. /\ Spans((packet.motion.attack * packet.motion.tempo) \div 50, packet.motion.attack)
      /\ Spans((packet.motion.settle * packet.motion.tempo) \div 50, packet.motion.settle)
      /\ Spans((packet.motion.release * packet.motion.tempo) \div 50, packet.motion.release)
  BY ONLY <1>0, TimesSpan
<1>9. Flows(packet.motion.tempo * 20, packet.motion.tempo)
  <2> DEFINE tempo == packet.motion.tempo
  <2>1. tempo \in 10..400
    BY ONLY <1>0
  <2> HIDE DEF tempo
  <2>2. Flows(tempo * 20, tempo)
    BY ONLY <2>1, FlowsAreBounded
  <2> QED
    BY ONLY <2>2 DEF tempo
<1> DEFINE pulse == 10000 \div packet.motion.tempo
<1>13. pulse \in 25..1000
  <2> DEFINE tempo == packet.motion.tempo
  <2>1. tempo \in 10..400
    BY ONLY <1>0
  <2> HIDE DEF tempo
  <2>2. 10000 \div tempo \in 25..1000
    BY ONLY <2>1, PulsesAreBounded
  <2> QED
    BY ONLY <2>2 DEF tempo, pulse
<1>5. /\ AtMostOne(start + gain) \in 0..1000 /\ AtMostOne(target + gain) \in 0..1000
      /\ turbulence + rough \in 0..1000
  <2> DEFINE S == 0..1000
  <2> HIDE DEF start, target, turbulence, gain, rough
  <2>1. start \in S /\ target \in S
    BY ONLY <1>1
  <2>2. (\A x \in S, n \in Nat : AtMostOne(x + n) \in S)
        /\ (\A x \in 0..800, n \in 0..100 : x + n \in S)
    BY ONLY CappedShares, RoughShares
  <2> HIDE DEF S
  <2>3. AtMostOne(start + gain) \in S
    BY ONLY <1>2, <2>1, <2>2, Zenon
  <2>4. AtMostOne(target + gain) \in S
    BY ONLY <1>2, <2>1, <2>2, Zenon
  <2>5. turbulence + rough \in S
    BY ONLY <1>1, <1>3, <2>2
  <2> QED
    BY ONLY <2>3, <2>4, <2>5 DEF S
<1> DEFINE control == RuntimeControl(packet)
<1>6. /\ control.field.start = AtMostOne(start + gain)
      /\ control.field.target = AtMostOne(target + gain)
      /\ control.field.turbulence = turbulence + rough
      /\ control.timing.attack = (packet.motion.attack * packet.motion.tempo) \div 50
      /\ control.timing.hold = (packet.motion.settle * packet.motion.tempo) \div 50
      /\ control.timing.release = (packet.motion.release * packet.motion.tempo) \div 50
  BY DEF RuntimeControl, AdaptField, AdaptTiming
<1>11. control.field.flow = packet.motion.tempo * 20
  BY DEF RuntimeControl, AdaptField
<1>12. control.timing.pulse = pulse
  BY DEF RuntimeControl, AdaptTiming
<1> HIDE DEF start, target, turbulence, gain, rough, control, pulse
<1>7. \A x \in {control.field.start, control.field.target, control.field.turbulence} : x \in 0..1000
  <2> DEFINE S == 0..1000
  <2>1. AtMostOne(start + gain) \in S /\ AtMostOne(target + gain) \in S
        /\ turbulence + rough \in S
    BY ONLY <1>5
  <2> HIDE DEF S
  <2>2. control.field.start \in S /\ control.field.target \in S /\ control.field.turbulence \in S
    BY ONLY <1>6, <2>1, Zenon
  <2>3. \A x \in {control.field.start, control.field.target, control.field.turbulence} : x \in S
    BY ONLY <2>2, Zenon
  <2> QED
    BY ONLY <2>3 DEF S
<1>8. /\ Spans(control.timing.attack, packet.motion.attack)
      /\ Spans(control.timing.hold, packet.motion.settle)
      /\ Spans(control.timing.release, packet.motion.release)
  BY ONLY <1>4, <1>6, Zenon
<1>10. Flows(control.field.flow, packet.motion.tempo)
  BY ONLY <1>9, <1>11
<1>14. control.timing.pulse \in 25..1000
  BY ONLY <1>12, <1>13
<1> QED
  BY ONLY <1>7, <1>8, <1>10, <1>14 DEF Drawable, control

LEMMA PacketsAreReadable ==
  ASSUME NEW packet \in Packets
  PROVE  Drawable(packet)
<1> DEFINE attack  == packet.motion.attack
           settle  == packet.motion.settle
           release == packet.motion.release
           tempo   == packet.motion.tempo
           density == packet.morphology.density
           complexity == packet.morphology.complexity
<1>1. packet.morphology \in
        [family : FamilyNames, complexity : {600}, density : {700}, symmetry : {1, 3, 5}]
  BY DEF Packets
<1>2. packet.motion \in
        [archetype : Archetypes, tempo : {20, 50, 100},
         attack : 400..1200, settle : 1000..3000, release : 800..2000]
  BY DEF Packets
<1>3. density \in 0..1000 /\ complexity \in 0..1000
  <2>1. density = 700 /\ complexity = 600
    BY ONLY <1>1
  <2> QED
    BY ONLY <2>1
<1>4. tempo \in 10..400
  <2>1. tempo \in {20, 50, 100}
    BY ONLY <1>2
  <2> QED
    BY ONLY <2>1
<1>5. attack \in Nat /\ attack >= 50
  <2>1. attack \in 400..1200
    BY ONLY <1>2
  <2> HIDE DEF attack
  <2> QED
    BY ONLY <2>1
<1>6. settle \in Nat /\ settle >= 50
  <2>1. settle \in 1000..3000
    BY ONLY <1>2
  <2> HIDE DEF settle
  <2> QED
    BY ONLY <2>1
<1>7. release \in Nat /\ release >= 50
  <2>1. release \in 800..2000
    BY ONLY <1>2
  <2> HIDE DEF release
  <2> QED
    BY ONLY <2>1
<1>8. MeetsSchema(packet)
  BY ONLY <1>3, <1>4, <1>5, <1>6, <1>7 DEF MeetsSchema
<1> QED
  BY ONLY <1>8, CompilesToDrawable

\* Whatever was asked and answered, and for any packets in the schema's ranges that are handed
\* over, what is compiled is in the ranges CompiledIsDrawable says: shares stay shares but for the
\* flow, and times neither vanish nor explode (_adapt_field_parameters, _adapt_timing).
THEOREM CompiledStaysDrawable == Spec => []CompiledIsDrawable
<1>1. \A packet \in HandPackets : Drawable(packet)
  BY HandPacketAssumption, CompilesToDrawable
<1>2. TypeOK => CompiledIsDrawable
  BY <1>1, PacketsAreReadable DEF TypeOK, Answered, CompiledIsDrawable, Compiled
<1> QED
  BY <1>2, TypeCorrect, PTL

=============================================================================
