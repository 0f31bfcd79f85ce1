-------------------------- MODULE AssessmentProofs --------------------------
(***************************************************************************)
(* Proofs, for all records and all days: what the adapter derives          *)
(* authorizes nothing, assessments replay, pursuit rests on Verified       *)
(* evidence, and a better input is recommended no lower but for one step.  *)
(***************************************************************************)
EXTENDS AssessmentProperties, FiniteSetTheorems, WellFoundedInduction, TLAPS

-----------------------------------------------------------------------------
(* The engine.                                                             *)

\* Less than 45 points never come to more than Hold.
LEMMA LowScores ==
  ASSUME NEW score \in Int, score < 4500, NEW confidence, NEW gates, NEW constraints
  PROVE  Recommend(score, confidence, gates, constraints) \in {"Hold", "Reject"}
BY DEF Recommend, Band

\* A provisional gate rules out pursuit.
LEMMA ProvisionalGates ==
  ASSUME NEW score \in Int, NEW confidence, NEW gates, NEW constraints,
         NEW k \in DOMAIN gates, gates[k] = "provisional"
  PROVE  Recommend(score, confidence, gates, constraints) # "Pursue"
BY DEF Recommend, Band

\* A band never loses by a higher score or by more confidence.
LEMMA BandIsMonotone ==
  ASSUME NEW s \in Int, NEW t \in Int, s <= t,
         NEW sure \in BOOLEAN, NEW surer \in BOOLEAN, sure => surer
  PROVE  DecisionRank[Band(s, sure)] <= DecisionRank[Band(t, surer)]
BY DEF Band, DecisionRank

\* With a score, a confidence and gates that are no worse, and no more fatal
\* constraints, the recommendation is no lower (engine.py _recommend), unless
\* what held the opportunity is gone and it scores below 25.
THEOREM RecommendIsMonotone ==
  ASSUME NEW s \in Int, NEW t \in Int, s <= t,
         NEW c, NEW d, c = "High" => d = "High",
         NEW K, NEW G \in [K -> {"fail", "provisional", "pass"}],
         NEW H \in [K -> {"fail", "provisional", "pass"}],
         \A k \in K : GateRank[G[k]] <= GateRank[H[k]],
         NEW C, NEW D, D \subseteq C
  PROVE  \/ DecisionRank[Recommend(s, c, G, C)] <= DecisionRank[Recommend(t, d, H, D)]
         \/ /\ Recommend(s, c, G, C) = "Hold"
            /\ "hold" \in C \/ Failed(G)
            /\ t < 2500
<1> DEFINE low == /\ c = "High"
                  /\ \A k \in DOMAIN G : G[k] = "pass"
           high == /\ d = "High"
                   /\ \A k \in DOMAIN H : H[k] = "pass"
<1>1. low \in BOOLEAN /\ high \in BOOLEAN
  OBVIOUS
<1>2. low => high
  BY DEF GateRank
<1>3. Failed(H) => Failed(G)
  BY DEF Failed, GateRank
<1>4. DecisionRank[Band(s, low)] <= DecisionRank[Band(t, high)]
  BY <1>1, <1>2, BandIsMonotone
<1>5. /\ Recommend(s, c, G, C) = IF "reject" \in C THEN "Reject"
                                 ELSE IF "hold" \in C \/ Failed(G) THEN "Hold"
                                 ELSE Band(s, low)
      /\ Recommend(t, d, H, D) = IF "reject" \in D THEN "Reject"
                                 ELSE IF "hold" \in D \/ Failed(H) THEN "Hold"
                                 ELSE Band(t, high)
  BY DEF Recommend
<1>6. /\ Band(t, high) \in {"Reject", "Hold", "Monitor", "Validate", "Pursue"}
      /\ Band(t, high) = "Reject" => t < 2500
  BY DEF Band
<1> HIDE DEF low, high
<1>7. CASE "reject" \in C
  BY <1>5, <1>6, <1>7 DEF DecisionRank
<1>8. CASE "reject" \notin C /\ ("hold" \in C \/ Failed(G))
  BY <1>5, <1>6, <1>8 DEF DecisionRank
<1>9. CASE "reject" \notin C /\ ~("hold" \in C \/ Failed(G))
  BY <1>3, <1>4, <1>5, <1>9
<1> QED  BY <1>7, <1>8, <1>9

\* Only an input without a date depends on the day.
LEMMA DatedInputs ==
  ASSUME NEW input, input.date # NoDate, NEW one, NEW other
  PROVE  Analyze(input, one) = Analyze(input, other)
BY DEF Analyze, LifecycleGate

-----------------------------------------------------------------------------
(* The adapter.                                                            *)

\* What a review found is counted.
Counted(output) ==
  output.unknowns \in Nat /\ output.missing \in Nat /\ output.risks \in Nat

LEMMA CountsAreNumbers == ASSUME NEW b PROVE Count(b) \in {0, 1}
BY DEF Count

LEMMA FindingsAreCounted == Counted(Findings)
BY CountsAreNumbers DEF Findings, Counted

LEMMA RiskScores ==
  ASSUME NEW n \in Nat
  PROVE  RiskScore(n) \in Int /\ RiskScore(n) <= 30
<1> DEFINE h == 300 - 25 * n
<1>1. h \in Int /\ h <= 300
  OBVIOUS
<1>2. h \div 10 \in Int /\ h \div 10 <= 30 /\ (h \div 10 = 30 => h = 300 \/ h % 10 # 5)
  OBVIOUS
<1>3. (h \div 10) % 2 \in {0, 1}
  BY <1>2
<1>4. h \div 10 <= 29 \/ h % 10 # 5
  BY <1>1, <1>2
<1> QED  BY <1>2, <1>3, <1>4 DEF RiskScore

\* The best the adapter derives is 41 points.
LEMMA DerivedScores ==
  ASSUME NEW output, Counted(output), ~opportunity.dimensions.given
  PROVE  /\ Score(EngineScores(output)) \in Int
         /\ Score(EngineScores(output)) <= 4100
<1>1. output.unknowns + output.risks + output.missing \in Nat
  BY DEF Counted
<1> DEFINE risk == RiskScore(output.unknowns + output.risks + output.missing)
<1>2. risk \in Int /\ risk <= 30
  BY <1>1, RiskScores
<1> HIDE DEF risk
<1>3. EngineScores(output) =
        [problem_evidence |->
           IF Active # {} /\ opportunity.problem # "none" THEN 15 ELSE 5,
         authority_clarity |-> IF opportunity.organization THEN 20 ELSE 5,
         technical_fit |-> 20,
         funding_path |-> IF Funded THEN 25 ELSE 5,
         strategic_alignment |-> IF opportunity.strategic THEN 30 ELSE 15,
         differentiated_advantage |-> 15,
         delivery_readiness |-> 10,
         risk_position |-> risk]
  BY DEF EngineScores, risk
<1> QED  BY <1>2, <1>3 DEF Score

-----------------------------------------------------------------------------
(* The invariant.                                                          *)

\* A result does not depend on the day it is computed on.
Timeless ==
  Operational =>
    \A day : OperationalResult(assessment.input, assessment.output, day)
               = assessment.result

AssessmentInv ==
  /\ DOMAIN review = {"current", "output"}
  /\ Counted(review.output)
  /\ DefaultsNeverAuthorize
  /\ Timeless

LEMMA TimelessReplays == Timeless => ReplayReproduces
BY DEF Timeless, ReplayReproduces, ReplayMatches

\* The adapter gives every input a date.
LEMMA InputsAreDated ==
  ASSUME NEW output
  PROVE  EngineInput(output).date # NoDate
<1>1. EngineInput(output).date = AssessmentDate
  BY DEF EngineInput
<1>2. EffectiveDate \in Nat
  BY AssessmentAssumption
<1>3. CASE opportunity.assessment_date >= 0
  <2>1. AssessmentDate = opportunity.assessment_date
    BY <1>3 DEF AssessmentDate
  <2>2. ~(-1 >= 0)
    OBVIOUS
  <2> QED  BY <1>1, <1>3, <2>1, <2>2 DEF NoDate
<1>4. CASE ~(opportunity.assessment_date >= 0)
  BY <1>1, <1>2, <1>4 DEF AssessmentDate, NoDate
<1> QED  BY <1>3, <1>4

\* What the adapter makes of derived dimensions and gates.
LEMMA DerivedInputs ==
  ASSUME NEW output, Counted(output), NEW day
  PROVE  /\ ~opportunity.dimensions.given =>
              Analyze(EngineInput(output), day).decision \in {"Hold", "Reject"}
         /\ ~opportunity.gates.given /\ Score(EngineInput(output).scores) \in Int =>
              Analyze(EngineInput(output), day).decision # "Pursue"
<1> DEFINE input == EngineInput(output)
           gates == [k \in GateKeys \union {"L"} |->
                       IF k = "L" THEN LifecycleGate(input, day) ELSE input.gates[k]]
<1>1. Analyze(EngineInput(output), day).decision =
        Recommend(Score(input.scores), Confidence(input.evidence), gates,
                  input.constraints)
  BY DEF Analyze
<1>2. /\ input.scores = EngineScores(output) /\ input.gates = EngineGates(output)
      /\ EngineInput(output).scores = input.scores
  BY DEF EngineInput
<1> HIDE DEF input
<1>3. ASSUME ~opportunity.dimensions.given
      PROVE  Analyze(EngineInput(output), day).decision \in {"Hold", "Reject"}
  <2>1. Score(input.scores) \in Int /\ Score(input.scores) < 4500
    BY <1>2, <1>3, DerivedScores
  <2> HIDE DEF gates
  <2> QED  BY <1>1, <2>1, LowScores
<1>4. ASSUME ~opportunity.gates.given, Score(EngineInput(output).scores) \in Int
      PROVE  Analyze(EngineInput(output), day).decision # "Pursue"
  <2>1. input.gates["T"] = "provisional"
    BY <1>2, <1>4 DEF EngineGates
  <2>2. "T" \in DOMAIN gates /\ gates["T"] = "provisional"
    BY <2>1 DEF GateKeys
  <2>3. Score(input.scores) \in Int
    BY <1>2, <1>4
  <2> HIDE DEF gates
  <2> QED  BY <1>1, <2>2, <2>3, ProvisionalGates
<1> QED  BY <1>3, <1>4

\* A valid input has a score.
LEMMA ValidInputsScore ==
  ASSUME NEW input, Valid(input)
  PROVE  Score(input.scores) \in Int
<1> DEFINE s == input.scores
<1>1. \A d \in Dimensions : s[d] \in Int
  <2>1. \A d \in Dimensions : s[d] \in 0..50
    BY DEF Valid
  <2> QED  BY <2>1
<1>2. /\ s.problem_evidence \in Int /\ s.authority_clarity \in Int
      /\ s.technical_fit \in Int /\ s.funding_path \in Int
      /\ s.strategic_alignment \in Int /\ s.differentiated_advantage \in Int
      /\ s.delivery_readiness \in Int /\ s.risk_position \in Int
  BY <1>1 DEF Dimensions
<1> HIDE DEF s
<1>3. Score(s) \in Int
  BY <1>2 DEF Score
<1> QED  BY <1>3 DEF s

\* Changes to the records leave the assessment alone.
LEMMA ChangedKeeps ==
  ASSUME AssessmentInv, Changed
  PROVE  AssessmentInv'
<1>1. assessment' = assessment /\ review' = [review EXCEPT !.current = FALSE]
  BY DEF Changed
<1>2. DOMAIN review' = {"current", "output"} /\ review'.output = review.output
  BY <1>1 DEF AssessmentInv
<1> QED  BY <1>1, <1>2
         DEF AssessmentInv, Counted, DefaultsNeverAuthorize, Timeless, Operational, Outcome

LEMMA AssessKeeps ==
  ASSUME AssessmentInv, RunSpatialAssessment
  PROVE  AssessmentInv'
<1> DEFINE input == EngineInput(review.output)
<1>1. /\ Valid(input)
      /\ review' = review
      /\ assessment' = [kind |-> "spatial_lifecycle",
                        input |-> input,
                        output |-> review.output,
                        derived |-> [dimensions |-> ~opportunity.dimensions.given,
                                     gates |-> ~opportunity.gates.given],
                        result |-> OperationalResult(input, review.output, today)]
  BY DEF RunSpatialAssessment
<1>2. Counted(review.output)
  BY DEF AssessmentInv
<1>3. Outcome(assessment)' = Analyze(input, today)
  BY <1>1 DEF Outcome, OperationalResult
<1>4. DefaultsNeverAuthorize'
  <2>1. Score(input.scores) \in Int
    BY <1>1, ValidInputsScore
  <2>2. /\ assessment'.derived.dimensions = ~opportunity.dimensions.given
        /\ assessment'.derived.gates = ~opportunity.gates.given
    BY <1>1
  <2> QED  BY <1>2, <1>3, <2>1, <2>2, DerivedInputs DEF DefaultsNeverAuthorize
<1>5. Timeless'
  <2>1. input.date # NoDate
    BY InputsAreDated
  <2> HIDE DEF input
  <2>2. \A day : OperationalResult(input, review.output, day)
                  = OperationalResult(input, review.output, today)
    BY <2>1, DatedInputs DEF OperationalResult
  <2> QED  BY <1>1, <2>2 DEF Timeless
<1> QED  BY <1>1, <1>2, <1>4, <1>5 DEF AssessmentInv, Counted

LEMMA AssessmentInvInductive == AssessmentInv /\ [Next]_vars => AssessmentInv'
<1> SUFFICES ASSUME AssessmentInv, [Next]_vars
             PROVE  AssessmentInv'
  OBVIOUS
<1> USE DEF AssessmentInv
<1>1. ASSUME Changed PROVE AssessmentInv'
  BY <1>1, ChangedKeeps
<1>2. CASE \/ EditOpportunity \/ UpdateOpportunity
           \/ \E id \in Ids : \/ CreateEvidence(id) \/ CreateManagedEvidence(id)
                              \/ UpdateManagedEvidence(id) \/ PatchEvidence(id)
                              \/ VerifyEvidence(id) \/ ArchiveEvidence(id)
  <2>1. Changed
    BY <1>2 DEF EditOpportunity, UpdateOpportunity, CreateEvidence,
                CreateManagedEvidence, UpdateManagedEvidence, PatchEvidence,
                VerifyEvidence, ArchiveEvidence
  <2> QED  BY <1>1, <2>1
<1>3. CASE RunKnowledgeReview
  <2>1. /\ review' = [current |-> TRUE, output |-> Findings]
        /\ assessment' = assessment
    BY <1>3 DEF RunKnowledgeReview
  <2> QED  BY <2>1, FindingsAreCounted
           DEF Counted, DefaultsNeverAuthorize, Timeless, Operational, Outcome
<1>4. CASE RunSpatialAssessment
  BY <1>4, AssessKeeps
<1>5. CASE RunAssessment
  <2>1. review' = review /\ assessment'.kind = "legacy"
    BY <1>5 DEF RunAssessment, Bare
  <2> QED  BY <2>1 DEF Counted, DefaultsNeverAuthorize, Timeless, Operational
<1>6. CASE Revalidate
  <2>1. /\ review' = [review EXCEPT !.current = FALSE]
        /\ assessment' = assessment \/ assessment'.kind = "legacy"
    BY <1>6 DEF Revalidate, Bare
  <2>2. DOMAIN review' = {"current", "output"} /\ review'.output = review.output
    BY <2>1
  <2>3. Counted(review.output)'
    BY <2>2 DEF Counted
  <2>4. CASE assessment' = assessment
    BY <2>2, <2>3, <2>4 DEF DefaultsNeverAuthorize, Timeless, Operational, Outcome
  <2>5. CASE assessment'.kind = "legacy"
    BY <2>2, <2>3, <2>5 DEF DefaultsNeverAuthorize, Timeless, Operational
  <2> QED  BY <2>1, <2>4, <2>5
<1>7. CASE Tick \/ UNCHANGED vars
  <2>1. review' = review /\ assessment' = assessment
    BY <1>7 DEF Tick, vars
  <2> QED  BY <2>1 DEF Counted, DefaultsNeverAuthorize, Timeless, Operational, Outcome
<1> QED  BY <1>2, <1>3, <1>4, <1>5, <1>6, <1>7 DEF Next

LEMMA AssessmentInvInit == Init => AssessmentInv
BY DEF Init, AssessmentInv, Counted, DefaultsNeverAuthorize, Timeless, Operational

\* Whatever is on file, and for any number of changes: what the adapter
\* derives comes to Hold or Reject, and derived gates never to Pursue.
THEOREM DefaultsAreConservative == Spec => []DefaultsNeverAuthorize
<1>1. AssessmentInv => DefaultsNeverAuthorize
  BY DEF AssessmentInv
<1> QED  BY <1>1, AssessmentInvInit, AssessmentInvInductive, PTL DEF Spec

\* An assessment replays to what it was on every later day.
THEOREM AssessmentsReplay == Spec => []ReplayReproduces
<1>1. AssessmentInv => ReplayReproduces
  BY TimelessReplays DEF AssessmentInv
<1> QED  BY <1>1, AssessmentInvInit, AssessmentInvInductive, PTL DEF Spec

-----------------------------------------------------------------------------
(***************************************************************************)
(* The sum over the evidence.  MapThenSumSet chooses a function that takes *)
(* one element after the other from a set; it exists for every finite set, *)
(* because there is no least cardinality at which it does not.             *)
(***************************************************************************)

Points(E, id) == EvidenceConfidence[E[id].state]

Pick(S) == CHOOSE x \in S : TRUE

\* What MapThenSumSet chooses.
Sums(E, S, g) ==
  g = [s \in SUBSET S |-> IF s = {} THEN 0
                          ELSE Points(E, Pick(s)) + g[s \ {Pick(s)}]]

Total(E, S) == MapThenSumSet(LAMBDA id : EvidenceConfidence[E[id].state], S)

LEMMA TotalIs ==
  ASSUME NEW E, NEW S
  PROVE  Total(E, S) = (CHOOSE g : Sums(E, S, g))[S]
BY DEF Total, MapThenSumSet, MapThenFoldSet, Sums, Points, Pick

LEMMA PickIsOne == \A S : S # {} => Pick(S) \in S
BY DEF Pick

\* The sums of subsets of n elements at most.
Small(S, n) == {s \in SUBSET S : Cardinality(s) <= n}

SumsTo(E, S, n, g) ==
  g = [s \in Small(S, n) |-> IF s = {} THEN 0
                             ELSE Points(E, Pick(s)) + g[s \ {Pick(s)}]]

LEMMA SumsStart ==
  ASSUME NEW E, NEW S, IsFiniteSet(S)
  PROVE  \E g : SumsTo(E, S, 0, g)
<1>1. \A s \in Small(S, 0) : s = {}
  BY FS_Subset, FS_EmptySet, FS_CardinalityType DEF Small
<1>2. PICK g : g = [s \in Small(S, 0) |-> 0]
  OBVIOUS
<1> QED  BY <1>1, <1>2 DEF SumsTo

\* The sums of one element more.
LEMMA SumsGo ==
  ASSUME NEW E, NEW S, IsFiniteSet(S), NEW n \in Nat, NEW g, SumsTo(E, S, n, g)
  PROVE  \E h : SumsTo(E, S, n + 1, h)
<1> DEFINE Longer(s) == IF s = {} THEN 0 ELSE Points(E, Pick(s)) + g[s \ {Pick(s)}]
<1>1. PICK h : h = [s \in Small(S, n + 1) |-> Longer(s)]
  OBVIOUS
<1>2. ASSUME NEW s \in Small(S, n + 1), s # {}
      PROVE  s \ {Pick(s)} \in Small(S, n)
  <2>1. s \subseteq S /\ IsFiniteSet(s) /\ Pick(s) \in s /\ Cardinality(s) <= n + 1
    BY <1>2, FS_Subset, PickIsOne DEF Small
  <2>2. Cardinality(s \ {Pick(s)}) = Cardinality(s) - 1 /\ Cardinality(s) \in Nat
    BY <2>1, FS_RemoveElement, FS_CardinalityType
  <2>3. Cardinality(s \ {Pick(s)}) <= n
    BY <2>1, <2>2
  <2>4. s \ {Pick(s)} \subseteq S
    BY <2>1
  <2> QED  BY <2>3, <2>4 DEF Small
<1>3. ASSUME NEW s \in Small(S, n)
      PROVE  g[s] = Longer(s) /\ s \in Small(S, n + 1)
  <2>1. s \in Small(S, n + 1)
    BY <1>3, FS_Subset, FS_CardinalityType DEF Small
  <2> QED  BY <1>3, <2>1 DEF SumsTo
<1>4. ASSUME NEW s \in Small(S, n + 1)
      PROVE  Longer(s) = IF s = {} THEN 0 ELSE Points(E, Pick(s)) + h[s \ {Pick(s)}]
  <2>1. CASE s # {}
    <3>1. s \ {Pick(s)} \in Small(S, n)
      BY <1>2, <2>1
    <3>2. h[s \ {Pick(s)}] = g[s \ {Pick(s)}]
      BY <1>1, <1>3, <3>1
    <3> QED  BY <2>1, <3>2
  <2> QED  BY <2>1
<1> HIDE DEF Longer
<1>5. h = [s \in Small(S, n + 1) |-> IF s = {} THEN 0
                                     ELSE Points(E, Pick(s)) + h[s \ {Pick(s)}]]
  BY <1>1, <1>4
<1> QED  BY <1>5 DEF SumsTo

\* A set of numbers has a member that is zero or whose predecessor it lacks.
LEMMA LeastNumber ==
  ASSUME NEW T, T \subseteq Nat, T # {}
  PROVE  \E n \in T : n = 0 \/ n - 1 \in Nat \ T
<1>1. PICK n \in T : \A m \in T : ~(<<m, n>> \in OpToRel(<, Nat))
  BY NatLessThanWellFounded, WFMin
<1>2. ASSUME n # 0, n - 1 \in T PROVE FALSE
  <2>1. n - 1 \in Nat /\ n - 1 < n /\ n \in Nat
    BY <1>2
  <2>2. <<n - 1, n>> \in Nat \X Nat
    BY <2>1
  <2> QED  BY <1>1, <1>2, <2>1, <2>2 DEF OpToRel
<1>3. n \in Nat
  OBVIOUS
<1> QED  BY <1>2, <1>3

LEMMA SumsReach ==
  ASSUME NEW E, NEW S, IsFiniteSet(S)
  PROVE  \A n \in Nat : \E g : SumsTo(E, S, n, g)
<1> DEFINE T == {n \in Nat : ~\E g : SumsTo(E, S, n, g)}
<1>1. ASSUME T # {} PROVE FALSE
  <2>1. PICK n \in T : n = 0 \/ n - 1 \in Nat \ T
    BY <1>1, LeastNumber
  <2>2. CASE n = 0
    BY <2>2, SumsStart
  <2>3. CASE n - 1 \in Nat \ T
    <3>1. PICK m \in Nat : m = n - 1 /\ \E g : SumsTo(E, S, m, g)
      BY <2>3
    <3>2. \E h : SumsTo(E, S, m + 1, h)
      BY <3>1, SumsGo
    <3>3. m + 1 = n
      BY <3>1
    <3> QED  BY <3>2, <3>3
  <2> QED  BY <2>1, <2>2, <2>3
<1> QED  BY <1>1

\* The total is such a sum.
LEMMA TotalSums ==
  ASSUME NEW E, NEW S, IsFiniteSet(S)
  PROVE  \E g : Sums(E, S, g) /\ Total(E, S) = g[S]
<1>1. Cardinality(S) \in Nat
  BY FS_CardinalityType
<1>2. PICK g : SumsTo(E, S, Cardinality(S), g)
  BY <1>1, SumsReach
<1>3. Small(S, Cardinality(S)) = SUBSET S
  BY FS_Subset DEF Small
<1>4. Sums(E, S, g)
  BY <1>2, <1>3 DEF Sums, SumsTo
<1>5. Sums(E, S, CHOOSE h : Sums(E, S, h))
  BY <1>4
<1> QED  BY <1>5, TotalIs

\* Of subsets that a property excludes, one has only lost what it does not.
LEMMA LeastSubset ==
  ASSUME NEW S, IsFiniteSet(S), NEW B, B \subseteq SUBSET S, B # {}
  PROVE  \E s \in B : s = {} \/ s \ {Pick(s)} \in (SUBSET S) \ B
<1> DEFINE T == {Cardinality(s) : s \in B}
<1>1. \A s \in SUBSET S : IsFiniteSet(s) /\ Cardinality(s) \in Nat
  BY FS_Subset, FS_CardinalityType
<1>2. T \subseteq Nat /\ T # {}
  BY <1>1
<1>3. PICK n \in T : n = 0 \/ n - 1 \in Nat \ T
  BY <1>2, LeastNumber
<1>4. PICK s \in B : Cardinality(s) = n
  BY <1>3
<1>5. IsFiniteSet(s) /\ s \subseteq S
  BY <1>1
<1>6. CASE n = 0
  BY <1>4, <1>5, <1>6, FS_EmptySet
<1>7. CASE n # 0
  <2>1. s # {}
    BY <1>4, <1>7, FS_EmptySet
  <2>2. Cardinality(s \ {Pick(s)}) = n - 1
    BY <1>4, <1>5, <2>1, PickIsOne, FS_RemoveElement
  <2>3. n - 1 \notin T
    BY <1>3, <1>7
  <2>4. s \ {Pick(s)} \notin B
    BY <2>2, <2>3
  <2> QED  BY <1>5, <2>4
<1> QED  BY <1>6, <1>7

AddsUp(E, S, g) ==
  /\ g[{}] = 0
  /\ \A s \in SUBSET S : s # {} => g[s] = Points(E, Pick(s)) + g[s \ {Pick(s)}]

LEMMA SumsStep ==
  ASSUME NEW E, NEW S, NEW g, Sums(E, S, g)
  PROVE  AddsUp(E, S, g)
<1>1. \A s \in SUBSET S :
        g[s] = IF s = {} THEN 0 ELSE Points(E, Pick(s)) + g[s \ {Pick(s)}]
  BY DEF Sums
<1> QED  BY <1>1 DEF AddsUp

LEMMA PointsAre ==
  ASSUME NEW E, NEW id, E[id].state \in EvidenceStates
  PROVE  Points(E, id) \in Nat /\ (E[id].state # "V" => Points(E, id) <= 15)
BY DEF Points, EvidenceConfidence, EvidenceStates

\* Evidence none of which is Verified comes to 15 twentieths at most.
LEMMA WithoutVerified ==
  ASSUME NEW E, NEW S, IsFiniteSet(S),
         \A id \in S : E[id].state \in EvidenceStates \ {"V"}
  PROVE  Total(E, S) \in Nat /\ Total(E, S) <= 15 * Cardinality(S)
<1>1. PICK g : Sums(E, S, g) /\ Total(E, S) = g[S]
  BY TotalSums
<1>2. AddsUp(E, S, g)
  BY <1>1, SumsStep
<1> DEFINE Bounded(s) == g[s] \in Nat /\ g[s] <= 15 * Cardinality(s)
           B == {s \in SUBSET S : ~Bounded(s)}
<1>3. ASSUME B # {} PROVE FALSE
  <2>1. PICK s \in B : s = {} \/ s \ {Pick(s)} \in (SUBSET S) \ B
    BY <1>3, LeastSubset
  <2>2. CASE s = {}
    <3>1. g[{}] = 0 /\ Cardinality({}) = 0
      BY <1>2, FS_EmptySet DEF AddsUp
    <3> QED  BY <2>2, <3>1
  <2>3. CASE s # {}
    <3>1. PICK t \in SUBSET S : t = s \ {Pick(s)} /\ Bounded(t)
      BY <2>1, <2>3
    <3>2. IsFiniteSet(s) /\ Pick(s) \in s /\ Pick(s) \in S
      BY <2>3, PickIsOne, FS_Subset
    <3>3. Cardinality(t) = Cardinality(s) - 1 /\ Cardinality(s) \in Nat
      BY <3>1, <3>2, FS_RemoveElement, FS_CardinalityType
    <3>4. Points(E, Pick(s)) \in Nat /\ Points(E, Pick(s)) <= 15
      BY <3>2, PointsAre
    <3>5. g[s] = Points(E, Pick(s)) + g[t]
      BY <1>2, <2>3, <3>1 DEF AddsUp
    <3>6. g[t] \in Nat /\ g[t] <= 15 * Cardinality(t)
      BY <3>1
    <3>7. g[s] \in Nat /\ g[s] <= 15 * Cardinality(s)
      BY <3>3, <3>4, <3>5, <3>6
    <3> QED  BY <3>7
  <2> QED  BY <2>2, <2>3
<1>4. Bounded(S)
  BY <1>3
<1> QED  BY <1>1, <1>4

\* Evidence that is no worse comes to no less.
LEMMA BetterEvidence ==
  ASSUME NEW E, NEW F, NEW S, IsFiniteSet(S),
         \A id \in S : /\ E[id].state \in EvidenceStates /\ F[id].state \in EvidenceStates
                       /\ StateRank[E[id].state] <= StateRank[F[id].state]
  PROVE  Total(E, S) \in Nat /\ Total(F, S) \in Nat /\ Total(E, S) <= Total(F, S)
<1>1. PICK g : Sums(E, S, g) /\ Total(E, S) = g[S]
  BY TotalSums
<1>2. PICK h : Sums(F, S, h) /\ Total(F, S) = h[S]
  BY TotalSums
<1>3. AddsUp(E, S, g) /\ AddsUp(F, S, h)
  BY <1>1, <1>2, SumsStep
<1>4. ASSUME NEW id \in S
      PROVE  /\ Points(E, id) \in Nat /\ Points(F, id) \in Nat
             /\ Points(E, id) <= Points(F, id)
  BY DEF Points, EvidenceConfidence, EvidenceStates, StateRank
<1> DEFINE Bounded(s) == g[s] \in Nat /\ h[s] \in Nat /\ g[s] <= h[s]
           B == {s \in SUBSET S : ~Bounded(s)}
<1>5. ASSUME B # {} PROVE FALSE
  <2>1. PICK s \in B : s = {} \/ s \ {Pick(s)} \in (SUBSET S) \ B
    BY <1>5, LeastSubset
  <2>2. CASE s = {}
    BY <1>3, <2>2 DEF AddsUp
  <2>3. CASE s # {}
    <3>1. PICK t \in SUBSET S : t = s \ {Pick(s)} /\ Bounded(t)
      BY <2>1, <2>3
    <3>2. Pick(s) \in S
      BY <2>3, PickIsOne
    <3>3. /\ g[s] = Points(E, Pick(s)) + g[t]
          /\ h[s] = Points(F, Pick(s)) + h[t]
      BY <1>3, <2>3, <3>1 DEF AddsUp
    <3>4. g[s] \in Nat /\ h[s] \in Nat /\ g[s] <= h[s]
      BY <1>4, <3>1, <3>2, <3>3
    <3> QED  BY <3>4
  <2> QED  BY <2>2, <2>3
<1>6. Bounded(S)
  BY <1>5
<1> QED  BY <1>1, <1>2, <1>6

Material(E) == {id \in DOMAIN E : E[id].material}

Weak(E) == \E id \in Material(E) : E[id].state \in {"U", "D"}

\* When the confidence is high.
LEMMA HighConfidence ==
  ASSUME NEW E
  PROVE  Confidence(E) = "High" <=>
           /\ Material(E) # {}
           /\ 100 * Total(E, Material(E)) + Cardinality(Material(E))
                >= 1600 * Cardinality(Material(E))
           /\ ~Weak(E)
<1>1. \A n : 2 * 800 * n = 1600 * n
  OBVIOUS
<1> QED  BY <1>1 DEF Confidence, Material, Weak, Total

\* The evidence of an input.
Sound(E) ==
  /\ IsFiniteSet(DOMAIN E)
  /\ \A id \in DOMAIN E : E[id].state \in EvidenceStates

LEMMA MaterialIsFinite ==
  ASSUME NEW E, Sound(E)
  PROVE  /\ IsFiniteSet(Material(E)) /\ Cardinality(Material(E)) \in Nat
         /\ Material(E) # {} => Cardinality(Material(E)) > 0
         /\ \A id \in Material(E) : id \in DOMAIN E /\ E[id].state \in EvidenceStates
<1>1. Material(E) \subseteq DOMAIN E /\ IsFiniteSet(DOMAIN E)
  BY DEF Material, Sound
<1>2. IsFiniteSet(Material(E))
  BY <1>1, FS_Subset
<1>3. Cardinality(Material(E)) \in Nat /\ (Cardinality(Material(E)) = 0 <=> Material(E) = {})
  BY <1>2, FS_CardinalityType, FS_EmptySet
<1> QED  BY <1>1, <1>2, <1>3 DEF Sound

\* A high confidence takes a Verified item, and none in doubt.
LEMMA HighRestsOnVerified ==
  ASSUME NEW E, Sound(E), Confidence(E) = "High"
  PROVE  /\ \E id \in Material(E) : E[id].state = "V"
         /\ ~Weak(E)
<1> DEFINE n == Cardinality(Material(E))
           total == Total(E, Material(E))
<1>1. /\ Material(E) # {} /\ ~Weak(E)
      /\ 100 * total + n >= 1600 * n
  BY HighConfidence
<1>2. /\ IsFiniteSet(Material(E)) /\ n \in Nat /\ n > 0
      /\ \A id \in Material(E) : E[id].state \in EvidenceStates
  BY <1>1, MaterialIsFinite
<1>3. ASSUME \A id \in Material(E) : E[id].state # "V" PROVE FALSE
  <2>1. total \in Nat /\ total <= 15 * n
    BY <1>2, <1>3, WithoutVerified
  <2> HIDE DEF n, total
  <2> QED  BY <1>1, <1>2, <2>1
<1> QED  BY <1>1, <1>3

\* Evidence that is no worse gives no less confidence.
LEMMA ConfidenceIsMonotone ==
  ASSUME NEW E, NEW F, Sound(E), Sound(F), DOMAIN E = DOMAIN F,
         \A id \in DOMAIN E : /\ StateRank[E[id].state] <= StateRank[F[id].state]
                              /\ E[id].material = F[id].material,
         Confidence(E) = "High"
  PROVE  Confidence(F) = "High"
<1> DEFINE n == Cardinality(Material(E))
           less == Total(E, Material(E))
           more == Total(F, Material(E))
<1>1. Material(F) = Material(E)
  BY DEF Material
<1>2. /\ Material(E) # {} /\ ~Weak(E)
      /\ 100 * less + n >= 1600 * n
  BY HighConfidence
<1>3. /\ IsFiniteSet(Material(E)) /\ n \in Nat
      /\ \A id \in Material(E) : /\ E[id].state \in EvidenceStates
                                /\ F[id].state \in EvidenceStates
                                /\ StateRank[E[id].state] <= StateRank[F[id].state]
  BY <1>1, MaterialIsFinite
<1>4. less \in Nat /\ more \in Nat /\ less <= more
  BY <1>3, BetterEvidence
<1>5. 100 * more + n >= 1600 * n
  <2> HIDE DEF n, less, more
  <2> QED  BY <1>2, <1>3, <1>4
<1>6. ~Weak(F)
  BY <1>1, <1>2, <1>3 DEF Weak, StateRank, EvidenceStates
<1> QED  BY <1>1, <1>2, <1>5, <1>6, HighConfidence

\* The weights are positive.
LEMMA ScoreIsMonotone ==
  ASSUME NEW s, NEW t,
         \A d \in Dimensions : s[d] \in Int /\ t[d] \in Int /\ s[d] <= t[d]
  PROVE  Score(s) \in Int /\ Score(t) \in Int /\ Score(s) <= Score(t)
<1>1. /\ s.problem_evidence \in Int /\ t.problem_evidence \in Int
      /\ s.problem_evidence <= t.problem_evidence
      /\ s.authority_clarity \in Int /\ t.authority_clarity \in Int
      /\ s.authority_clarity <= t.authority_clarity
      /\ s.technical_fit \in Int /\ t.technical_fit \in Int
      /\ s.technical_fit <= t.technical_fit
      /\ s.funding_path \in Int /\ t.funding_path \in Int
      /\ s.funding_path <= t.funding_path
      /\ s.strategic_alignment \in Int /\ t.strategic_alignment \in Int
      /\ s.strategic_alignment <= t.strategic_alignment
      /\ s.differentiated_advantage \in Int /\ t.differentiated_advantage \in Int
      /\ s.differentiated_advantage <= t.differentiated_advantage
      /\ s.delivery_readiness \in Int /\ t.delivery_readiness \in Int
      /\ s.delivery_readiness <= t.delivery_readiness
      /\ s.risk_position \in Int /\ t.risk_position \in Int
      /\ s.risk_position <= t.risk_position
  BY DEF Dimensions
<1> QED  BY <1>1 DEF Score

-----------------------------------------------------------------------------
(* What is on file, and what was assessed.                                 *)

ItemsOnFile ==
  /\ IsFiniteSet(DOMAIN evidence)
  /\ \A id \in DOMAIN evidence : evidence[id] \in EvidenceItems

\* What an assessment was made of, and that it was.
Assessed(a) ==
  a.kind # "none" =>
    /\ Valid(a.input)
    /\ Sound(a.input.evidence)
    /\ \E day : Outcome(a) = Analyze(a.input, day)

RecordsInv == ItemsOnFile /\ Assessed(assessment)

\* What the adapter and the route pass on of the evidence.
LEMMA ActiveIsSound ==
  ASSUME ItemsOnFile
  PROVE  Sound(EngineEvidence)
<1>1. Active \subseteq DOMAIN evidence /\ DOMAIN EngineEvidence = Active
  BY DEF Active, EngineEvidence
<1>2. IsFiniteSet(Active)
  BY <1>1, FS_Subset DEF ItemsOnFile
<1>3. \A id \in Active : EngineEvidence[id].state \in EvidenceStates
  BY <1>1 DEF ItemsOnFile, EvidenceItems, EngineEvidence
<1> QED  BY <1>1, <1>2, <1>3 DEF Sound

\* Whatever becomes of a piece of evidence, it is a record with a state.
LEMMA ItemsKept ==
  ASSUME ItemsOnFile, NEW id \in Ids,
         \/ CreateEvidence(id) \/ CreateManagedEvidence(id) \/ UpdateManagedEvidence(id)
         \/ PatchEvidence(id) \/ VerifyEvidence(id) \/ ArchiveEvidence(id)
  PROVE  ItemsOnFile'
<1>1. \A text \in Texts : text \in SUBSET Topics
  BY AssessmentAssumption
<1>2. \E new \in EvidenceItems :
        \/ evidence' = [e \in DOMAIN evidence \union {id} |->
                          IF e # id THEN evidence[e] ELSE new]
        \/ id \in DOMAIN evidence /\ evidence' = [evidence EXCEPT ![id] = new]
  <2>1. CASE CreateEvidence(id)
    <3>1. PICK state \in EvidenceStates, source, material \in BOOLEAN, text \in Texts :
            /\ state = "V" => source
            /\ evidence' = [e \in DOMAIN evidence \union {id} |->
                            IF e # id THEN evidence[e]
                            ELSE [state |-> state, source |-> source,
                                  material |-> material, text |-> text,
                                  cautioned |-> FALSE, archived |-> FALSE]]
      BY <2>1 DEF CreateEvidence
    <3>2. [state |-> state, source |-> source, material |-> material, text |-> text,
           cautioned |-> FALSE, archived |-> FALSE] \in EvidenceItems
      BY <1>1 DEF EvidenceItems
    <3> QED  BY <3>1, <3>2
  <2>2. CASE CreateManagedEvidence(id)
    <3>1. PICK source \in BOOLEAN, cautioned \in BOOLEAN, text \in Texts :
            evidence' = [e \in DOMAIN evidence \union {id} |->
                         IF e # id THEN evidence[e]
                         ELSE [state |-> "A", source |-> source,
                               material |-> TRUE, text |-> text,
                               cautioned |-> cautioned, archived |-> FALSE]]
      BY <2>2 DEF CreateManagedEvidence
    <3>2. [state |-> "A", source |-> source, material |-> TRUE, text |-> text,
           cautioned |-> cautioned, archived |-> FALSE] \in EvidenceItems
      BY <1>1 DEF EvidenceItems, EvidenceStates
    <3> QED  BY <3>1, <3>2
  <2>3. CASE \/ UpdateManagedEvidence(id) \/ PatchEvidence(id)
             \/ VerifyEvidence(id) \/ ArchiveEvidence(id)
    <3>1. id \in DOMAIN evidence
      BY <2>3 DEF UpdateManagedEvidence, PatchEvidence, VerifyEvidence, ArchiveEvidence, Active
    <3>2. PICK old \in EvidenceItems : old = evidence[id]
      BY <3>1 DEF ItemsOnFile
    <3>3. CASE UpdateManagedEvidence(id)
      <4>1. \/ \E value \in BOOLEAN :
                 \/ evidence' = [evidence EXCEPT ![id] = [old EXCEPT !.source = value]]
                 \/ evidence' = [evidence EXCEPT ![id] = [old EXCEPT !.cautioned = value]]
            \/ \E text \in Texts :
                 evidence' = [evidence EXCEPT ![id] = [old EXCEPT !.text = text]]
        BY <3>1, <3>2, <3>3 DEF UpdateManagedEvidence
      <4>2. /\ \A value \in BOOLEAN : /\ [old EXCEPT !.source = value] \in EvidenceItems
                                      /\ [old EXCEPT !.cautioned = value] \in EvidenceItems
            /\ \A text \in Texts : [old EXCEPT !.text = text] \in EvidenceItems
        BY <1>1 DEF EvidenceItems
      <4> QED  BY <3>1, <4>1, <4>2
    <3>4. CASE PatchEvidence(id)
      <4>1. PICK state \in EvidenceStates, source \in BOOLEAN, material \in BOOLEAN :
              evidence' = [evidence EXCEPT ![id].state = state, ![id].source = source,
                                           ![id].material = material]
        BY <3>4 DEF PatchEvidence
      <4>2. PICK new : new = [old EXCEPT !.state = state, !.source = source,
                                         !.material = material]
        OBVIOUS
      <4>3. new \in EvidenceItems
        BY <4>2 DEF EvidenceItems
      <4>4. evidence' = [evidence EXCEPT ![id] = new]
        BY <3>1, <3>2, <4>1, <4>2
      <4> QED  BY <3>1, <4>3, <4>4
    <3>5. CASE VerifyEvidence(id)
      <4>1. PICK state \in EvidenceStates :
              evidence' = [evidence EXCEPT ![id].state = state, ![id].source = TRUE]
        BY <3>5 DEF VerifyEvidence, EvidenceStates
      <4>2. PICK new : new = [old EXCEPT !.state = state, !.source = TRUE]
        OBVIOUS
      <4>3. new \in EvidenceItems
        BY <4>2 DEF EvidenceItems
      <4>4. evidence' = [evidence EXCEPT ![id] = new]
        BY <3>1, <3>2, <4>1, <4>2
      <4> QED  BY <3>1, <4>3, <4>4
    <3>6. CASE ArchiveEvidence(id)
      <4>1. PICK new : new = [old EXCEPT !.archived = TRUE]
        OBVIOUS
      <4>2. new \in EvidenceItems
        BY <4>1 DEF EvidenceItems
      <4>3. evidence' = [evidence EXCEPT ![id] = new]
        BY <3>2, <3>6, <4>1 DEF ArchiveEvidence
      <4> QED  BY <3>1, <4>2, <4>3
    <3> QED  BY <2>3, <3>3, <3>4, <3>5, <3>6
  <2> QED  BY <2>1, <2>2, <2>3
<1>3. /\ DOMAIN evidence' \subseteq DOMAIN evidence \union {id}
      /\ \A e \in DOMAIN evidence' : evidence'[e] \in EvidenceItems
  BY <1>2 DEF ItemsOnFile
<1>4. IsFiniteSet(DOMAIN evidence \union {id})
  BY FS_AddElement DEF ItemsOnFile
<1>5. IsFiniteSet(DOMAIN evidence')
  BY <1>3, <1>4, FS_Subset
<1> QED  BY <1>3, <1>5 DEF ItemsOnFile

LEMMA SpatialIsAssessed ==
  ASSUME ItemsOnFile, RunSpatialAssessment
  PROVE  Assessed(assessment')
<1> DEFINE input == EngineInput(review.output)
<1>1. /\ Valid(input)
      /\ assessment'.input = input
      /\ assessment'.kind = "spatial_lifecycle"
      /\ assessment'.result = OperationalResult(input, review.output, today)
  BY DEF RunSpatialAssessment
<1>2. input.evidence = EngineEvidence
  BY DEF EngineInput
<1> HIDE DEF input
<1>3. Outcome(assessment') = Analyze(input, today)
  BY <1>1 DEF Outcome, OperationalResult
<1>4. Sound(input.evidence)
  BY <1>2, ActiveIsSound
<1> QED  BY <1>1, <1>3, <1>4 DEF Assessed

LEMMA BareIsAssessed ==
  ASSUME ItemsOnFile, NEW o, NEW requested,
         Valid(BareInput(o, requested))
  PROVE  Assessed(Bare(o, requested))
<1> DEFINE input == BareInput(o, requested)
<1>1. /\ Bare(o, requested).kind = "legacy"
      /\ Bare(o, requested).input = input
      /\ Bare(o, requested).result = Analyze(input, today)
  BY DEF Bare
<1>2. input.evidence = EngineEvidence /\ Valid(input)
  BY DEF BareInput
<1> HIDE DEF input
<1>3. Outcome(Bare(o, requested)) = Analyze(input, today)
  BY <1>1 DEF Outcome
<1>4. Sound(input.evidence)
  BY <1>2, ActiveIsSound
<1> QED  BY <1>1, <1>2, <1>3, <1>4 DEF Assessed

LEMMA RecordsInvInit == Init => RecordsInv
<1> SUFFICES ASSUME Init PROVE RecordsInv
  OBVIOUS
<1>1. PICK start \in Start : opportunity = start.opportunity /\ evidence = start.evidence
  BY DEF Init
<1>2. ItemsOnFile
  BY <1>1, RecordsAssumption DEF ItemsOnFile
<1>3. Assessed(assessment)
  BY DEF Init, Assessed
<1> QED  BY <1>2, <1>3 DEF RecordsInv

LEMMA RecordsInvInductive == RecordsInv /\ [Next]_vars => RecordsInv'
<1> SUFFICES ASSUME RecordsInv, [Next]_vars
             PROVE  RecordsInv'
  OBVIOUS
<1>1. ItemsOnFile /\ Assessed(assessment)
  BY DEF RecordsInv
<1>2. ASSUME evidence' = evidence PROVE ItemsOnFile'
  BY <1>1, <1>2 DEF ItemsOnFile
<1>3. ASSUME assessment' = assessment PROVE Assessed(assessment')
  BY <1>1, <1>3
<1>4. CASE EditOpportunity \/ UpdateOpportunity \/ RunKnowledgeReview \/ Tick \/ UNCHANGED vars
  <2>1. assessment' = assessment /\ evidence' = evidence
    BY <1>4 DEF EditOpportunity, UpdateOpportunity, Changed, RunKnowledgeReview, Tick, vars
  <2> QED  BY <1>2, <1>3, <2>1 DEF RecordsInv
<1>5. CASE \E id \in Ids : \/ CreateEvidence(id) \/ CreateManagedEvidence(id)
                           \/ UpdateManagedEvidence(id) \/ PatchEvidence(id)
                           \/ VerifyEvidence(id) \/ ArchiveEvidence(id)
  <2>1. assessment' = assessment
    BY <1>5 DEF CreateEvidence, CreateManagedEvidence, UpdateManagedEvidence,
                PatchEvidence, VerifyEvidence, ArchiveEvidence, Changed
  <2>2. ItemsOnFile'
    BY <1>1, <1>5, ItemsKept
  <2> QED  BY <1>3, <2>1, <2>2 DEF RecordsInv
<1>6. CASE RunSpatialAssessment
  <2>1. evidence' = evidence
    BY <1>6 DEF RunSpatialAssessment
  <2> QED  BY <1>1, <1>2, <1>6, <2>1, SpatialIsAssessed DEF RecordsInv
<1>7. CASE RunAssessment \/ Revalidate
  <2>1. evidence' = evidence
    BY <1>7 DEF RunAssessment, Revalidate
  <2>2. \E o, requested : \/ assessment' = assessment
                          \/ /\ Valid(BareInput(o, requested))
                             /\ assessment' = Bare(o, requested)
    BY <1>7 DEF RunAssessment, Revalidate
  <2>3. Assessed(assessment')
    BY <1>1, <1>3, <2>2, BareIsAssessed
  <2> QED  BY <1>2, <2>1, <2>3 DEF RecordsInv
<1> QED  BY <1>4, <1>5, <1>6, <1>7 DEF Next

\* Only a high confidence is pursued.
LEMMA PursuitIsConfident ==
  ASSUME NEW score \in Int, NEW confidence, NEW gates, NEW constraints,
         Recommend(score, confidence, gates, constraints) = "Pursue"
  PROVE  confidence = "High"
BY DEF Recommend, Band

LEMMA PursuitIsBacked ==
  ASSUME Assessed(assessment)
  PROVE  PursuitRestsOnVerifiedEvidence
<1> SUFFICES ASSUME assessment.kind # "none", Outcome(assessment).decision = "Pursue"
             PROVE  /\ \E id \in Material(assessment.input.evidence) :
                         /\ assessment.input.evidence[id].state = "V"
                         /\ assessment.input.evidence[id].source
                    /\ ~Weak(assessment.input.evidence)
  BY DEF PursuitRestsOnVerifiedEvidence, Material, Weak
<1>1. PICK input : /\ input = assessment.input
                   /\ Valid(input)
                   /\ Sound(input.evidence)
                   /\ \E day : Outcome(assessment) = Analyze(input, day)
  BY DEF Assessed
<1>2. \E gates : Recommend(Score(input.scores), Confidence(input.evidence), gates,
                           input.constraints) = "Pursue"
  BY <1>1 DEF Analyze
<1>3. Score(input.scores) \in Int
  BY <1>1, ValidInputsScore
<1>4. Confidence(input.evidence) = "High"
  BY <1>2, <1>3, PursuitIsConfident
<1>5. /\ \E id \in Material(input.evidence) : input.evidence[id].state = "V"
      /\ ~Weak(input.evidence)
  BY <1>1, <1>4, HighRestsOnVerified
<1>6. \A id \in Material(input.evidence) :
        input.evidence[id].state = "V" => input.evidence[id].source
  BY <1>1 DEF Valid, Material
<1> QED  BY <1>1, <1>5, <1>6

\* Whatever is on file and whoever fills it in, an opportunity is recommended
\* for pursuit only on material evidence some of which is Verified, with its
\* source, and none Unknown or Disputed, for any number of items: what is not
\* Verified counts for 15 twentieths at most, and a high confidence takes 16.
THEOREM PursuitAlwaysRestsOnVerifiedEvidence == Spec => []PursuitRestsOnVerifiedEvidence
<1>1. RecordsInv => PursuitRestsOnVerifiedEvidence
  BY PursuitIsBacked DEF RecordsInv
<1> QED  BY <1>1, RecordsInvInit, RecordsInvInductive, PTL DEF Spec

-----------------------------------------------------------------------------
(* A better input.                                                         *)

\* The gates of a result, the one of the lifecycle among them.
LEMMA ResultsAre ==
  ASSUME NEW a, Assessed(a), a.kind # "none"
  PROVE  \E s \in Int, G \in [GateKeys \union {"L"} -> {"fail", "provisional", "pass"}] :
           /\ s = Score(a.input.scores)
           /\ Outcome(a).score = s
           /\ Outcome(a).gates = G
           /\ Outcome(a).decision =
                Recommend(s, Confidence(a.input.evidence), G, a.input.constraints)
<1>1. PICK day : Outcome(a) = Analyze(a.input, day)
  BY DEF Assessed
<1>2. Score(a.input.scores) \in Int
  BY ValidInputsScore DEF Assessed
<1>3. PICK G : G = [k \in GateKeys \union {"L"} |->
                      IF k = "L" THEN LifecycleGate(a.input, day) ELSE a.input.gates[k]]
  OBVIOUS
<1>4. G \in [GateKeys \union {"L"} -> {"fail", "provisional", "pass"}]
  <2>1. LifecycleGate(a.input, day) \in {"fail", "provisional", "pass"}
    BY DEF LifecycleGate
  <2>2. \A k \in GateKeys : a.input.gates[k] \in {"fail", "provisional", "pass"}
    BY DEF Assessed, Valid, GateStatuses
  <2> QED  BY <1>3, <2>1, <2>2
<1>5. /\ Outcome(a).score = Score(a.input.scores)
      /\ Outcome(a).gates = G
      /\ Outcome(a).decision =
           Recommend(Score(a.input.scores), Confidence(a.input.evidence), G,
                     a.input.constraints)
  BY <1>1, <1>3 DEF Analyze
<1> QED  BY <1>2, <1>4, <1>5

\* The recommendation on the better of two inputs.
LEMMA BetterIsNoLower ==
  ASSUME NEW a, NEW b, Assessed(a), Assessed(b), a.kind # "none", b.kind # "none",
         Improves(a, b)
  PROVE  \/ DecisionRank[Outcome(a).decision] <= DecisionRank[Outcome(b).decision]
         \/ /\ Outcome(a).decision = "Hold"
            /\ Failed(Outcome(a).gates) \/ a.input.constraints # {}
            /\ Outcome(b).score < 2500
<1> DEFINE K == GateKeys \union {"L"}
           c == Confidence(a.input.evidence)
           d == Confidence(b.input.evidence)
           C == a.input.constraints
           D == b.input.constraints
<1>1. PICK s \in Int, G \in [K -> {"fail", "provisional", "pass"}] :
        /\ s = Score(a.input.scores)
        /\ Outcome(a).score = s
        /\ Outcome(a).gates = G
        /\ Outcome(a).decision = Recommend(s, c, G, C)
  BY ResultsAre
<1>2. PICK t \in Int, H \in [K -> {"fail", "provisional", "pass"}] :
        /\ t = Score(b.input.scores)
        /\ Outcome(b).score = t
        /\ Outcome(b).gates = H
        /\ Outcome(b).decision = Recommend(t, d, H, D)
  BY ResultsAre
<1>3. s <= t
  <2>1. \A x \in Dimensions : a.input.scores[x] \in 0..50 /\ b.input.scores[x] \in 0..50
    BY DEF Assessed, Valid
  <2>2. \A x \in Dimensions : a.input.scores[x] <= b.input.scores[x]
    BY DEF Improves
  <2>3. \A x \in Dimensions : /\ a.input.scores[x] \in Int /\ b.input.scores[x] \in Int
                              /\ a.input.scores[x] <= b.input.scores[x]
    BY <2>1, <2>2
  <2> QED  BY <1>1, <1>2, <2>3, ScoreIsMonotone
<1>4. c = "High" => d = "High"
  <2>1. Sound(a.input.evidence) /\ Sound(b.input.evidence)
    BY DEF Assessed
  <2>2. /\ DOMAIN a.input.evidence = DOMAIN b.input.evidence
        /\ \A id \in DOMAIN a.input.evidence :
             /\ StateRank[a.input.evidence[id].state] <= StateRank[b.input.evidence[id].state]
             /\ a.input.evidence[id].material = b.input.evidence[id].material
    BY DEF Improves
  <2> QED  BY <2>1, <2>2, ConfidenceIsMonotone
<1>5. /\ \A k \in K : GateRank[G[k]] <= GateRank[H[k]]
      /\ D \subseteq C
  BY <1>1, <1>2 DEF Improves
<1> HIDE DEF K, c, d, C, D
<1>6. \/ DecisionRank[Recommend(s, c, G, C)] <= DecisionRank[Recommend(t, d, H, D)]
      \/ /\ Recommend(s, c, G, C) = "Hold"
         /\ "hold" \in C \/ Failed(G)
         /\ t < 2500
  BY <1>3, <1>4, <1>5, RecommendIsMonotone
<1>7. "hold" \in C => C # {}
  OBVIOUS
<1> QED  BY <1>1, <1>2, <1>6, <1>7 DEF C

\* Of two assessments in a row, on any two inputs and days: scores, states of
\* evidence and gates that are no worse and no new fatal constraint never make
\* for a lower recommendation (engine.py _recommend and confidence), unless what
\* held the opportunity is gone and it scores below 25.
THEOREM ImprovingNeverLowersTheRecommendation == Spec => ImprovingNeverLowers
<1> DEFINE Step ==
      LET a == assessment
          b == assessment'
      IN a.kind # "none" /\ Improves(a, b) =>
           \/ DecisionRank[Outcome(a).decision] <= DecisionRank[Outcome(b).decision]
           \/ /\ Outcome(a).decision = "Hold"
              /\ Failed(Outcome(a).gates) \/ a.input.constraints # {}
              /\ Outcome(b).score < 2500
<1>1. RecordsInv /\ [Next]_vars => Step
  <2> SUFFICES ASSUME RecordsInv, [Next]_vars, assessment.kind # "none",
                      Improves(assessment, assessment')
               PROVE  Step
    OBVIOUS
  <2>1. Assessed(assessment) /\ Assessed(assessment')
    BY RecordsInvInductive DEF RecordsInv
  <2>2. assessment'.kind # "none"
    <3>1. CASE Revalidate
      <4>1. assessment' = assessment \/ \E o, requested : assessment' = Bare(o, requested)
        BY <3>1 DEF Revalidate
      <4> QED  BY <4>1 DEF Bare
    <3>2. CASE RunAssessment
      BY <3>2 DEF RunAssessment, Bare
    <3>3. CASE RunSpatialAssessment
      BY <3>3 DEF RunSpatialAssessment
    <3>4. CASE ~(Revalidate \/ RunAssessment \/ RunSpatialAssessment)
      <4>1. assessment' = assessment
        BY <3>4 DEF Next, vars, EditOpportunity, UpdateOpportunity, Changed,
                    CreateEvidence, CreateManagedEvidence, UpdateManagedEvidence,
                    PatchEvidence, VerifyEvidence, ArchiveEvidence,
                    RunKnowledgeReview, Tick
      <4> QED  BY <4>1
    <3> QED  BY <3>1, <3>2, <3>3, <3>4
  <2> QED  BY <2>1, <2>2, BetterIsNoLower
<1> HIDE DEF Step
<1>2. Spec => [][Step]_vars
  BY <1>1, RecordsInvInit, RecordsInvInductive, PTL DEF Spec
<1> QED  BY <1>2 DEF ImprovingNeverLowers, Step

-----------------------------------------------------------------------------
(* AnchorStack's continuation evaluator.                                   *)

Continuation == INSTANCE ContinuationValidity

\* A dimension that is as bad before is as bad after.
LEMMA DoubtRemains ==
  ASSUME NEW before \in Continuation!ContinuationSnapshot,
         NEW after \in Continuation!ContinuationSnapshot,
         Continuation!Worsens(before, after), NEW name \in Continuation!MaterialDimensions
  PROVE  /\ before.dimensions[name] = "INVALID" => after.dimensions[name] = "INVALID"
         /\ before.dimensions[name] = "STALE" => after.dimensions[name] \in {"INVALID", "STALE"}
         /\ before.dimensions[name] = "UNKNOWN" =>
              after.dimensions[name] \in {"INVALID", "STALE", "UNKNOWN"}
<1>1. /\ before.dimensions[name] \in Continuation!Validity
      /\ after.dimensions[name] \in Continuation!Validity
      /\ Continuation!Doubt(before.dimensions[name]) <= Continuation!Doubt(after.dimensions[name])
  BY DEF Continuation!Worsens, Continuation!ContinuationSnapshot
<1> QED  BY <1>1 DEF Continuation!Validity, Continuation!Doubt

\* The more is in doubt, the more the determination restrains: no dimension
\* that goes from good to unknown, stale or invalid, and no loss of the safe
\* exit, ever lets an execution do more than before, though the conditions of
\* the evaluator overlap and the first one decides (evaluate).
THEOREM DoubtNeverRelaxes ==
  ASSUME NEW before \in Continuation!ContinuationSnapshot,
         NEW after \in Continuation!ContinuationSnapshot,
         Continuation!Worsens(before, after)
  PROVE  Continuation!Restraint(Continuation!Evaluate(before))
           <= Continuation!Restraint(Continuation!Evaluate(after))
<1>1. /\ Continuation!Dimensions(before, "INVALID") \subseteq
           Continuation!Dimensions(after, "INVALID")
      /\ Continuation!Dimensions(before, "STALE") \subseteq
           Continuation!Dimensions(after, "INVALID") \union Continuation!Dimensions(after, "STALE")
      /\ Continuation!Dimensions(before, "UNKNOWN") \subseteq
           Continuation!Dimensions(after, "INVALID") \union Continuation!Dimensions(after, "STALE")
             \union Continuation!Dimensions(after, "UNKNOWN")
  BY DoubtRemains DEF Continuation!Dimensions
<1>2. /\ before.safe_exit_available \in BOOLEAN /\ after.safe_exit_available \in BOOLEAN
      /\ after.safe_exit_available => before.safe_exit_available
  BY DEF Continuation!Worsens, Continuation!ContinuationSnapshot
<1>3. CASE Continuation!Evaluate(before) = "AUTHORITY_SUSPENDED"
  BY <1>1, <1>3 DEF Continuation!Evaluate, Continuation!Restraint
<1>4. CASE Continuation!Evaluate(before) = "PROTECTIVE_HOLD"
  BY <1>1, <1>2, <1>4 DEF Continuation!Evaluate, Continuation!Restraint
<1>5. CASE Continuation!Evaluate(before) = "REASSESSMENT_REQUIRED"
  BY <1>1, <1>5 DEF Continuation!Evaluate, Continuation!Restraint
<1>6. CASE Continuation!Evaluate(before) = "DETERMINATION_NOT_ESTABLISHED"
  BY <1>1, <1>6 DEF Continuation!Evaluate, Continuation!Restraint
<1>7. CASE Continuation!Evaluate(before) = "CONTINUATION_VALID"
  BY <1>7 DEF Continuation!Evaluate, Continuation!Restraint
<1> QED  BY <1>3, <1>4, <1>5, <1>6, <1>7 DEF Continuation!Evaluate

\* An execution goes on only on a snapshot with nothing in doubt, and then it
\* does: no precondition is forgotten by the conditions before.
THEOREM ValidMeansNothingInDoubt ==
  ASSUME NEW snapshot \in Continuation!ContinuationSnapshot
  PROVE  Continuation!Evaluate(snapshot) = "CONTINUATION_VALID"
           <=> \A name \in Continuation!MaterialDimensions : snapshot.dimensions[name] = "VALID"
<1>1. \A name \in Continuation!MaterialDimensions :
        snapshot.dimensions[name] \in Continuation!Validity
  BY DEF Continuation!ContinuationSnapshot
<1>2. (\A name \in Continuation!MaterialDimensions : snapshot.dimensions[name] = "VALID")
        <=> /\ Continuation!Dimensions(snapshot, "INVALID") = {}
            /\ Continuation!Dimensions(snapshot, "STALE") = {}
            /\ Continuation!Dimensions(snapshot, "UNKNOWN") = {}
  BY <1>1 DEF Continuation!Dimensions, Continuation!Validity
<1>3. "authority" \in Continuation!MaterialDimensions
  BY DEF Continuation!MaterialDimensions
<1> QED  BY <1>2, <1>3 DEF Continuation!Evaluate
=============================================================================
