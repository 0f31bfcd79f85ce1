--------------------------- MODULE SpatialEngine ---------------------------
(***************************************************************************)
(* The S.P.A.T.I.A.L. engine (spatial_engine/engine.py), a pure function   *)
(* of its input and of the day it runs on: eight dimensions are weighed    *)
(* into a score, the states of the evidence into a confidence, and gates   *)
(* and fatal constraints override both.                                    *)
(*                                                                         *)
(* A dimension's score is in tenths, the total in hundredths of a point;   *)
(* dates are days, and texts that are no date are negative.                *)
(***************************************************************************)
EXTENDS Integers, FiniteSets, FiniteSetsExt

NoDate == -1    \* an empty text
BadDate == -2   \* a text that is no ISO date

EvidenceStates == {"V", "S", "A", "U", "D"}
GateKeys == {"S", "P", "A1", "T", "I", "A2"}
GateStatuses == {"fail", "provisional", "pass"}
Dimensions ==
  {"problem_evidence", "authority_clarity", "technical_fit", "funding_path",
   "strategic_alignment", "differentiated_advantage", "delivery_readiness",
   "risk_position"}
Controls == {"owner", "next_action", "resource_ceiling"}

\* What from_dict and _validate let through.
Valid(input) ==
  /\ input.problem
  /\ input.date # BadDate
  /\ input.evidence # << >>
  /\ \A id \in DOMAIN input.evidence :
       input.evidence[id].state = "V" => input.evidence[id].source
  /\ DOMAIN input.scores = Dimensions
  /\ \A d \in Dimensions : input.scores[d] \in 0..50
  /\ DOMAIN input.gates = GateKeys
  /\ \A k \in GateKeys : input.gates[k] \in GateStatuses
  /\ input.cites \subseteq DOMAIN input.evidence

\* Weights of 15, 10 and 5 points, of which a dimension earns a fifth for
\* each point of its own.
Score(scores) ==
  30 * (scores.problem_evidence + scores.authority_clarity
        + scores.technical_fit + scores.funding_path
          + scores.strategic_alignment)
  + 20 * (scores.differentiated_advantage + scores.delivery_readiness)
  + 10 * scores.risk_position

\* Mutant: what is Supported counts for 0.8.
EvidenceConfidenceSupported == [V |-> 20, S |-> 16, A |-> 7, U |-> 0, D |-> 3]

\* In twentieths.
EvidenceConfidence == [V |-> 20, S |-> 15, A |-> 7, U |-> 0, D |-> 3]

\* The mean over the material evidence, rounded to thousandths, is compared
\* with a threshold in thousandths.
Confidence(evidence) ==
  LET material == {id \in DOMAIN evidence : evidence[id].material}
      n == Cardinality(material)
      total == MapThenSumSet(LAMBDA id : EvidenceConfidence[evidence[id].state],
                             material)
      Reaches(threshold) == 100 * total + n >= 2 * threshold * n
      weak == \E id \in material : evidence[id].state \in {"U", "D"}
  IN IF material = {} THEN "Low"
     ELSE IF Reaches(800) /\ ~weak THEN "High"
     ELSE IF Reaches(500) THEN "Moderate"
     ELSE "Low"

\* Gate L passes when every control is there and the review lies ahead of the
\* assessment, which is today when the input has no date.
LifecycleGate(input, today) ==
  LET day == IF input.date = NoDate THEN today ELSE input.date
  IN IF input.controls = Controls /\ input.review_date >= 0 /\ input.review_date > day
       THEN "pass" ELSE "fail"

\* Mutant: 80 points are in no band.
BandExclusive(score, confident) ==
  IF score > 8000 THEN IF confident THEN "Pursue" ELSE "Validate"
  ELSE IF score >= 6500 /\ score < 8000 THEN "Validate"
  ELSE IF score >= 4500 /\ score < 6500 THEN "Monitor"
  ELSE IF score >= 2500 /\ score < 4500 THEN "Hold"
  ELSE "Reject"

Band(score, confident) ==
  IF score >= 8000 THEN IF confident THEN "Pursue" ELSE "Validate"
  ELSE IF score >= 6500 THEN "Validate"
  ELSE IF score >= 4500 THEN "Monitor"
  ELSE IF score >= 2500 THEN "Hold"
  ELSE "Reject"

Failed(gates) == \E k \in DOMAIN gates : gates[k] = "fail"

Recommend(score, confidence, gates, constraints) ==
  IF "reject" \in constraints THEN "Reject"
  ELSE IF "hold" \in constraints \/ Failed(gates) THEN "Hold"
  ELSE Band(score, /\ confidence = "High"
                   /\ \A k \in DOMAIN gates : gates[k] = "pass")

Analyze(input, today) ==
  LET gates == [k \in GateKeys \union {"L"} |->
                  IF k = "L" THEN LifecycleGate(input, today) ELSE input.gates[k]]
      score == Score(input.scores)
      confidence == Confidence(input.evidence)
  IN [score |-> score,
      confidence |-> confidence,
      gates |-> gates,
      decision |-> Recommend(score, confidence, gates, input.constraints)]

\* From least to most.
DecisionRank ==
  [Reject |-> 0, Hold |-> 1, Monitor |-> 2, Validate |-> 3, Pursue |-> 4]
GateRank == [fail |-> 0, provisional |-> 1, pass |-> 2]
=============================================================================
