----------------------------- MODULE Assessment -----------------------------
(***************************************************************************)
(* What AnchorIntel assesses, and how.  Analysts fill in an opportunity    *)
(* and its evidence, promote the evidence state by state, have the Florida *)
(* knowledge module review them (knowledge.py) and run an assessment,      *)
(* for which the adapter (assessment.py) makes the engine's input of all   *)
(* three; or they run the engine on the bare records.  Requests follow     *)
(* one another; Lifecycle is about those that overlap.                     *)
(*                                                                         *)
(* Of a text the model keeps what is asked of it: whether it is there, and *)
(* which topics the review and the adapter find in it.  The title, the     *)
(* geography and the infrastructure class are always there (service.py     *)
(* _validate_opportunity).                                                 *)
(***************************************************************************)
EXTENDS SpatialEngine

CONSTANTS
  Start,          \* what may be on file: [opportunity, evidence]
  Ids,            \* evidence identifiers
  Texts,          \* the sets of topics a piece of evidence may be about
  Appraisals,     \* what "dimensions" may be: [given, scores, cites]
  Rulings,        \* what "gates" may be: [given, statuses, cites]
  FatalSets,      \* sets of fatal constraints: [disposition, cites]
  LastDay,        \* days are 0..LastDay
  EffectiveDate,  \* of the knowledge module,
  ReviewDate,     \* and when the module is to be reviewed
  ReviewPeriod,   \* 180 days
  MaxChanges      \* bound on the changes to the records

VARIABLES
  today,
  opportunity,
  evidence,      \* a record for each identifier in use
  review,        \* the latest review; one that is not current is as good as none
  assessment,    \* the latest assessment
  changes        \* so many changes were made

vars == <<today, opportunity, evidence, review, assessment, changes>>

Topics ==
  {"funding", "florida", "territory", "exposure", "regulatory", "ownership"}
Dates == {NoDate, BadDate} \union 0..LastDay

\* A row of evidence, its state one of the five.
EvidenceItems ==
  [state : EvidenceStates, source : BOOLEAN, material : BOOLEAN,
   text : SUBSET Topics, cautioned : BOOLEAN, archived : BOOLEAN]

ASSUME AssessmentAssumption ==
  /\ Texts \subseteq SUBSET Topics
  /\ {EffectiveDate, ReviewDate, LastDay, ReviewPeriod, MaxChanges} \subseteq Nat
  /\ \A a \in Appraisals : ~a.given => a = [given |-> FALSE, scores |-> << >>, cites |-> {}]
  /\ \A r \in Rulings : ~r.given => r = [given |-> FALSE, statuses |-> << >>, cites |-> {}]

\* What is on file at the start.
ASSUME RecordsAssumption ==
  \A start \in Start :
    /\ IsFiniteSet(DOMAIN start.evidence)
    /\ \A id \in DOMAIN start.evidence : start.evidence[id] \in EvidenceItems

Active == {id \in DOMAIN evidence : ~evidence[id].archived}

\* Active evidence on a topic.
On(topic) == {id \in Active : topic \in evidence[id].text}

Count(found) == IF found THEN 1 ELSE 0

-----------------------------------------------------------------------------
(* The records.  Every change makes the review stale, for it gives the     *)
(* opportunity or its evidence another revision.                           *)

Changed ==
  /\ changes < MaxChanges
  /\ changes' = changes + 1
  /\ review' = [review EXCEPT !.current = FALSE]
  /\ UNCHANGED <<today, assessment>>

\* The form of the pages.  A description is the problem statement, too.
EditOpportunity ==
  /\ Changed
  /\ \E value \in BOOLEAN :
       opportunity' \in {[opportunity EXCEPT !.organization = value],
                         [opportunity EXCEPT !.florida = value],
                         [opportunity EXCEPT !.strategic = value],
                         [opportunity EXCEPT !.problem = IF value THEN "stated" ELSE "none"]}
  /\ UNCHANGED evidence

\* PUT replaces the record: the inputs of the assessment come this way.
UpdateOpportunity ==
  /\ Changed
  /\ opportunity' \in
          {[opportunity EXCEPT !.problem = "described"]}
     \union {[opportunity EXCEPT !.dimensions = a] : a \in Appraisals}
     \union {[opportunity EXCEPT !.gates = r] : r \in Rulings}
     \union {[opportunity EXCEPT !.constraints = f] : f \in FatalSets}
     \union {[opportunity EXCEPT !.controls = c] : c \in {{"next_action"}, Controls}}
     \union {[opportunity EXCEPT !.review_date = d] : d \in Dates}
     \union {[opportunity EXCEPT !.assessment_date = d] : d \in Dates}
  /\ UNCHANGED evidence

\* POST /v1/evidence takes any state, but "Verified evidence requires a source".
CreateEvidence(id) ==
  /\ Changed
  /\ id \notin DOMAIN evidence
  /\ \E state \in EvidenceStates, source, material \in BOOLEAN, text \in Texts :
       /\ state = "V" => source
       /\ evidence' = [e \in DOMAIN evidence \union {id} |->
                         IF e # id THEN evidence[e]
                         ELSE [state |-> state, source |-> source,
                               material |-> material, text |-> text,
                               cautioned |-> FALSE, archived |-> FALSE]]
  /\ UNCHANGED opportunity

\* The page creates material assumptions.
CreateManagedEvidence(id) ==
  /\ Changed
  /\ id \notin DOMAIN evidence
  /\ \E source, cautioned \in BOOLEAN, text \in Texts :
       evidence' = [e \in DOMAIN evidence \union {id} |->
                      IF e # id THEN evidence[e]
                      ELSE [state |-> "A", source |-> source,
                            material |-> TRUE, text |-> text,
                            cautioned |-> cautioned, archived |-> FALSE]]
  /\ UNCHANGED opportunity

\* The page edits what describes the evidence, its source included.  What is
\* questioned, superseded or too old calls for caution.
UpdateManagedEvidence(id) ==
  /\ Changed
  /\ id \in Active
  /\ \/ \E value \in BOOLEAN :
          evidence' \in {[evidence EXCEPT ![id].source = value],
                         [evidence EXCEPT ![id].cautioned = value]}
     \/ \E text \in Texts : evidence' = [evidence EXCEPT ![id].text = text]
  /\ UNCHANGED opportunity

PromotionRank == [U |-> 0, D |-> 0, A |-> 1, S |-> 2, V |-> 3]

\* PATCH reclassifies, but does not promote to Supported or Verified.
PatchEvidence(id) ==
  /\ Changed
  /\ id \in Active
  /\ \E state \in EvidenceStates, source, material \in BOOLEAN :
       /\ ~(/\ state \in {"S", "V"}
            /\ PromotionRank[state] > PromotionRank[evidence[id].state])
       /\ state = "V" => source
       /\ evidence' = [evidence EXCEPT ![id].state = state,
                                       ![id].source = source,
                                       ![id].material = material]
  /\ UNCHANGED opportunity

\* Promotion goes one state up, with a note and a source, given now or before.
VerifyEvidence(id) ==
  /\ Changed
  /\ id \in Active
  /\ evidence[id].state \in {"A", "S"}
  /\ evidence' = [evidence EXCEPT
       ![id].state = IF evidence[id].state = "A" THEN "S" ELSE "V",
       ![id].source = TRUE]
  /\ UNCHANGED opportunity

ArchiveEvidence(id) ==
  /\ Changed
  /\ id \in Active
  /\ evidence' = [evidence EXCEPT ![id].archived = TRUE]
  /\ UNCHANGED opportunity

-----------------------------------------------------------------------------
(* The review: what the module finds lacking.                              *)

Flagged ==
  \E id \in Active : evidence[id].cautioned \/ evidence[id].state \in {"U", "D"}

\* Territory, exposure and dependencies; location and ownership are missed as
\* evidence only.
Findings ==
  LET Lacks(topic) == Count(On(topic) = {})
      unknowns == Lacks("territory") + Lacks("exposure") + Lacks("regulatory")
  IN [florida |-> opportunity.florida,
      unknowns |-> unknowns,
      missing |-> unknowns + Lacks("ownership")
                    + Count(opportunity.florida /\ On("florida") = {}),
      risks |-> Count(Flagged) + Count(Active # DOMAIN evidence)]

RunKnowledgeReview ==
  /\ review' = [current |-> TRUE, output |-> Findings]
  /\ UNCHANGED <<today, opportunity, evidence, assessment, changes>>

-----------------------------------------------------------------------------
(* The adapter.                                                            *)

\* round(3.0 - 0.25 * n, 1) rounds halves to even; not below 0.5.
RiskScore(n) ==
  LET hundredths == 300 - 25 * n
      tenths == hundredths \div 10
      rounded == IF hundredths % 10 = 5 THEN tenths + (tenths % 2) ELSE tenths
  IN IF rounded < 5 THEN 5 ELSE rounded

Funded == \E id \in On("funding") : evidence[id].state \in {"S", "V"}

\* Mutant: what nothing is known of is neutral, 2.5 of 5.
EngineScoresNeutral(output) ==
  IF opportunity.dimensions.given THEN opportunity.dimensions.scores
  ELSE [problem_evidence |->
          IF Active # {} /\ opportunity.problem # "none" THEN 15 ELSE 5,
        authority_clarity |-> IF opportunity.organization THEN 20 ELSE 5,
        technical_fit |-> 20,
        funding_path |-> IF Funded THEN 25 ELSE 5,
        strategic_alignment |-> IF opportunity.strategic THEN 30 ELSE 15,
        differentiated_advantage |-> 25,
        delivery_readiness |-> 25,
        risk_position |-> RiskScore(output.unknowns + output.risks + output.missing)]

\* Eight dimensions are taken as they are, whatever they are; otherwise what
\* the review does not establish gets a conservative value.
EngineScores(output) ==
  IF opportunity.dimensions.given THEN opportunity.dimensions.scores
  ELSE [problem_evidence |->
          IF Active # {} /\ opportunity.problem # "none" THEN 15 ELSE 5,
        authority_clarity |-> IF opportunity.organization THEN 20 ELSE 5,
        technical_fit |-> 20,
        funding_path |-> IF Funded THEN 25 ELSE 5,
        strategic_alignment |-> IF opportunity.strategic THEN 30 ELSE 15,
        differentiated_advantage |-> 15,
        delivery_readiness |-> 10,
        risk_position |-> RiskScore(output.unknowns + output.risks + output.missing)]

EngineGates(output) ==
  LET Provisional(established) == IF established THEN "provisional" ELSE "fail"
  IN IF opportunity.gates.given THEN opportunity.gates.statuses
     ELSE [S |-> IF output.florida THEN "pass" ELSE "fail",
           P |-> Provisional(opportunity.problem # "none" /\ Active # {}),
           A1 |-> Provisional(opportunity.organization),
           T |-> "provisional",
           I |-> Provisional(Funded),
           A2 |-> Provisional(opportunity.strategic)]

\* Mutant: a record without a date is assessed without one.
AssessmentDateOpen == opportunity.assessment_date

AssessmentDate ==
  IF opportunity.assessment_date >= 0 THEN opportunity.assessment_date
  ELSE EffectiveDate

\* The review of the record, else of the module, moved when it is no date or
\* does not lie ahead.
StableReviewDate ==
  LET date == IF opportunity.review_date = NoDate THEN ReviewDate
              ELSE opportunity.review_date
  IN IF date > AssessmentDate THEN date ELSE AssessmentDate + ReviewPeriod

\* Controls are all taken from the record, or none is.
ControlsGiven ==
  opportunity.controls = Controls /\ opportunity.review_date # NoDate

Cited ==
  opportunity.dimensions.cites \union opportunity.gates.cites
    \union UNION {constraint.cites : constraint \in opportunity.constraints}

EngineEvidence == [id \in Active |-> evidence[id]]

EngineInput(output) ==
  [date |-> AssessmentDate,
   problem |-> opportunity.problem # "none",
   evidence |-> EngineEvidence,
   scores |-> EngineScores(output),
   gates |-> EngineGates(output),
   cites |-> Cited,
   constraints |-> {constraint.disposition : constraint \in opportunity.constraints},
   controls |-> Controls,
   review_date |-> IF ControlsGiven THEN opportunity.review_date
                   ELSE StableReviewDate]

\* The engine's result with the risk profile.
OperationalResult(input, output, day) ==
  LET result == Analyze(input, day)
      doubtful == \E id \in DOMAIN input.evidence :
                    input.evidence[id].state \in {"U", "D"}
  IN [result |-> result,
      risk |-> IF Failed(result.gates) THEN "High"
               ELSE IF output.risks > 0 \/ doubtful THEN "Moderate"
               ELSE "Low"]

-----------------------------------------------------------------------------
(* The assessments.                                                        *)

\* Refused without active evidence, without a current review, and when the
\* engine refuses the input.
RunSpatialAssessment ==
  /\ Active # {}
  /\ review.current
  /\ LET input == EngineInput(review.output)
     IN /\ Valid(input)
        /\ assessment' = [kind |-> "spatial_lifecycle",
                          input |-> input,
                          output |-> review.output,
                          derived |-> [dimensions |-> ~opportunity.dimensions.given,
                                       gates |-> ~opportunity.gates.given],
                          result |-> OperationalResult(input, review.output, today)]
  /\ UNCHANGED <<today, opportunity, evidence, review, changes>>

\* Reads the stored snapshot only.
ReplayMatches ==
  OperationalResult(assessment.input, assessment.output, today) = assessment.result

\* The bare records of an opportunity o, on the day asked for or today.
BareInput(o, requested) ==
  [date |-> IF requested = NoDate THEN today ELSE requested,
   problem |-> o.problem = "stated",
   evidence |-> EngineEvidence,
   scores |-> o.dimensions.scores,
   gates |-> o.gates.statuses,
   cites |-> o.dimensions.cites \union o.gates.cites
               \union UNION {constraint.cites : constraint \in o.constraints},
   constraints |-> {constraint.disposition : constraint \in o.constraints},
   controls |-> o.controls,
   review_date |-> o.review_date]

Bare(o, requested) ==
  LET input == BareInput(o, requested)
  IN [kind |-> "legacy", input |-> input, result |-> Analyze(input, today)]

RunAssessment ==
  /\ \E requested \in Dates :
       /\ Valid(BareInput(opportunity, requested))
       /\ assessment' = Bare(opportunity, requested)
  /\ UNCHANGED <<today, opportunity, evidence, review, changes>>

\* Updates the lifecycle controls of an opportunity that has an assessment,
\* and assesses it again; the update stays when the engine refuses the input.
Revalidate ==
  /\ assessment.kind # "none"
  /\ changes < MaxChanges
  /\ changes' = changes + 1
  /\ \E controls \in {{"next_action"}, Controls}, date, requested \in Dates :
       LET o == [opportunity EXCEPT !.controls = controls,
                                    !.review_date = date]
       IN /\ opportunity' = o
          /\ assessment' = IF Valid(BareInput(o, requested))
                             THEN Bare(o, requested) ELSE assessment
  /\ review' = [review EXCEPT !.current = FALSE]
  /\ UNCHANGED <<today, evidence>>

Tick ==
  /\ today < LastDay
  /\ today' = today + 1
  /\ UNCHANGED <<opportunity, evidence, review, assessment, changes>>

-----------------------------------------------------------------------------

Init ==
  /\ today = 0
  /\ \E start \in Start :
       opportunity = start.opportunity /\ evidence = start.evidence
  /\ review = [current |-> FALSE,
               output |-> [florida |-> FALSE, unknowns |-> 0, missing |-> 0, risks |-> 0]]
  /\ assessment = [kind |-> "none"]
  /\ changes = 0

Next ==
  \/ EditOpportunity
  \/ UpdateOpportunity
  \/ \E id \in Ids :
       \/ CreateEvidence(id)
       \/ CreateManagedEvidence(id)
       \/ UpdateManagedEvidence(id)
       \/ PatchEvidence(id)
       \/ VerifyEvidence(id)
       \/ ArchiveEvidence(id)
  \/ RunKnowledgeReview
  \/ RunSpatialAssessment
  \/ RunAssessment
  \/ Revalidate
  \/ Tick

Spec == Init /\ [][Next]_vars
=============================================================================
