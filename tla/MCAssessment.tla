---------------------------- MODULE MCAssessment ----------------------------
(***************************************************************************)
(* Instances of the assessment for TLC.                                    *)
(***************************************************************************)
EXTENDS AssessmentProperties, TLC

CONSTANTS e1, e2

All(score) == [d \in Dimensions |-> score]

NoAppraisal == [given |-> FALSE, scores |-> << >>, cites |-> {}]
NoRuling == [given |-> FALSE, statuses |-> << >>, cites |-> {}]
Appraised(score, cites) == [given |-> TRUE, scores |-> All(score), cites |-> cites]
Ruled(status, cites) ==
  [given |-> TRUE, statuses |-> [k \in GateKeys |-> status], cites |-> cites]

\* A score that rejects, one just short of each threshold and on it; one out
\* of range.
MCAppraisals ==
  {NoAppraisal, Appraised(10, {}), Appraised(40, {e1}), Appraised(60, {})}
    \union {[Appraised(40, {e1}) EXCEPT !.scores.risk_position = 39],
            [Appraised(30, {}) EXCEPT !.scores.risk_position = 50]}
MCRulings ==
  {NoRuling, Ruled("pass", {}), Ruled("provisional", {e1})}
    \union {[Ruled("pass", {}) EXCEPT !.statuses.A1 = "fail"]}
MCFatalSets ==
  {{}} \union {{[disposition |-> d, cites |-> {}]} : d \in {"hold", "reject"}}
MCTexts == {{}, {"funding"}, Topics}

\* A record as it is created, and the reference opportunity with its evidence,
\* which a new installation comes with (reference.py).
NewOpportunity ==
  [organization |-> FALSE, florida |-> FALSE, strategic |-> FALSE,
   problem |-> "none", dimensions |-> NoAppraisal, gates |-> NoRuling,
   constraints |-> {}, controls |-> {}, review_date |-> NoDate,
   assessment_date |-> NoDate]
ReferenceOpportunity ==
  [NewOpportunity EXCEPT !.organization = TRUE, !.florida = TRUE,
                         !.strategic = TRUE, !.problem = "stated"]
Item(state, text) ==
  [state |-> state, source |-> TRUE, material |-> TRUE, text |-> text,
   cautioned |-> FALSE, archived |-> FALSE]

\* The best there is, with controls to be reviewed on day 1.
AppraisedOpportunity ==
  [ReferenceOpportunity EXCEPT
     !.dimensions = Appraised(40, {e1}), !.gates = Ruled("pass", {}),
     !.controls = Controls, !.review_date = 1]

MCStart ==
  {[opportunity |-> NewOpportunity, evidence |-> << >>],
   [opportunity |-> ReferenceOpportunity, evidence |-> [e \in {e1} |-> Item("A", {"florida"})]],
   [opportunity |-> ReferenceOpportunity,
    evidence |-> [e \in {e1, e2} |-> Item("S", Topics)]],
   [opportunity |-> AppraisedOpportunity,
    evidence |-> [e \in {e1, e2} |-> Item(IF e = e1 THEN "V" ELSE "S", Topics)]]}
=============================================================================
