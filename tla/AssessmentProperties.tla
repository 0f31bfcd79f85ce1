------------------------ MODULE AssessmentProperties ------------------------
(***************************************************************************)
(* What an assessment may be relied upon for.                              *)
(***************************************************************************)
EXTENDS Assessment

Operational == assessment.kind = "spatial_lifecycle"

\* The engine's result of an assessment of either kind.
Outcome(a) == IF a.kind = "legacy" THEN a.result ELSE a.result.result

\* The adapter "deliberately uses conservative values": what nobody assessed
\* never authorizes anything.  Scores the adapter derived, all at their best
\* and with the best of evidence, are not even worth monitoring, and gates it
\* derived never let an opportunity be pursued.
DefaultsNeverAuthorize ==
  Operational =>
    /\ assessment.derived.dimensions =>
         Outcome(assessment).decision \in {"Hold", "Reject"}
    /\ assessment.derived.gates => Outcome(assessment).decision # "Pursue"

\* An opportunity is recommended for pursuit only on material evidence some of
\* which is Verified and has its source, and none Unknown or Disputed: no
\* amount of Supported evidence makes a high confidence.
PursuitRestsOnVerifiedEvidence ==
  assessment.kind # "none" /\ Outcome(assessment).decision = "Pursue" =>
    LET E == assessment.input.evidence
        material == {id \in DOMAIN E : E[id].material}
    IN /\ \E id \in material : E[id].state = "V" /\ E[id].source
       /\ \A id \in material : E[id].state \notin {"U", "D"}

\* A stored assessment replays to the same result, profile of risks included,
\* on any later day and whatever became of the records since.
ReplayReproduces == Operational => ReplayMatches

StateRank == [U |-> 0, D |-> 1, A |-> 2, S |-> 3, V |-> 4]

\* Input b is at least as good as a in everything the engine looks at.
Improves(a, b) ==
  LET E == a.input.evidence
      F == b.input.evidence
  IN /\ DOMAIN E = DOMAIN F
     /\ \A id \in DOMAIN E : /\ StateRank[E[id].state] <= StateRank[F[id].state]
                             /\ E[id].material = F[id].material
     /\ \A d \in Dimensions : a.input.scores[d] <= b.input.scores[d]
     /\ \A k \in GateKeys \union {"L"} :
          GateRank[Outcome(a).gates[k]] <= GateRank[Outcome(b).gates[k]]
     /\ b.input.constraints \subseteq a.input.constraints

\* Of two assessments in a row, the one with the better input never has the
\* lower recommendation, with one exception: what was held by a gate or a
\* fatal constraint is rejected once nothing holds it, if it scores below 25.
ImprovingNeverLowers ==
  [][LET a == assessment
         b == assessment'
     IN a.kind # "none" /\ Improves(a, b) =>
          \/ DecisionRank[Outcome(a).decision] <= DecisionRank[Outcome(b).decision]
          \/ /\ Outcome(a).decision = "Hold"
             /\ Failed(Outcome(a).gates) \/ a.input.constraints # {}
             /\ Outcome(b).score < 2500]_vars

\* "Verified evidence requires a source" (service.py _validate_evidence): SIO-001
\* calls a verified fact one "directly supported by an authoritative, current,
\* inspectable source".
VerifiedHasSource ==
  \A id \in Active : evidence[id].state = "V" => evidence[id].source
=============================================================================
