-------------------------- MODULE LifecycleOverlap --------------------------
(***************************************************************************)
(* Which requests of the decision service overlapped, and what holds of    *)
(* those that did not.  The server runs a thread per request, and a        *)
(* handler reads on one connection and writes on another: of requests that *)
(* overlap on one opportunity, a check may be out of date at the write.    *)
(* met is a history variable: no step reads it.  The properties below name *)
(* the very pair of requests that must have met for each of them to fail,  *)
(* and hold whatever all the others do at the same time.                   *)
(***************************************************************************)
EXTENDS LifecycleProperties

VARIABLE met   \* pairs of requests that were in flight about one opportunity

\* Requests in flight about the same opportunity.
Together(s, t) == s # t /\ {s, t} \subseteq InFlight /\ req[s].opp = req[t].opp

Meeting == {pair \in Slots \X Slots : Together(pair[1], pair[2])}

ovars == <<vars, met>>

OInit == Init /\ met = {}

ONext == Next /\ met' = met \cup Meeting'

OSpec == OInit /\ [][ONext]_ovars

\* The request met no other of its opportunity.
Alone(s) == \A t \in Slots : <<s, t>> \notin met

-----------------------------------------------------------------------------

\* Two requests with the same If-Match on the same record do not both succeed,
\* unless they met: the revision is compared on one connection and the UPDATE
\* on another names the row by its key alone.
ConditionalWritesExclusive ==
    \A s, t \in Slots :
        /\ s # t
        /\ req[s].kind = req[t].kind /\ req[s].kind \in {"edit", "updateEvidence"}
        /\ req[s].res = "ok" /\ req[t].res = "ok"
        /\ req[s].opp = req[t].opp /\ req[s].item = req[t].item
        /\ req[s].expect # 0 /\ req[s].expect = req[t].expect
        => <<s, t>> \in met

\* A review that was superseded is not active again, unless the request that
\* superseded it met one that completed a review.
SupersededIsFinal ==
    \A r, j \in DOMAIN reviews :
        reviews[j].sup = r /\ reviews[r].status # "Superseded" =>
            \E t \in Slots :
                req[t].kind = "complete" /\ req[t].res = "ok" /\ <<reviews[j].by, t>> \in met

\* There is at most one current assessment of an opportunity whose assessments
\* were each made alone, whatever else overlapped: a new one supersedes it.
MadeAlone(o) ==
    \A a \in OfOpp(assessments, o) :
        assessments[a].kind = "spatial" => Alone(assessments[a].by)

OneCurrentAssessment ==
    \A o \in Opps : MadeAlone(o) => \A a, b \in CurrentAssessments(o) : a = b

\* Archival is not upstream staleness: everything the archive row refers to
\* stays current for ever, and the package is consistent: its review revision
\* is the one the archived dossier and assessment were derived from.  It does
\* so when the archive request was alone, whatever overlapped before and after.
ArchivedChainCurrent ==
    \A i \in DOMAIN archives :
        Alone(archives[i].by) =>
            LET p == archives[i].prov
            IN  /\ Matches(p, archives[i].opp)
                /\ DossierEligible(p.dossier)
                /\ p.reviewRev = dossiers[p.dossier].prov.reviewRev
                /\ p.reviewRev = assessments[p.assess].prov.reviewRev
                /\ p.rev = dossiers[p.dossier].prov.rev
=============================================================================
