------------------------ MODULE LifecycleProperties ------------------------
(***************************************************************************)
(* What the decision lifecycle promises: properties of module Lifecycle    *)
(* that hold however requests interleave.  What holds of requests that did *)
(* not overlap with certain others is in module LifecycleOverlap.          *)
(***************************************************************************)
EXTENDS Lifecycle

-----------------------------------------------------------------------------
(* However requests interleave.                                            *)

\* The package that belongs to an archive row is the one its own request
\* built: no other request, failing or racing for the same identifier,
\* replaced or removed it.  (os.link and the clean-up of create_archive.)
RowHasItsOwnPackage ==
    \A i \in DOMAIN archives : [id |-> i, by |-> archives[i].by] \in packages

\* The handler is not coming back: it died with the process, or failed to
\* remove a file, the temporary one or the package itself.
GaveUp(s) == req[s].pc = "lost" \/ req[s].res = "error"

\* A package nobody will ever refer to does not stay behind: its writer is
\* still at work, wrote the row with its number, or gave up.
NoOrphanPackage ==
    \A p \in packages :
        \/ req[p.by].pc \in {"tidy", "admit", "insert", "confirm", "unlink"}
        \/ p.id \in DOMAIN archives /\ archives[p.id].by = p.by
        \/ GaveUp(p.by)

\* A package whose row is missing gets it, or disappears: an archive request
\* that installed its file ends in one of the two, unless it gives up.
PackageSettles ==
    \A n \in 1..Cardinality(Slots) :
        PackageExists(n) /\ n \notin DOMAIN archives
            ~> \/ n \in DOMAIN archives
               \/ ~PackageExists(n)
               \/ \E p \in packages : p.id = n /\ GaveUp(p.by)

\* Derived records are a ledger: what a review, assessment, dossier or archive
\* was derived from, by whom, and what it supersedes never changes, and no
\* row is replaced by a racing insert with the same identifier.
Derivation(row) == <<row.opp, row.by, row.prov, row.sup>>

Extends(old, new) ==
    /\ Len(old) <= Len(new)
    /\ \A i \in DOMAIN old : Derivation(new[i]) = Derivation(old[i])

LedgerAppendOnly ==
    [][/\ Extends(reviews, reviews')
       /\ Extends(assessments, assessments')
       /\ Extends(dossiers, dossiers')
       /\ \A i \in DOMAIN archives : i \in DOMAIN archives' /\ archives'[i] = archives[i]]_vars

\* Every row refers to rows of its own opportunity, and to no row that does
\* not exist: the foreign keys of the schema and the opportunity_id the
\* handlers select by.  (A legacy assessment is derived from no review.)
OneOf(table, o, id) == id \in OfOpp(table, o)

Superseded(table, row) == row.sup = 0 \/ OneOf(table, row.opp, row.sup)

ReviewRefs(row, R) == Superseded(R, row)

AssessmentRefs(row, R, A) ==
    /\ Superseded(A, row)
    /\ row.kind = "spatial" => OneOf(R, row.opp, row.prov.review)

DossierRefs(row, R, A, D) ==
    /\ Superseded(D, row)
    /\ OneOf(R, row.opp, row.prov.review)
    /\ OneOf(A, row.opp, row.prov.assess)

ArchiveRefs(row, R, A, D) ==
    /\ OneOf(R, row.opp, row.prov.review)
    /\ OneOf(A, row.opp, row.prov.assess)
    /\ OneOf(D, row.opp, row.prov.dossier)

ReferentialIntegrity ==
    /\ \A r \in DOMAIN reviews : ReviewRefs(reviews[r], reviews)
    /\ \A a \in DOMAIN assessments : AssessmentRefs(assessments[a], reviews, assessments)
    /\ \A d \in DOMAIN dossiers :
          DossierRefs(dossiers[d], reviews, assessments, dossiers)
    /\ \A i \in DOMAIN archives :
          ArchiveRefs(archives[i], reviews, assessments, dossiers)

\* Generating a dossier is idempotent: however many requests for the same
\* inputs overlap, each having found no dossier yet, one dossier presents them.
OneDossierPerInput ==
    \A c, d \in DOMAIN dossiers :
        dossiers[c].opp = dossiers[d].opp /\ dossiers[c].prov = dossiers[d].prov => c = d

\* Two reviews never supersede the same one, as long as nobody completes
\* reviews by hand: the identifier read before the prior review is checked
\* makes the second insert fail.
NoForkedReviews ==
    \A i, j \in DOMAIN reviews :
        reviews[i].sup = reviews[j].sup /\ reviews[i].sup # 0 => i = j

-----------------------------------------------------------------------------
(* What closing promises, in terms of the tables.                          *)

Closed == {o \in Opps : opp[o].archived} \cup {e \in Evidence : evid[e].archived}

\* The record of an opportunity holds all that its archive refers to but the
\* reviews: a review may be completed by hand after its opportunity was closed.
OnFile ==
    [x \in Opps \cup Evidence |->
        IF x \in Opps
        THEN [opportunity |-> opp[x],
              evidence |-> [e \in {y \in Evidence : evid[y].opp = x} |-> evid[e]],
              assessments |-> [a \in OfOpp(assessments, x) |-> assessments[a]],
              dossiers |-> [d \in OfOpp(dossiers, x) |-> dossiers[d]]]
        ELSE evid[x]]

\* A request is past the last look at the archived flags and before its write.
Admitted(s) == req[s].pc \in {"write", "insert"} /\ req[s].kind \notin {"review", "complete"}

AdmittedTo ==
    [s \in Slots |->
        IF ~Admitted(s) THEN {}
        ELSE {req[s].opp} \cup
             (IF req[s].kind \in {"updateEvidence", "archiveEvidence"} THEN {req[s].item} ELSE {})]

AttestedOf ==
    [x \in Opps \cup Evidence |-> {archives[i].prov : i \in OfOpp(archives, x)}]

Closing == INSTANCE Closure WITH
    Records <- Opps \cup Evidence, Requests <- Slots,
    closed <- Closed, content <- OnFile, admitted <- AdmittedTo, attested <- AttestedOf

\* Closing, by DELETE or with an archive package, is final but for the writes
\* that were on their way: a handler looks at the archived flags many reads
\* before it writes, so a closed opportunity and archived evidence still take
\* the one write of each request that had looked by then, and none other.
ImplementsClosure == Closing!Spec

=============================================================================
