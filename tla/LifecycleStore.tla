--------------------------- MODULE LifecycleStore ---------------------------
(***************************************************************************)
(* The durable state of the AnchorIntel decision service and every write   *)
(* transaction on it: the SQLite tables of repository.py and the           *)
(* directory of archive packages.  Every operator below that primes a      *)
(* variable is ONE SQLite transaction or ONE file-system call; the         *)
(* requests that issue them, and the reads they base them on, are in       *)
(* module Lifecycle.                                                       *)
(*                                                                         *)
(* Rows of reviews, assessments, dossiers and archives are never deleted,  *)
(* so "the lowest unused number" the code allocates is one more than the   *)
(* length of the table: a table is a sequence and an identifier is an      *)
(* index.  0 is "no row".                                                  *)
(*                                                                         *)
(* Abstracted: the content of records, reports and packages; the audit log *)
(* and the lifecycle_events table, written and never read by a guard; the  *)
(* knowledge module, whose version is fixed by the deployment.             *)
(***************************************************************************)
EXTENDS Naturals, Sequences

CONSTANTS
    Opps,       \* opportunities
    NoOpp,      \* the owner of an evidence identifier not yet in use
    Evidence,   \* evidence identifiers
    Slots,      \* requests: each one is made at most once
    NoSlot,     \* the author of a seeded row
    Seed        \* <<opportunity, evidence>> pairs that start with a current
                \* review, assessment and dossier

ASSUME StoreAssumption ==
    /\ NoOpp \notin Opps
    /\ Opps \cap Evidence = {}
    /\ NoSlot \notin Slots
    /\ Seed \in Seq(Opps \X Evidence)
    /\ \A i, j \in DOMAIN Seed :
           i # j => Seed[i][1] # Seed[j][1] /\ Seed[i][2] # Seed[j][2]

VARIABLES
    opp,          \* opportunities: revision, updated_at, archived, lifecycle_state
    evid,         \* evidence: opportunity, revision, archived
    reviews,      \* knowledge_reviews
    assessments,  \* assessments
    dossiers,     \* executive_dossiers
    archives,     \* archives
    packages      \* AR-n.zip files: name and the request that wrote the content

store == <<opp, evid, reviews, assessments, dossiers, archives, packages>>

-----------------------------------------------------------------------------
(* Types.                                                                  *)

States == {"Unassessed", "Recommended", "Archived"}
Statuses == {"Draft", "Incomplete", "Completed", "Superseded"}
OpenStatuses == {"Draft", "Incomplete"}
AssessmentKinds == {"spatial", "legacy"}

\* What a derived record remembers of the rows it was derived from.
Provenance ==
    [rev: Nat, stamp: Nat, trace: SUBSET (Evidence \X Nat),
     review: Nat, reviewRev: Nat, assess: Nat, dossier: Nat]

NoProvenance ==
    [rev |-> 0, stamp |-> 0, trace |-> {},
     review |-> 0, reviewRev |-> 0, assess |-> 0, dossier |-> 0]

Authors == Slots \cup {NoSlot}

OppRow == [rev: Nat, stamp: Nat, archived: BOOLEAN, state: States]
EvidRow == [opp: Opps \cup {NoOpp}, rev: Nat, archived: BOOLEAN]
ReviewRow ==
    [opp: Opps, by: Authors, prov: Provenance, sup: Nat,
     status: Statuses, rev: Nat, failed: BOOLEAN]
AssessmentRow ==
    [opp: Opps, by: Authors, prov: Provenance, sup: Nat, kind: AssessmentKinds]
DossierRow == [opp: Opps, by: Authors, prov: Provenance, sup: Nat]
ArchiveRow == [opp: Opps, by: Authors, prov: Provenance]
Package == [id: Nat, by: Slots]

StoreTypeOK ==
    /\ opp \in [Opps -> OppRow]
    /\ evid \in [Evidence -> EvidRow]
    /\ reviews \in Seq(ReviewRow)
    /\ assessments \in Seq(AssessmentRow)
    /\ dossiers \in Seq(DossierRow)
    /\ archives \in Seq(ArchiveRow)
    /\ packages \subseteq Package

-----------------------------------------------------------------------------
(* What the code reads.                                                    *)

NextId(table) == Len(table) + 1

\* The sorted <<evidence id, revision>> list of the active evidence.
Trace(o) ==
    {<<e, evid[e].rev>> : e \in {x \in Evidence : evid[x].opp = o /\ ~evid[x].archived}}

IsNewest(i, ids) == i \in ids /\ \A j \in ids : j <= i

Newest(ids) ==
    IF \E i \in ids : IsNewest(i, ids) THEN CHOOSE i \in ids : IsNewest(i, ids) ELSE 0

OfOpp(table, o) == {i \in DOMAIN table : table[i].opp = o}

\* A row is stale when the opportunity or its active evidence moved on.
Matches(prov, o) == prov.rev = opp[o].rev /\ prov.trace = Trace(o)

ReviewStale(r) == ~Matches(reviews[r].prov, reviews[r].opp)

ReviewEligible(r) == reviews[r].status = "Completed" /\ ~ReviewStale(r)

HasSuccessor(table, i) == \E j \in DOMAIN table : table[j].sup = i

AssessmentEligible(a) ==
    LET row == assessments[a]
    IN  /\ row.kind = "spatial"
        /\ Matches(row.prov, row.opp)
        /\ ReviewEligible(row.prov.review)
        /\ reviews[row.prov.review].rev = row.prov.reviewRev
        /\ ~HasSuccessor(assessments, a)

\* The input snapshot of a dossier, as its input hash distinguishes it.  It
\* holds the opportunity's updated_at, which the revision checks do not.
Snapshot(o, a) ==
    LET r == assessments[a].prov.review
    IN  [rev |-> opp[o].rev, stamp |-> opp[o].stamp, trace |-> Trace(o),
         review |-> r, reviewRev |-> reviews[r].rev, assess |-> a, dossier |-> 0]

DossierEligible(d) ==
    LET row == dossiers[d]
    IN  /\ AssessmentEligible(row.prov.assess)
        /\ Snapshot(row.opp, row.prov.assess) = row.prov
        /\ ~HasSuccessor(dossiers, d)

CurrentReviews(o) == {r \in OfOpp(reviews, o) : ReviewEligible(r)}
CurrentAssessments(o) == {a \in OfOpp(assessments, o) : AssessmentEligible(a)}
CurrentDossiers(o) == {d \in OfOpp(dossiers, o) : DossierEligible(d)}

\* Mutant: the newest current review of any opportunity.
DefaultReviewOfAny(o) == Newest({r \in DOMAIN reviews : ReviewEligible(r)})

\* The review a request for an assessment uses when it names none: the newest
\* current one, otherwise the newest one that is not superseded.
DefaultReview(o) ==
    IF CurrentReviews(o) # {} THEN Newest(CurrentReviews(o))
    ELSE Newest({r \in OfOpp(reviews, o) : reviews[r].status # "Superseded"})

-----------------------------------------------------------------------------
(* What the code writes.                                                   *)

\* UPDATE opportunities: the statement names the row by its key alone.
UpdateOpportunity(o) ==
    /\ opp' = [opp EXCEPT ![o].rev = @ + 1, ![o].stamp = @ + 1]
    /\ UNCHANGED <<evid, reviews, assessments, dossiers, archives, packages>>

\* DELETE /opportunities: closure without an archive package.
ArchiveOpportunity(o) ==
    /\ opp' = [opp EXCEPT ![o].rev = @ + 1, ![o].stamp = @ + 1,
                          ![o].archived = TRUE, ![o].state = "Archived"]
    /\ UNCHANGED <<evid, reviews, assessments, dossiers, archives, packages>>

InsertEvidence(e, o) ==
    /\ evid[e].opp = NoOpp
    /\ evid' = [evid EXCEPT ![e] = [opp |-> o, rev |-> 1, archived |-> FALSE]]
    /\ UNCHANGED <<opp, reviews, assessments, dossiers, archives, packages>>

UpdateEvidence(e) ==
    /\ evid' = [evid EXCEPT ![e].rev = @ + 1]
    /\ UNCHANGED <<opp, reviews, assessments, dossiers, archives, packages>>

ArchiveEvidence(e) ==
    /\ evid' = [evid EXCEPT ![e].rev = @ + 1, ![e].archived = TRUE]
    /\ UNCHANGED <<opp, reviews, assessments, dossiers, archives, packages>>

\* The primary key refuses an identifier that was taken meanwhile.
IdFree(table, id) == id \notin DOMAIN table

\* The reviews after UPDATE ... 'Superseded' of the one that row supersedes.
ClosedBy(row) ==
    [r \in DOMAIN reviews |->
        IF r = row.sup
        THEN [reviews[r] EXCEPT !.status = "Superseded", !.rev = @ + 1]
        ELSE reviews[r]]

\* Mutant: INSERT OR REPLACE.
InsertReviewReplacing(row, id) ==
    /\ reviews' = [r \in DOMAIN reviews \cup {id} |->
                     IF r = id THEN row ELSE ClosedBy(row)[r]]
    /\ UNCHANGED <<opp, evid, assessments, dossiers, archives, packages>>

\* The new review and the closing of the one it supersedes, in one
\* transaction; the status of the prior row is not looked at again.
InsertReview(row, id) ==
    /\ IdFree(reviews, id)
    /\ reviews' = Append(ClosedBy(row), row)
    /\ UNCHANGED <<opp, evid, assessments, dossiers, archives, packages>>

\* Mutant: the status of another entity.
CompleteReviewMisspelled(r) ==
    /\ reviews' = [reviews EXCEPT ![r].status = "Complete", ![r].rev = @ + 1]
    /\ UNCHANGED <<opp, evid, assessments, dossiers, archives, packages>>

\* UPDATE knowledge_reviews ... WHERE review_id: neither status nor revision
\* is part of the condition.
CompleteReview(r) ==
    /\ reviews' = [reviews EXCEPT ![r].status = "Completed", ![r].rev = @ + 1]
    /\ UNCHANGED <<opp, evid, assessments, dossiers, archives, packages>>

\* The assessment and the opportunity's new lifecycle_state and updated_at.
InsertAssessment(row, id) ==
    /\ IdFree(assessments, id)
    /\ assessments' = Append(assessments, row)
    /\ opp' = [opp EXCEPT ![row.opp].state = "Recommended", ![row.opp].stamp = @ + 1]
    /\ UNCHANGED <<evid, reviews, dossiers, archives, packages>>

\* Mutant: the table without its UNIQUE constraint.
SnapshotAlwaysFree(row) == TRUE

\* UNIQUE(opportunity_id, input_hash).
SnapshotFree(row) ==
    \A d \in DOMAIN dossiers : dossiers[d].opp # row.opp \/ dossiers[d].prov # row.prov

InsertDossier(row, id) ==
    /\ IdFree(dossiers, id)
    /\ SnapshotFree(row)
    /\ dossiers' = Append(dossiers, row)
    /\ UNCHANGED <<opp, evid, reviews, assessments, archives, packages>>

\* The partial unique index: one archive in status Archived per opportunity.
NoCurrentArchive(o) == OfOpp(archives, o) = {}

\* Mutant: archival counts as an edit of the opportunity.
InsertArchiveTouching(row, id) ==
    /\ IdFree(archives, id)
    /\ NoCurrentArchive(row.opp)
    /\ archives' = Append(archives, row)
    /\ opp' = [opp EXCEPT ![row.opp].archived = TRUE, ![row.opp].state = "Archived",
                          ![row.opp].stamp = @ + 1]
    /\ UNCHANGED <<evid, reviews, assessments, dossiers, packages>>

\* The archive row and the closing of the opportunity; the revision and
\* updated_at of the opportunity are preserved.
InsertArchive(row, id) ==
    /\ IdFree(archives, id)
    /\ NoCurrentArchive(row.opp)
    /\ archives' = Append(archives, row)
    /\ opp' = [opp EXCEPT ![row.opp].archived = TRUE, ![row.opp].state = "Archived"]
    /\ UNCHANGED <<evid, reviews, assessments, dossiers, packages>>

PackageExists(n) == \E p \in packages : p.id = n

\* Mutant: os.replace instead of os.link.
ReplacePackage(n, s) ==
    /\ packages' = {p \in packages : p.id # n} \cup {[id |-> n, by |-> s]}
    /\ UNCHANGED <<opp, evid, reviews, assessments, dossiers, archives>>

\* os.link: fails when the name is taken.
LinkPackage(n, s) ==
    /\ ~PackageExists(n)
    /\ packages' = packages \cup {[id |-> n, by |-> s]}
    /\ UNCHANGED <<opp, evid, reviews, assessments, dossiers, archives>>

\* destination.unlink(missing_ok=True): by name, whoever wrote the content.
UnlinkPackage(n) ==
    /\ packages' = {p \in packages : p.id # n}
    /\ UNCHANGED <<opp, evid, reviews, assessments, dossiers, archives>>

-----------------------------------------------------------------------------
(* Initial contents: the chain that one review, one assessment and one     *)
(* dossier request leave behind, for each pair of Seed.                    *)

SeededOpps == {Seed[i][1] : i \in DOMAIN Seed}
SeededEvidence == {Seed[i][2] : i \in DOMAIN Seed}
SeedOwner(e) == Seed[CHOOSE i \in DOMAIN Seed : Seed[i][2] = e][1]

SeedTrace(i) == {<<Seed[i][2], 1>>}

StoreInit ==
    /\ opp = [o \in Opps |->
                IF o \in SeededOpps
                THEN [rev |-> 1, stamp |-> 2, archived |-> FALSE, state |-> "Recommended"]
                ELSE [rev |-> 1, stamp |-> 1, archived |-> FALSE, state |-> "Unassessed"]]
    /\ evid = [e \in Evidence |->
                IF e \in SeededEvidence
                THEN [opp |-> SeedOwner(e), rev |-> 1, archived |-> FALSE]
                ELSE [opp |-> NoOpp, rev |-> 0, archived |-> FALSE]]
    /\ reviews = [i \in 1..Len(Seed) |->
                [opp |-> Seed[i][1], by |-> NoSlot, sup |-> 0,
                 prov |-> [NoProvenance EXCEPT !.rev = 1, !.trace = SeedTrace(i)],
                 status |-> "Completed", rev |-> 1, failed |-> FALSE]]
    /\ assessments = [i \in 1..Len(Seed) |->
                [opp |-> Seed[i][1], by |-> NoSlot, sup |-> 0,
                 prov |-> [NoProvenance EXCEPT !.rev = 1, !.trace = SeedTrace(i),
                                               !.review = i, !.reviewRev = 1],
                 kind |-> "spatial"]]
    /\ dossiers = [i \in 1..Len(Seed) |->
                [opp |-> Seed[i][1], by |-> NoSlot, sup |-> 0,
                 prov |-> [NoProvenance EXCEPT !.rev = 1, !.stamp = 2,
                                               !.trace = SeedTrace(i), !.review = i,
                                               !.reviewRev = 1, !.assess = i]]]
    /\ archives = <<>>
    /\ packages = {}
=============================================================================
