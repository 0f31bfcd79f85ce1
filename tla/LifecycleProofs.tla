--------------------------- MODULE LifecycleProofs ---------------------------
(***************************************************************************)
(* Theorems about the decision lifecycle, for any number of requests,      *)
(* opportunities and evidence records: those that hold however requests    *)
(* interleave first, then closing, and what holds of the requests that did *)
(* not meet certain others.                                                *)
(***************************************************************************)
EXTENDS LifecycleOverlap, FiniteSetTheorems, SequenceTheorems, TLAPS

-----------------------------------------------------------------------------
(* Facts about the operators the store is built from.                      *)

\* Appending a row keeps a table a table and its older rows in place.
LEMMA AppendRow ==
    ASSUME NEW S, NEW table \in Seq(S), NEW row \in S
    PROVE  /\ Append(table, row) \in Seq(S)
           /\ DOMAIN table = 1..Len(table)
           /\ Len(table) \in Nat
           /\ DOMAIN Append(table, row) = 1..(Len(table) + 1)
           /\ Len(Append(table, row)) = Len(table) + 1
           /\ \A i \in DOMAIN table : Append(table, row)[i] = table[i]
           /\ Append(table, row)[Len(table) + 1] = row
  OBVIOUS

\* The newest of some identifiers is one of them, or 0.
LEMMA NewestIsOneOf ==
    ASSUME NEW ids
    PROVE  Newest(ids) = 0 \/ Newest(ids) \in ids
  BY DEF Newest, IsNewest

\* A review that changes its status is a review.
LEMMA ReviewMoved ==
    ASSUME NEW q \in ReviewRow, NEW status \in Statuses
    PROVE  [q EXCEPT !.status = status, !.rev = @ + 1] \in ReviewRow
<1>1. q.rev + 1 \in Nat
  BY DEF ReviewRow
<1>2. \A n \in Nat : [q EXCEPT !.status = status, !.rev = n] \in ReviewRow
  BY DEF ReviewRow
<1> QED
  BY <1>1, <1>2

\* Superseding a review changes no other row and keeps their number.
LEMMA ClosedByKeepsRows ==
    ASSUME reviews \in Seq(ReviewRow), NEW row
    PROVE  /\ ClosedBy(row) \in Seq(ReviewRow)
           /\ Len(ClosedBy(row)) = Len(reviews)
           /\ \A r \in DOMAIN reviews :
                 ClosedBy(row)[r] =
                   IF r = row.sup
                   THEN [reviews[r] EXCEPT !.status = "Superseded", !.rev = @ + 1]
                   ELSE reviews[r]
<1>1. DOMAIN reviews = 1..Len(reviews) /\ Len(reviews) \in Nat
  OBVIOUS
<1>2. \A r \in DOMAIN reviews : reviews[r] \in ReviewRow
  OBVIOUS
<1>3. \A r \in DOMAIN reviews : ClosedBy(row)[r] \in ReviewRow
  BY <1>2, ReviewMoved DEF ClosedBy, Statuses
<1>4. ClosedBy(row) \in [1..Len(reviews) -> ReviewRow]
  BY <1>1, <1>3 DEF ClosedBy
<1>5. ClosedBy(row) \in Seq(ReviewRow)
  BY <1>1, <1>4, SeqDef
<1>6. Len(ClosedBy(row)) = Len(reviews)
  BY <1>1, <1>4, <1>5, LenProperties
<1> QED
  BY <1>5, <1>6 DEF ClosedBy

-----------------------------------------------------------------------------
(* Requests.                                                               *)

LEMMA ProvenanceTypes ==
    /\ NoProvenance \in Provenance
    /\ \A q \in Provenance, n, m \in Nat, t \in SUBSET (Evidence \X Nat) :
          /\ [q EXCEPT !.rev = n, !.trace = t] \in Provenance
          /\ [q EXCEPT !.review = n, !.reviewRev = m] \in Provenance
  BY DEF Provenance, NoProvenance

LEMMA IdleTyped == Idle \in Request /\ Idle.pc \notin Steps
<1>1. NoProvenance \in Provenance
  BY ProvenanceTypes
<1> QED
  BY <1>1 DEF Request, Idle, Modes, Results, Steps

\* An answered request is well typed and no longer in flight.
LEMMA AnsweredTyped ==
    ASSUME NEW j \in Request, NEW res \in Results
    PROVE  Answered(j, res) \in Request /\ Answered(j, res).pc = "done"
  BY IdleTyped DEF Request, Answered

\* What a handler changes of its request keeps it one.
LEMMA RequestTypes ==
    ASSUME NEW j \in Request, NEW pc \in Steps
    PROVE  /\ [j EXCEPT !.pc = pc] \in Request
           /\ \A n \in Nat : [j EXCEPT !.pc = pc, !.id = n] \in Request
           /\ \A n \in Nat : [j EXCEPT !.pc = pc, !.sup = n] \in Request
           /\ \A p \in Provenance : [j EXCEPT !.pc = pc, !.prov = p] \in Request
           /\ \A n \in Nat, p \in Provenance :
                 [j EXCEPT !.pc = pc, !.id = n, !.prov = p] \in Request
  BY DEF Request

\* The rows an unanswered request refers to exist and belong to its
\* opportunity, and it asks for what its route accepts; R, A and D are the
\* reviews, assessments and dossiers.
JobRefs(j, R, A, D) ==
    j.pc \in Steps =>
        /\ j.opp \in Opps
        /\ j.kind \in Kinds
        /\ j.kind = "review" =>
              /\ j.mode \in {"Draft", "Completed", "Fails"}
              /\ j.target = 0 \/ OneOf(R, j.opp, j.target)
        /\ j.kind = "complete" => OneOf(R, j.opp, j.target)
        /\ j.kind \in {"addEvidence", "updateEvidence", "archiveEvidence"} =>
              j.item \in Evidence
        /\ j.kind = "assess" =>
              /\ j.target = 0 \/ OneOf(R, j.opp, j.target)
              /\ j.pc # "ready" => OneOf(R, j.opp, j.prov.review)
        /\ j.kind \in {"assess", "legacy"} => Superseded(A, j)
        /\ j.kind = "dossier" =>
              /\ j.target = 0 \/ OneOf(A, j.opp, j.target)
              /\ Superseded(D, j)
              /\ j.pc # "ready" =>
                    /\ OneOf(R, j.opp, j.prov.review)
                    /\ OneOf(A, j.opp, j.prov.assess)
        /\ j.kind = "archive" /\ j.pc # "ready" =>
              /\ OneOf(R, j.opp, j.prov.review)
              /\ OneOf(A, j.opp, j.prov.assess)
              /\ OneOf(D, j.opp, j.prov.dossier)

RequestRefs == \A s \in Slots : JobRefs(req[s], reviews, assessments, dossiers)

\* The inductive invariant behind TypeOK and ReferentialIntegrity.
Consistent == TypeOK /\ ReferentialIntegrity /\ RequestRefs

\* A table that keeps its rows, and their opportunities.
Keeps(old, new) == \A i \in DOMAIN old : i \in DOMAIN new /\ new[i].opp = old[i].opp

LEMMA JobRefsKept ==
    ASSUME NEW j, NEW R, NEW R2, NEW A, NEW A2, NEW D, NEW D2,
           Keeps(R, R2), Keeps(A, A2), Keeps(D, D2), JobRefs(j, R, A, D)
    PROVE  JobRefs(j, R2, A2, D2)
  BY DEF Keeps, JobRefs, OneOf, OfOpp, Superseded

LEMMA RowRefsKept ==
    ASSUME NEW row, NEW R, NEW R2, NEW A, NEW A2, NEW D, NEW D2,
           Keeps(R, R2), Keeps(A, A2), Keeps(D, D2)
    PROVE  /\ ReviewRefs(row, R) => ReviewRefs(row, R2)
           /\ AssessmentRefs(row, R, A) => AssessmentRefs(row, R2, A2)
           /\ DossierRefs(row, R, A, D) => DossierRefs(row, R2, A2, D2)
           /\ ArchiveRefs(row, R, A, D) => ArchiveRefs(row, R2, A2, D2)
  BY DEF Keeps, ReviewRefs, AssessmentRefs, DossierRefs, ArchiveRefs,
         OneOf, OfOpp, Superseded

\* The frame of every step of a handler: the store stays well formed and
\* keeps its rows, one request becomes job.
LEMMA Frame ==
    ASSUME Consistent, NEW s \in Slots, NEW job \in Request, Become(s, job),
           StoreTypeOK', ReferentialIntegrity', crashes' \in Nat,
           Keeps(reviews, reviews'), Keeps(assessments, assessments'),
           Keeps(dossiers, dossiers'),
           JobRefs(job, reviews', assessments', dossiers')
    PROVE  Consistent'
<1>1. req' \in [Slots -> Request]
  BY DEF Consistent, TypeOK, Become
<1>2. ASSUME NEW t \in Slots
      PROVE  JobRefs(req'[t], reviews', assessments', dossiers')
  <2>1. JobRefs(req[t], reviews, assessments, dossiers)
    BY DEF Consistent, RequestRefs
  <2>2. JobRefs(req[t], reviews', assessments', dossiers')
    BY <2>1, JobRefsKept
  <2>3. req'[t] = IF t = s THEN job ELSE req[t]
    BY DEF Become, Consistent, TypeOK
  <2> QED
    BY <2>2, <2>3
<1> QED
  BY <1>1, <1>2 DEF Consistent, TypeOK, RequestRefs

\* A step that leaves the store alone.
LEMMA ReadFrame ==
    ASSUME Consistent, NEW s \in Slots, NEW job \in Request, Become(s, job), ReadOnly,
           JobRefs(job, reviews, assessments, dossiers)
    PROVE  Consistent'
<1>1. StoreTypeOK' /\ ReferentialIntegrity' /\ crashes' \in Nat
  BY DEF Consistent, TypeOK, StoreTypeOK, ReferentialIntegrity, ReadOnly, store
<1>2. /\ Keeps(reviews, reviews') /\ Keeps(assessments, assessments')
      /\ Keeps(dossiers, dossiers')
  BY DEF Keeps, ReadOnly, store
<1>3. JobRefs(job, reviews', assessments', dossiers')
  BY DEF ReadOnly, store
<1> QED
  BY <1>1, <1>2, <1>3, Frame

-----------------------------------------------------------------------------
(* The write transactions.                                                 *)

StoreKept ==
    /\ StoreTypeOK'
    /\ ReferentialIntegrity'
    /\ Keeps(reviews, reviews')
    /\ Keeps(assessments, assessments')
    /\ Keeps(dossiers, dossiers')

LEMMA OpportunityKept ==
    ASSUME Consistent, NEW o, UpdateOpportunity(o) \/ ArchiveOpportunity(o)
    PROVE  StoreKept
<1>1. opp' \in [Opps -> OppRow]
  <2>1. ASSUME NEW q \in OppRow
        PROVE  /\ [q EXCEPT !.rev = @ + 1, !.stamp = @ + 1] \in OppRow
               /\ [q EXCEPT !.rev = @ + 1, !.stamp = @ + 1,
                            !.archived = TRUE, !.state = "Archived"] \in OppRow
    <3>1. q.rev + 1 \in Nat /\ q.stamp + 1 \in Nat
      BY DEF OppRow
    <3>2. "Archived" \in States
      BY DEF States
    <3>3. \A n, m \in Nat, st \in States :
             /\ [q EXCEPT !.rev = n, !.stamp = m] \in OppRow
             /\ [q EXCEPT !.rev = n, !.stamp = m, !.archived = TRUE, !.state = st] \in OppRow
      BY DEF OppRow
    <3> QED
      BY <3>1, <3>2, <3>3
  <2>2. opp \in [Opps -> OppRow]
    BY DEF Consistent, TypeOK, StoreTypeOK
  <2>3. CASE UpdateOpportunity(o)
    BY <2>1, <2>2, <2>3 DEF UpdateOpportunity
  <2>4. CASE ArchiveOpportunity(o)
    BY <2>1, <2>2, <2>4 DEF ArchiveOpportunity
  <2> QED
    BY <2>3, <2>4
<1>2. UNCHANGED <<evid, reviews, assessments, dossiers, archives, packages>>
  BY DEF UpdateOpportunity, ArchiveOpportunity
<1> QED
  BY <1>1, <1>2
     DEF StoreKept, Consistent, TypeOK, StoreTypeOK, ReferentialIntegrity, Keeps

LEMMA EvidenceKept ==
    ASSUME Consistent, NEW e, NEW o \in Opps,
           InsertEvidence(e, o) \/ UpdateEvidence(e) \/ ArchiveEvidence(e)
    PROVE  StoreKept
<1>1. evid' \in [Evidence -> EvidRow]
  <2>1. ASSUME NEW q \in EvidRow
        PROVE  /\ [q EXCEPT !.rev = @ + 1] \in EvidRow
               /\ [q EXCEPT !.rev = @ + 1, !.archived = TRUE] \in EvidRow
    <3>1. q.rev + 1 \in Nat
      BY DEF EvidRow
    <3>2. \A n \in Nat : /\ [q EXCEPT !.rev = n] \in EvidRow
                         /\ [q EXCEPT !.rev = n, !.archived = TRUE] \in EvidRow
      BY DEF EvidRow
    <3> QED
      BY <3>1, <3>2
  <2>2. evid \in [Evidence -> EvidRow]
    BY DEF Consistent, TypeOK, StoreTypeOK
  <2>3. CASE InsertEvidence(e, o)
    BY <2>2, <2>3 DEF InsertEvidence, EvidRow
  <2>4. CASE UpdateEvidence(e)
    BY <2>1, <2>2, <2>4 DEF UpdateEvidence
  <2>5. CASE ArchiveEvidence(e)
    BY <2>1, <2>2, <2>5 DEF ArchiveEvidence
  <2> QED
    BY <2>3, <2>4, <2>5
<1>2. UNCHANGED <<opp, reviews, assessments, dossiers, archives, packages>>
  BY DEF InsertEvidence, UpdateEvidence, ArchiveEvidence
<1> QED
  BY <1>1, <1>2
     DEF StoreKept, Consistent, TypeOK, StoreTypeOK, ReferentialIntegrity, Keeps

LEMMA PackagesKept ==
    ASSUME Consistent, NEW n \in Nat, NEW s \in Slots,
           LinkPackage(n, s) \/ UnlinkPackage(n)
    PROVE  StoreKept
<1>1. packages' \subseteq Package
  BY DEF LinkPackage, UnlinkPackage, Package, Consistent, TypeOK, StoreTypeOK
<1>2. UNCHANGED <<opp, evid, reviews, assessments, dossiers, archives>>
  BY DEF LinkPackage, UnlinkPackage
<1> QED
  BY <1>1, <1>2
     DEF StoreKept, Consistent, TypeOK, StoreTypeOK, ReferentialIntegrity, Keeps

\* Rows that only change in fields nobody refers to keep every reference.
LEMMA ReviewsKept ==
    ASSUME Consistent, reviews' \in Seq(ReviewRow), Keeps(reviews, reviews'),
           \A r \in DOMAIN reviews' : ReviewRefs(reviews'[r], reviews'),
           UNCHANGED <<opp, evid, assessments, dossiers, archives, packages>>
    PROVE  StoreKept
<1>1. Keeps(assessments, assessments') /\ Keeps(dossiers, dossiers')
  BY DEF Keeps
<1>2. StoreTypeOK'
  BY DEF Consistent, TypeOK, StoreTypeOK
<1>3. ReferentialIntegrity'
  <2>1. \A a \in DOMAIN assessments' :
           AssessmentRefs(assessments'[a], reviews', assessments')
    BY <1>1, RowRefsKept DEF Consistent, ReferentialIntegrity
  <2>2. \A d \in DOMAIN dossiers' :
           DossierRefs(dossiers'[d], reviews', assessments', dossiers')
    BY <1>1, RowRefsKept DEF Consistent, ReferentialIntegrity
  <2>3. \A i \in DOMAIN archives' :
           ArchiveRefs(archives'[i], reviews', assessments', dossiers')
    BY <1>1, RowRefsKept DEF Consistent, ReferentialIntegrity
  <2> QED
    BY <2>1, <2>2, <2>3 DEF ReferentialIntegrity
<1> QED
  BY <1>1, <1>2, <1>3 DEF StoreKept

LEMMA CompleteReviewKept ==
    ASSUME Consistent, NEW r, CompleteReview(r)
    PROVE  StoreKept
<1>1. reviews \in Seq(ReviewRow)
  BY DEF Consistent, TypeOK, StoreTypeOK
<1>2. "Completed" \in Statuses
  BY DEF Statuses
<1>3. ASSUME NEW q \in DOMAIN reviews
      PROVE  /\ reviews'[q] \in ReviewRow
             /\ reviews'[q].opp = reviews[q].opp
             /\ reviews'[q].sup = reviews[q].sup
  <2>1. reviews[q] \in ReviewRow
    BY <1>1
  <2>2. CASE q = r
    <3>1. reviews'[q] = [reviews[q] EXCEPT !.status = "Completed", !.rev = @ + 1]
      BY <2>2 DEF CompleteReview
    <3>2. reviews'[q] \in ReviewRow
      BY <2>1, <3>1, <1>2, ReviewMoved
    <3> QED
      BY <2>1, <3>1, <3>2 DEF ReviewRow
  <2>3. CASE q # r
    <3>1. reviews'[q] = reviews[q]
      BY <2>3 DEF CompleteReview
    <3> QED
      BY <2>1, <3>1
  <2> QED
    BY <2>2, <2>3
<1>4. DOMAIN reviews' = DOMAIN reviews
  BY DEF CompleteReview
<1>5. reviews' \in Seq(ReviewRow)
  <2>1. DOMAIN reviews = 1..Len(reviews) /\ Len(reviews) \in Nat
    BY <1>1, LenProperties
  <2>2. reviews' = [q \in DOMAIN reviews |-> reviews'[q]]
    BY DEF CompleteReview
  <2>3. reviews' \in [1..Len(reviews) -> ReviewRow]
    BY <1>3, <2>1, <2>2
  <2> QED
    BY <2>1, <2>3, SeqDef
<1>6. Keeps(reviews, reviews')
  BY <1>3, <1>4 DEF Keeps
<1>7. \A q \in DOMAIN reviews' : ReviewRefs(reviews'[q], reviews')
  <2> SUFFICES ASSUME NEW q \in DOMAIN reviews'
               PROVE  ReviewRefs(reviews'[q], reviews')
    OBVIOUS
  <2>1. ReviewRefs(reviews[q], reviews)
    BY <1>4 DEF Consistent, ReferentialIntegrity
  <2> QED
    BY <1>3, <1>4, <1>6, <2>1 DEF ReviewRefs, Superseded, OneOf, OfOpp, Keeps
<1> QED
  BY <1>5, <1>6, <1>7, ReviewsKept DEF CompleteReview

LEMMA InsertReviewKept ==
    ASSUME Consistent, NEW row \in ReviewRow, NEW id, InsertReview(row, id),
           ReviewRefs(row, reviews)
    PROVE  StoreKept
<1>1. reviews \in Seq(ReviewRow)
  BY DEF Consistent, TypeOK, StoreTypeOK
<1> DEFINE older == ClosedBy(row)
<1>2. /\ older \in Seq(ReviewRow)
      /\ Len(older) = Len(reviews)
      /\ DOMAIN older = DOMAIN reviews
      /\ DOMAIN reviews = 1..Len(reviews)
      /\ Len(reviews) \in Nat
  BY <1>1, ClosedByKeepsRows, LenProperties
<1>3. ASSUME NEW q \in DOMAIN reviews
      PROVE  older[q].opp = reviews[q].opp /\ older[q].sup = reviews[q].sup
  <2>1. reviews[q] \in ReviewRow
    BY <1>1
  <2>2. CASE q = row.sup
    <3>1. older[q] = [reviews[q] EXCEPT !.status = "Superseded", !.rev = @ + 1]
      BY <2>2 DEF ClosedBy
    <3> HIDE DEF older
    <3> QED
      BY <2>1, <3>1 DEF ReviewRow
  <2>3. CASE q # row.sup
    BY <2>3 DEF ClosedBy
  <2> QED
    BY <2>2, <2>3
<1>4. /\ reviews' = Append(older, row)
      /\ UNCHANGED <<opp, evid, assessments, dossiers, archives, packages>>
  BY DEF InsertReview
<1> HIDE DEF older
<1>5. /\ reviews' \in Seq(ReviewRow)
      /\ DOMAIN reviews' = 1..(Len(reviews) + 1)
      /\ \A q \in DOMAIN reviews : reviews'[q] = older[q]
      /\ reviews'[Len(reviews) + 1] = row
  BY <1>2, <1>4, AppendRow
<1>6. Keeps(reviews, reviews')
  BY <1>2, <1>3, <1>5 DEF Keeps
<1>7. \A q \in DOMAIN reviews' : ReviewRefs(reviews'[q], reviews')
  <2> SUFFICES ASSUME NEW q \in DOMAIN reviews'
               PROVE  ReviewRefs(reviews'[q], reviews')
    OBVIOUS
  <2>1. CASE q = Len(reviews) + 1
    BY <2>1, <1>5, <1>6 DEF ReviewRefs, Superseded, OneOf, OfOpp, Keeps
  <2>2. CASE q \in DOMAIN reviews
    <3>1. ReviewRefs(reviews[q], reviews)
      BY <2>2 DEF Consistent, ReferentialIntegrity
    <3> QED
      BY <2>2, <3>1, <1>3, <1>5, <1>6 DEF ReviewRefs, Superseded, OneOf, OfOpp, Keeps
  <2> QED
    BY <2>1, <2>2, <1>2, <1>5
<1> QED
  BY <1>4, <1>5, <1>6, <1>7, ReviewsKept

LEMMA InsertAssessmentKept ==
    ASSUME Consistent, NEW row \in AssessmentRow, NEW id, InsertAssessment(row, id),
           AssessmentRefs(row, reviews, assessments)
    PROVE  StoreKept
<1>1. assessments \in Seq(AssessmentRow)
  BY DEF Consistent, TypeOK, StoreTypeOK
<1>2. /\ assessments' \in Seq(AssessmentRow)
      /\ DOMAIN assessments = 1..Len(assessments)
      /\ Len(assessments) \in Nat
      /\ DOMAIN assessments' = 1..(Len(assessments) + 1)
      /\ \A a \in DOMAIN assessments : assessments'[a] = assessments[a]
      /\ assessments'[Len(assessments) + 1] = row
  BY <1>1, AppendRow DEF InsertAssessment
<1>3. opp' \in [Opps -> OppRow]
  <2>1. ASSUME NEW q \in OppRow
        PROVE  [q EXCEPT !.state = "Recommended", !.stamp = @ + 1] \in OppRow
    <3>1. q.stamp + 1 \in Nat /\ "Recommended" \in States
      BY DEF OppRow, States
    <3>2. \A n \in Nat, st \in States : [q EXCEPT !.state = st, !.stamp = n] \in OppRow
      BY DEF OppRow
    <3> QED
      BY <3>1, <3>2
  <2> QED
    BY <2>1 DEF InsertAssessment, Consistent, TypeOK, StoreTypeOK
<1>4. UNCHANGED <<evid, reviews, dossiers, archives, packages>>
  BY DEF InsertAssessment
<1>5. /\ Keeps(reviews, reviews') /\ Keeps(assessments, assessments')
      /\ Keeps(dossiers, dossiers')
  BY <1>2, <1>4 DEF Keeps
<1>6. StoreTypeOK'
  BY <1>2, <1>3, <1>4 DEF Consistent, TypeOK, StoreTypeOK
<1>7. ReferentialIntegrity'
  <2>1. \A r \in DOMAIN reviews' : ReviewRefs(reviews'[r], reviews')
    BY <1>4 DEF Consistent, ReferentialIntegrity
  <2>2. \A a \in DOMAIN assessments' :
           AssessmentRefs(assessments'[a], reviews', assessments')
    <3> SUFFICES ASSUME NEW a \in DOMAIN assessments'
                 PROVE  AssessmentRefs(assessments'[a], reviews', assessments')
      OBVIOUS
    <3>1. CASE a = Len(assessments) + 1
      BY <3>1, <1>2, <1>5, RowRefsKept
    <3>2. CASE a \in DOMAIN assessments
      BY <3>2, <1>2, <1>5, RowRefsKept DEF Consistent, ReferentialIntegrity
    <3> QED
      BY <3>1, <3>2, <1>2
  <2>3. \A d \in DOMAIN dossiers' :
           DossierRefs(dossiers'[d], reviews', assessments', dossiers')
    BY <1>4, <1>5, RowRefsKept DEF Consistent, ReferentialIntegrity
  <2>4. \A i \in DOMAIN archives' :
           ArchiveRefs(archives'[i], reviews', assessments', dossiers')
    BY <1>4, <1>5, RowRefsKept DEF Consistent, ReferentialIntegrity
  <2> QED
    BY <2>1, <2>2, <2>3, <2>4 DEF ReferentialIntegrity
<1> QED
  BY <1>5, <1>6, <1>7 DEF StoreKept

LEMMA InsertDossierKept ==
    ASSUME Consistent, NEW row \in DossierRow, NEW id, InsertDossier(row, id),
           DossierRefs(row, reviews, assessments, dossiers)
    PROVE  StoreKept
<1>1. dossiers \in Seq(DossierRow)
  BY DEF Consistent, TypeOK, StoreTypeOK
<1>2. /\ dossiers' \in Seq(DossierRow)
      /\ DOMAIN dossiers = 1..Len(dossiers)
      /\ Len(dossiers) \in Nat
      /\ DOMAIN dossiers' = 1..(Len(dossiers) + 1)
      /\ \A d \in DOMAIN dossiers : dossiers'[d] = dossiers[d]
      /\ dossiers'[Len(dossiers) + 1] = row
  BY <1>1, AppendRow DEF InsertDossier
<1>3. UNCHANGED <<opp, evid, reviews, assessments, archives, packages>>
  BY DEF InsertDossier
<1>4. /\ Keeps(reviews, reviews') /\ Keeps(assessments, assessments')
      /\ Keeps(dossiers, dossiers')
  BY <1>2, <1>3 DEF Keeps
<1>5. StoreTypeOK'
  BY <1>2, <1>3 DEF Consistent, TypeOK, StoreTypeOK
<1>6. ReferentialIntegrity'
  <2>1. \A r \in DOMAIN reviews' : ReviewRefs(reviews'[r], reviews')
    BY <1>3 DEF Consistent, ReferentialIntegrity
  <2>2. \A a \in DOMAIN assessments' :
           AssessmentRefs(assessments'[a], reviews', assessments')
    BY <1>3 DEF Consistent, ReferentialIntegrity
  <2>3. \A d \in DOMAIN dossiers' :
           DossierRefs(dossiers'[d], reviews', assessments', dossiers')
    <3> SUFFICES ASSUME NEW d \in DOMAIN dossiers'
                 PROVE  DossierRefs(dossiers'[d], reviews', assessments', dossiers')
      OBVIOUS
    <3>1. CASE d = Len(dossiers) + 1
      BY <3>1, <1>2, <1>4, RowRefsKept
    <3>2. CASE d \in DOMAIN dossiers
      BY <3>2, <1>2, <1>4, RowRefsKept DEF Consistent, ReferentialIntegrity
    <3> QED
      BY <3>1, <3>2, <1>2
  <2>4. \A i \in DOMAIN archives' :
           ArchiveRefs(archives'[i], reviews', assessments', dossiers')
    BY <1>3, <1>4, RowRefsKept DEF Consistent, ReferentialIntegrity
  <2> QED
    BY <2>1, <2>2, <2>3, <2>4 DEF ReferentialIntegrity
<1> QED
  BY <1>4, <1>5, <1>6 DEF StoreKept

LEMMA InsertArchiveKept ==
    ASSUME Consistent, NEW row \in ArchiveRow, NEW id, InsertArchive(row, id),
           ArchiveRefs(row, reviews, assessments, dossiers)
    PROVE  StoreKept
<1>1. archives \in Seq(ArchiveRow)
  BY DEF Consistent, TypeOK, StoreTypeOK
<1>2. /\ archives' \in Seq(ArchiveRow)
      /\ DOMAIN archives = 1..Len(archives)
      /\ Len(archives) \in Nat
      /\ DOMAIN archives' = 1..(Len(archives) + 1)
      /\ \A i \in DOMAIN archives : archives'[i] = archives[i]
      /\ archives'[Len(archives) + 1] = row
  BY <1>1, AppendRow DEF InsertArchive
<1>3. opp' \in [Opps -> OppRow]
  <2>1. ASSUME NEW q \in OppRow
        PROVE  [q EXCEPT !.archived = TRUE, !.state = "Archived"] \in OppRow
    <3>1. "Archived" \in States
      BY DEF States
    <3>2. \A st \in States : [q EXCEPT !.archived = TRUE, !.state = st] \in OppRow
      BY DEF OppRow
    <3> QED
      BY <3>1, <3>2
  <2> QED
    BY <2>1 DEF InsertArchive, Consistent, TypeOK, StoreTypeOK
<1>4. UNCHANGED <<evid, reviews, assessments, dossiers, packages>>
  BY DEF InsertArchive
<1>5. /\ Keeps(reviews, reviews') /\ Keeps(assessments, assessments')
      /\ Keeps(dossiers, dossiers')
  BY <1>4 DEF Keeps
<1>6. StoreTypeOK'
  BY <1>2, <1>3, <1>4 DEF Consistent, TypeOK, StoreTypeOK
<1>7. ReferentialIntegrity'
  <2>1. /\ \A r \in DOMAIN reviews' : ReviewRefs(reviews'[r], reviews')
        /\ \A a \in DOMAIN assessments' :
              AssessmentRefs(assessments'[a], reviews', assessments')
        /\ \A d \in DOMAIN dossiers' :
              DossierRefs(dossiers'[d], reviews', assessments', dossiers')
    BY <1>4 DEF Consistent, ReferentialIntegrity
  <2>2. \A i \in DOMAIN archives' :
           ArchiveRefs(archives'[i], reviews', assessments', dossiers')
    BY <1>2, <1>4 DEF Consistent, ReferentialIntegrity
  <2> QED
    BY <2>1, <2>2 DEF ReferentialIntegrity
<1> QED
  BY <1>5, <1>6, <1>7 DEF StoreKept

-----------------------------------------------------------------------------
(* The initial state.                                                      *)

\* What StoreAssumption says of the seed.
LEMMA SeedFacts ==
    /\ DOMAIN Seed = 1..Len(Seed)
    /\ Len(Seed) \in Nat
    /\ \A i \in DOMAIN Seed : Seed[i][1] \in Opps /\ Seed[i][2] \in Evidence
<1>1. Seed \in Seq(Opps \X Evidence)
  BY StoreAssumption
<1>2. DOMAIN Seed = 1..Len(Seed) /\ Len(Seed) \in Nat
  BY <1>1, LenProperties
<1>3. \A i \in DOMAIN Seed : Seed[i] \in Opps \X Evidence
  BY <1>1
<1> QED
  BY <1>2, <1>3

LEMMA SeedProvenance ==
    ASSUME NEW i \in DOMAIN Seed
    PROVE  /\ [NoProvenance EXCEPT !.rev = 1, !.trace = SeedTrace(i)] \in Provenance
           /\ [NoProvenance EXCEPT !.rev = 1, !.trace = SeedTrace(i),
                                   !.review = i, !.reviewRev = 1] \in Provenance
           /\ [NoProvenance EXCEPT !.rev = 1, !.stamp = 2, !.trace = SeedTrace(i),
                                   !.review = i, !.reviewRev = 1, !.assess = i] \in Provenance
<1>1. SeedTrace(i) \in SUBSET (Evidence \X Nat)
  BY SeedFacts DEF SeedTrace
<1>2. i \in Nat
  BY SeedFacts
<1>3. \A t \in SUBSET (Evidence \X Nat), n \in Nat :
         /\ [NoProvenance EXCEPT !.rev = 1, !.trace = t] \in Provenance
         /\ [NoProvenance EXCEPT !.rev = 1, !.trace = t,
                                 !.review = n, !.reviewRev = 1] \in Provenance
         /\ [NoProvenance EXCEPT !.rev = 1, !.stamp = 2, !.trace = t,
                                 !.review = n, !.reviewRev = 1, !.assess = n] \in Provenance
  BY DEF NoProvenance, Provenance
<1> QED
  BY <1>1, <1>2, <1>3

LEMMA InitConsistent ==
    ASSUME Init
    PROVE  Consistent
<1>1. opp \in [Opps -> OppRow]
  BY DEF Init, StoreInit, OppRow, States
<1>2. evid \in [Evidence -> EvidRow]
  <2>1. \A e \in SeededEvidence : SeedOwner(e) \in Opps
    BY SeedFacts DEF SeededEvidence, SeedOwner
  <2> QED
    BY <2>1 DEF Init, StoreInit, EvidRow
<1>3. reviews \in [1..Len(Seed) -> ReviewRow]
  <2>1. ASSUME NEW i \in 1..Len(Seed)
        PROVE  reviews[i] \in ReviewRow
    <3>1. \A p \in Provenance :
             [opp |-> Seed[i][1], by |-> NoSlot, sup |-> 0, prov |-> p,
              status |-> "Completed", rev |-> 1, failed |-> FALSE] \in ReviewRow
      BY SeedFacts DEF ReviewRow, Statuses, Authors
    <3> QED
      BY <3>1, SeedFacts, SeedProvenance DEF Init, StoreInit
  <2> QED
    BY <2>1 DEF Init, StoreInit
<1>4. assessments \in [1..Len(Seed) -> AssessmentRow]
  <2>1. ASSUME NEW i \in 1..Len(Seed)
        PROVE  assessments[i] \in AssessmentRow
    <3>1. \A p \in Provenance :
             [opp |-> Seed[i][1], by |-> NoSlot, sup |-> 0, prov |-> p,
              kind |-> "spatial"] \in AssessmentRow
      BY SeedFacts DEF AssessmentRow, AssessmentKinds, Authors
    <3> QED
      BY <3>1, SeedFacts, SeedProvenance DEF Init, StoreInit
  <2> QED
    BY <2>1 DEF Init, StoreInit
<1>5. dossiers \in [1..Len(Seed) -> DossierRow]
  <2>1. ASSUME NEW i \in 1..Len(Seed)
        PROVE  dossiers[i] \in DossierRow
    <3>1. \A p \in Provenance :
             [opp |-> Seed[i][1], by |-> NoSlot, sup |-> 0, prov |-> p] \in DossierRow
      BY SeedFacts DEF DossierRow, Authors
    <3> QED
      BY <3>1, SeedFacts, SeedProvenance DEF Init, StoreInit
  <2> QED
    BY <2>1 DEF Init, StoreInit
<1>6. /\ reviews \in Seq(ReviewRow) /\ assessments \in Seq(AssessmentRow)
      /\ dossiers \in Seq(DossierRow)
  BY <1>3, <1>4, <1>5, SeedFacts, SeqDef
<1>7. archives = <<>> /\ packages = {} /\ crashes = 0 /\ req \in [Slots -> Request]
  BY IdleTyped DEF Init, StoreInit
<1>8. TypeOK
  BY <1>1, <1>2, <1>6, <1>7 DEF TypeOK, StoreTypeOK
<1>9. ReferentialIntegrity
  <2>1. /\ DOMAIN reviews = 1..Len(Seed) /\ DOMAIN assessments = 1..Len(Seed)
        /\ DOMAIN dossiers = 1..Len(Seed) /\ DOMAIN archives = {}
    BY <1>3, <1>4, <1>5, <1>7
  <2>2. ASSUME NEW i \in 1..Len(Seed)
        PROVE  /\ ReviewRefs(reviews[i], reviews)
               /\ AssessmentRefs(assessments[i], reviews, assessments)
               /\ DossierRefs(dossiers[i], reviews, assessments, dossiers)
    <3>1. /\ reviews[i].opp = Seed[i][1] /\ reviews[i].sup = 0
          /\ assessments[i].opp = Seed[i][1] /\ assessments[i].sup = 0
          /\ dossiers[i].opp = Seed[i][1] /\ dossiers[i].sup = 0
      BY DEF Init, StoreInit
    <3>2. /\ assessments[i].prov.review = i
          /\ dossiers[i].prov.review = i /\ dossiers[i].prov.assess = i
      BY DEF Init, StoreInit, NoProvenance
    <3> QED
      BY <2>1, <3>1, <3>2
         DEF ReviewRefs, AssessmentRefs, DossierRefs, Superseded, OneOf, OfOpp
  <2> QED
    BY <2>1, <2>2 DEF ReferentialIntegrity
<1>10. RequestRefs
  BY IdleTyped DEF Init, RequestRefs, JobRefs
<1> QED
  BY <1>8, <1>9, <1>10 DEF Consistent

-----------------------------------------------------------------------------
(* Moves of a request.                                                     *)

\* A handler answers, with or without having written.
LEMMA ReplyKept ==
    ASSUME Consistent, NEW s \in Slots, NEW res \in Results, Reply(s, res),
           StoreKept \/ UNCHANGED store, UNCHANGED crashes
    PROVE  Consistent'
<1> DEFINE job == Answered(req[s], res)
<1>1. req[s] \in Request /\ crashes \in Nat
  BY DEF Consistent, TypeOK
<1>2. job \in Request /\ job.pc = "done"
  BY <1>1, AnsweredTyped
<1>3. Become(s, job)
  BY DEF Reply
<1> HIDE DEF job
<1>4. \A R, A, D : JobRefs(job, R, A, D)
  BY <1>2 DEF JobRefs, Steps
<1>5. CASE StoreKept
  BY <1>1, <1>2, <1>3, <1>4, <1>5, Frame DEF StoreKept
<1>6. CASE UNCHANGED store
  BY <1>2, <1>3, <1>4, <1>6, ReadFrame DEF ReadOnly
<1> QED
  BY <1>5, <1>6

\* A handler goes on with what it knows.
LEMMA GotoKept ==
    ASSUME Consistent, NEW s \in Slots, NEW pc \in Steps, Goto(s, pc),
           req[s].pc \in Steps, req[s].pc # "ready",
           StoreKept \/ UNCHANGED store, UNCHANGED crashes
    PROVE  Consistent'
<1> DEFINE job == [req[s] EXCEPT !.pc = pc]
<1>1. req[s] \in Request /\ crashes \in Nat /\ NoProvenance \in Provenance
  BY ProvenanceTypes DEF Consistent, TypeOK
<1>2. job \in Request
  BY <1>1, RequestTypes
<1>3. Become(s, job)
  BY DEF Goto
<1>4. JobRefs(req[s], reviews, assessments, dossiers)
  BY DEF Consistent, RequestRefs
<1>5. JobRefs(job, reviews, assessments, dossiers)
  BY <1>1, <1>4 DEF JobRefs, Request, Superseded
<1> HIDE DEF job
<1>6. CASE StoreKept
  <2>1. JobRefs(job, reviews', assessments', dossiers')
    BY <1>5, <1>6, JobRefsKept DEF StoreKept
  <2> QED
    BY <1>1, <1>2, <1>3, <1>6, <2>1, Frame DEF StoreKept
<1>7. CASE UNCHANGED store
  BY <1>2, <1>3, <1>5, <1>7, ReadFrame DEF ReadOnly
<1> QED
  BY <1>6, <1>7

\* What is read is of the type of what is remembered.
LEMMA ReadTypes ==
    ASSUME Consistent
    PROVE  /\ \A o \in Opps : Trace(o) \in SUBSET (Evidence \X Nat)
           /\ \A o \in Opps : opp[o].rev \in Nat /\ opp[o].stamp \in Nat
           /\ \A e \in Evidence : evid[e].rev \in Nat /\ evid[e].opp \in Opps \cup {NoOpp}
           /\ \A r \in DOMAIN reviews :
                 /\ r \in Nat /\ reviews[r].rev \in Nat /\ reviews[r].opp \in Opps
           /\ \A a \in DOMAIN assessments :
                 /\ a \in Nat /\ assessments[a] \in AssessmentRow
           /\ \A d \in DOMAIN dossiers :
                 /\ d \in Nat /\ dossiers[d] \in DossierRow
<1>1. opp \in [Opps -> OppRow] /\ evid \in [Evidence -> EvidRow]
  BY DEF Consistent, TypeOK, StoreTypeOK
<1>2. /\ reviews \in Seq(ReviewRow) /\ assessments \in Seq(AssessmentRow)
      /\ dossiers \in Seq(DossierRow)
  BY DEF Consistent, TypeOK, StoreTypeOK
<1>3. \A o \in Opps : opp[o].rev \in Nat /\ opp[o].stamp \in Nat
  BY <1>1 DEF OppRow
<1>4. \A e \in Evidence : evid[e].rev \in Nat /\ evid[e].opp \in Opps \cup {NoOpp}
  BY <1>1 DEF EvidRow
<1>5. \A o \in Opps : Trace(o) \in SUBSET (Evidence \X Nat)
  BY <1>4 DEF Trace
<1>6. \A r \in DOMAIN reviews : reviews[r] \in ReviewRow /\ r \in Nat
  BY <1>2, LenProperties
<1>7. \A r \in DOMAIN reviews : reviews[r].rev \in Nat /\ reviews[r].opp \in Opps
  BY <1>6 DEF ReviewRow
<1>8. \A a \in DOMAIN assessments : a \in Nat /\ assessments[a] \in AssessmentRow
  BY <1>2, LenProperties
<1>9. \A d \in DOMAIN dossiers : d \in Nat /\ dossiers[d] \in DossierRow
  BY <1>2, LenProperties
<1> QED
  BY <1>3, <1>4, <1>5, <1>6, <1>7, <1>8, <1>9

\* Identifiers are numbers.
LEMMA IdTypes ==
    ASSUME Consistent
    PROVE  /\ NextId(reviews) \in Nat /\ NextId(assessments) \in Nat
           /\ NextId(dossiers) \in Nat /\ NextId(archives) \in Nat
<1>1. /\ reviews \in Seq(ReviewRow) /\ assessments \in Seq(AssessmentRow)
      /\ dossiers \in Seq(DossierRow) /\ archives \in Seq(ArchiveRow)
  BY DEF Consistent, TypeOK, StoreTypeOK
<1> QED
  BY <1>1, LenProperties DEF NextId

-----------------------------------------------------------------------------
(* Arrival of a request.                                                   *)

LEMMA JobTypes ==
    ASSUME NEW kind \in AllKinds, NEW pc \in Steps, NEW o \in Opps
    PROVE  /\ Job(kind, pc, o) \in Request
           /\ \A m \in Nat : [Job(kind, pc, o) EXCEPT !.expect = m] \in Request
           /\ \A n \in Nat : [Job(kind, pc, o) EXCEPT !.target = n] \in Request
           /\ \A mode \in Modes : [Job(kind, pc, o) EXCEPT !.mode = mode] \in Request
           /\ \A n \in Nat, mode \in Modes :
                 [Job(kind, pc, o) EXCEPT !.mode = mode, !.target = n] \in Request
           /\ \A n \in Nat, m \in Nat :
                 [Job(kind, pc, o) EXCEPT !.target = n, !.expect = m] \in Request
           /\ \A e \in Evidence : [Job(kind, pc, o) EXCEPT !.item = e] \in Request
           /\ \A e \in Evidence, m \in Nat :
                 [Job(kind, pc, o) EXCEPT !.item = e, !.expect = m] \in Request
<1> DEFINE job == Job(kind, pc, o)
<1>1. Idle \in Request
  BY IdleTyped
<1>2. job \in Request
  BY <1>1 DEF Request, Job
<1> HIDE DEF job
<1>3. /\ \A m \in Nat : [job EXCEPT !.expect = m] \in Request
      /\ \A n \in Nat : [job EXCEPT !.target = n] \in Request
      /\ \A mode \in Modes : [job EXCEPT !.mode = mode] \in Request
      /\ \A n \in Nat, mode \in Modes :
            [job EXCEPT !.mode = mode, !.target = n] \in Request
      /\ \A n \in Nat, m \in Nat :
            [job EXCEPT !.target = n, !.expect = m] \in Request
      /\ \A e \in Evidence : [job EXCEPT !.item = e] \in Request
      /\ \A e \in Evidence, m \in Nat :
            [job EXCEPT !.item = e, !.expect = m] \in Request
  <2>1. \A m \in Nat : [job EXCEPT !.expect = m] \in Request
    BY <1>2 DEF Request
  <2>2. \A n \in Nat : [job EXCEPT !.target = n] \in Request
    BY <1>2 DEF Request
  <2>3. \A mode \in Modes : [job EXCEPT !.mode = mode] \in Request
    BY <1>2 DEF Request
  <2>4. \A n \in Nat, mode \in Modes : [job EXCEPT !.mode = mode, !.target = n] \in Request
    BY <1>2 DEF Request
  <2>5. \A n \in Nat, m \in Nat : [job EXCEPT !.target = n, !.expect = m] \in Request
    BY <1>2 DEF Request
  <2>6. \A e \in Evidence : [job EXCEPT !.item = e] \in Request
    BY <1>2 DEF Request
  <2>7. \A e \in Evidence, m \in Nat : [job EXCEPT !.item = e, !.expect = m] \in Request
    BY <1>2 DEF Request
  <2> QED
    BY <2>1, <2>2, <2>3, <2>4, <2>5, <2>6, <2>7
<1> QED
  BY <1>2, <1>3 DEF job

\* A new job refers to no row, or to one row of its opportunity.
LEMMA SubmitKept ==
    ASSUME Consistent, NEW s \in Slots, NEW job \in Request, Submit(s, job),
           job.opp \in Opps, job.sup = 0,
           job.kind \in {"assess", "dossier", "archive"} => job.pc = "ready",
           job.kind \in {"review", "assess"} =>
              job.target = 0 \/ OneOf(reviews, job.opp, job.target),
           job.kind = "review" => job.mode \in {"Draft", "Completed", "Fails"},
           job.kind = "complete" => OneOf(reviews, job.opp, job.target),
           job.kind \in {"addEvidence", "updateEvidence", "archiveEvidence"} =>
              job.item \in Evidence,
           job.kind = "dossier" =>
              job.target = 0 \/ OneOf(assessments, job.opp, job.target)
    PROVE  Consistent'
<1>1. JobRefs(job, reviews, assessments, dossiers)
  BY DEF JobRefs, Superseded, Submit
<1> QED
  BY <1>1, ReadFrame DEF Submit

LEMMA ExpectedTyped ==
    ASSUME NEW rev \in Nat
    PROVE  Expected(rev) \subseteq Nat
BY DEF Expected

LEMMA ArriveKept ==
    ASSUME Consistent, NEW s \in Slots, Arrive(s)
    PROVE  Consistent'
<1>1. CASE SubmitEdit(s)
  <2>1. PICK o \in Opps, m \in Nat :
           Submit(s, [Job("edit", "check", o) EXCEPT !.expect = m])
    BY <1>1, ReadTypes DEF SubmitEdit, Expected
  <2> DEFINE job == [Job("edit", "check", o) EXCEPT !.expect = m]
  <2>2. job \in Request
    BY <2>1, JobTypes DEF AllKinds, Steps
  <2>3. /\ job.kind = "edit" /\ job.pc = "check" /\ job.opp = o
        /\ job.sup = 0
    BY DEF Job, Idle
  <2>4. Submit(s, job)
    BY <2>1
  <2> HIDE DEF job
  <2> QED
    BY <2>1, <2>2, <2>3, <2>4, SubmitKept
<1>2. CASE SubmitClose(s)
  <2>1. PICK o \in Opps : Submit(s, Job("close", "check", o))
    BY <1>2 DEF SubmitClose
  <2> DEFINE job == Job("close", "check", o)
  <2>2. job \in Request
    BY <2>1, JobTypes DEF AllKinds, Steps
  <2>3. /\ job.kind = "close" /\ job.pc = "check" /\ job.opp = o
        /\ job.sup = 0
    BY DEF Job, Idle
  <2>4. Submit(s, job)
    BY <2>1
  <2> HIDE DEF job
  <2> QED
    BY <2>1, <2>2, <2>3, <2>4, SubmitKept
<1>3. CASE SubmitAddEvidence(s)
  <2>1. PICK o \in Opps, e \in Evidence :
           Submit(s, [Job("addEvidence", "check", o) EXCEPT !.item = e])
    BY <1>3 DEF SubmitAddEvidence
  <2> DEFINE job == [Job("addEvidence", "check", o) EXCEPT !.item = e]
  <2>2. job \in Request
    BY <2>1, JobTypes DEF AllKinds, Steps
  <2>3. /\ job.kind = "addEvidence" /\ job.pc = "check" /\ job.opp = o
        /\ job.sup = 0 /\ job.item = e
    BY DEF Job, Idle
  <2>4. Submit(s, job)
    BY <2>1
  <2> HIDE DEF job
  <2> QED
    BY <2>1, <2>2, <2>3, <2>4, SubmitKept
<1>4. CASE SubmitEvidenceChange(s)
  <2>0. PICK kind \in {"updateEvidence", "archiveEvidence"}, e \in Evidence :
           \E n \in Expected(evid[e].rev) :
              /\ evid[e].opp # NoOpp
              /\ Submit(s, [Job(kind, "check", evid[e].opp) EXCEPT !.item = e, !.expect = n])
    BY <1>4 DEF SubmitEvidenceChange
  <2>1. PICK m \in Nat :
           /\ evid[e].opp # NoOpp
           /\ Submit(s, [Job(kind, "check", evid[e].opp) EXCEPT !.item = e, !.expect = m])
    BY <2>0, ReadTypes, ExpectedTyped
  <2>2. evid[e].opp \in Opps
    BY <2>1, ReadTypes
  <2> DEFINE job == [Job(kind, "check", evid[e].opp) EXCEPT !.item = e, !.expect = m]
  <2>3. job \in Request
    <3>1. kind \in AllKinds /\ "check" \in Steps
      BY DEF AllKinds, Steps
    <3>2. \A x \in Evidence, n \in Nat :
            [Job(kind, "check", evid[e].opp) EXCEPT !.item = x, !.expect = n] \in Request
      BY <2>2, <3>1, JobTypes
    <3> QED
      BY <3>2
  <2>4. /\ job.kind = kind /\ job.pc = "check" /\ job.opp = evid[e].opp
        /\ job.sup = 0 /\ job.item = e
    BY DEF Job, Idle
  <2>5. Submit(s, job)
    BY <2>1
  <2> HIDE DEF job
  <2> QED
    BY <2>1, <2>2, <2>3, <2>4, <2>5, SubmitKept
<1>5. CASE SubmitReview(s)
  <2>1. PICK o \in Opps : \E mode \in {"Draft", "Completed", "Fails"}, r \in OfOpp(reviews, o) \cup {0} :
           Submit(s, [Job("review", "inputs", o) EXCEPT !.mode = mode, !.target = r])
    BY <1>5 DEF SubmitReview
  <2>2. PICK mode \in {"Draft", "Completed", "Fails"}, r \in OfOpp(reviews, o) \cup {0} :
           Submit(s, [Job("review", "inputs", o) EXCEPT !.mode = mode, !.target = r])
    BY <2>1
  <2>3. r \in Nat /\ (r = 0 \/ OneOf(reviews, o, r))
    BY <2>2, ReadTypes DEF OneOf, OfOpp
  <2> DEFINE job == [Job("review", "inputs", o) EXCEPT !.mode = mode, !.target = r]
  <2>4. job \in Request
    <3>1. "review" \in AllKinds /\ "inputs" \in Steps
      BY DEF AllKinds, Steps
    <3>2. \A n \in Nat, md \in Modes :
             [Job("review", "inputs", o) EXCEPT !.mode = md, !.target = n] \in Request
      BY <3>1, JobTypes
    <3> QED
      BY <2>2, <2>3, <3>2 DEF Modes
  <2>5. /\ job.kind = "review" /\ job.pc = "inputs" /\ job.opp = o
        /\ job.sup = 0 /\ job.target = r /\ job.mode = mode
    BY DEF Job, Idle
  <2>6. Submit(s, job)
    BY <2>2
  <2> HIDE DEF job
  <2> QED
    BY <2>1, <2>2, <2>3, <2>4, <2>5, <2>6, SubmitKept
<1>6. CASE SubmitComplete(s)
  <2>0. PICK r \in DOMAIN reviews :
           \E n \in Expected(reviews[r].rev) :
              Submit(s, [Job("complete", "check", reviews[r].opp) EXCEPT
                            !.target = r, !.expect = n])
    BY <1>6 DEF SubmitComplete
  <2>1. PICK m \in Nat :
           Submit(s, [Job("complete", "check", reviews[r].opp) EXCEPT !.target = r, !.expect = m])
    BY <2>0, ReadTypes, ExpectedTyped
  <2>2. r \in Nat /\ reviews[r].opp \in Opps /\ OneOf(reviews, reviews[r].opp, r)
    BY <2>1, ReadTypes DEF OneOf, OfOpp
  <2> DEFINE job == [Job("complete", "check", reviews[r].opp) EXCEPT !.target = r, !.expect = m]
  <2>3. job \in Request
    <3>1. "complete" \in AllKinds /\ "check" \in Steps
      BY DEF AllKinds, Steps
    <3>2. \A n \in Nat, x \in Nat :
            [Job("complete", "check", reviews[r].opp) EXCEPT !.target = n, !.expect = x]
              \in Request
      BY <2>2, <3>1, JobTypes
    <3> QED
      BY <2>2, <3>2
  <2>4. /\ job.kind = "complete" /\ job.pc = "check" /\ job.opp = reviews[r].opp
        /\ job.sup = 0 /\ job.target = r
    BY DEF Job, Idle
  <2>5. Submit(s, job)
    BY <2>1
  <2> HIDE DEF job
  <2> QED
    BY <2>1, <2>2, <2>3, <2>4, <2>5, SubmitKept
<1>7. CASE SubmitAssess(s)
  <2>1. PICK o \in Opps : \E r \in OfOpp(reviews, o) \cup {0} :
           Submit(s, [Job("assess", "ready", o) EXCEPT !.target = r])
    BY <1>7 DEF SubmitAssess
  <2>2. PICK r \in OfOpp(reviews, o) \cup {0} :
           Submit(s, [Job("assess", "ready", o) EXCEPT !.target = r])
    BY <2>1
  <2>3. r \in Nat /\ (r = 0 \/ OneOf(reviews, o, r))
    BY <2>2, ReadTypes DEF OneOf, OfOpp
  <2> DEFINE job == [Job("assess", "ready", o) EXCEPT !.target = r]
  <2>4. job \in Request
    <3>1. "assess" \in AllKinds /\ "ready" \in Steps
      BY DEF AllKinds, Steps
    <3>2. \A n \in Nat : [Job("assess", "ready", o) EXCEPT !.target = n] \in Request
      BY <3>1, JobTypes
    <3> QED
      BY <2>3, <3>2
  <2>5. /\ job.kind = "assess" /\ job.pc = "ready" /\ job.opp = o
        /\ job.sup = 0 /\ job.target = r
    BY DEF Job, Idle
  <2>6. Submit(s, job)
    BY <2>2
  <2> HIDE DEF job
  <2> QED
    BY <2>1, <2>2, <2>3, <2>4, <2>5, <2>6, SubmitKept
<1>8. CASE SubmitLegacy(s)
  <2>1. PICK o \in Opps, mode \in Modes :
           Submit(s, [Job("legacy", "rank", o) EXCEPT !.mode = mode])
    BY <1>8 DEF SubmitLegacy, Modes
  <2> DEFINE job == [Job("legacy", "rank", o) EXCEPT !.mode = mode]
  <2>2. job \in Request
    BY <2>1, JobTypes DEF AllKinds, Steps
  <2>3. /\ job.kind = "legacy" /\ job.pc = "rank" /\ job.opp = o
        /\ job.sup = 0
    BY DEF Job, Idle
  <2>4. Submit(s, job)
    BY <2>1
  <2> HIDE DEF job
  <2> QED
    BY <2>1, <2>2, <2>3, <2>4, SubmitKept
<1>9. CASE SubmitDossier(s)
  <2>1. PICK o \in Opps : \E a \in OfOpp(assessments, o) \cup {0} :
           Submit(s, [Job("dossier", "ready", o) EXCEPT !.target = a])
    BY <1>9 DEF SubmitDossier
  <2>2. PICK a \in OfOpp(assessments, o) \cup {0} :
           Submit(s, [Job("dossier", "ready", o) EXCEPT !.target = a])
    BY <2>1
  <2>3. a \in Nat /\ (a = 0 \/ OneOf(assessments, o, a))
    BY <2>2, ReadTypes DEF OneOf, OfOpp
  <2> DEFINE job == [Job("dossier", "ready", o) EXCEPT !.target = a]
  <2>4. job \in Request
    <3>1. "dossier" \in AllKinds /\ "ready" \in Steps
      BY DEF AllKinds, Steps
    <3>2. \A n \in Nat : [Job("dossier", "ready", o) EXCEPT !.target = n] \in Request
      BY <3>1, JobTypes
    <3> QED
      BY <2>3, <3>2
  <2>5. /\ job.kind = "dossier" /\ job.pc = "ready" /\ job.opp = o
        /\ job.sup = 0 /\ job.target = a
    BY DEF Job, Idle
  <2>6. Submit(s, job)
    BY <2>2
  <2> HIDE DEF job
  <2> QED
    BY <2>1, <2>2, <2>3, <2>4, <2>5, <2>6, SubmitKept
<1>10. CASE SubmitArchive(s)
  <2>1. PICK o \in Opps : Submit(s, Job("archive", "ready", o))
    BY <1>10 DEF SubmitArchive
  <2> DEFINE job == Job("archive", "ready", o)
  <2>2. job \in Request
    BY <2>1, JobTypes DEF AllKinds, Steps
  <2>3. /\ job.kind = "archive" /\ job.pc = "ready" /\ job.opp = o
        /\ job.sup = 0
    BY DEF Job, Idle
  <2>4. Submit(s, job)
    BY <2>1
  <2> HIDE DEF job
  <2> QED
    BY <2>1, <2>2, <2>3, <2>4, SubmitKept
<1> QED
  BY <1>1, <1>2, <1>3, <1>4, <1>5, <1>6, <1>7, <1>8, <1>9, <1>10 DEF Arrive

-----------------------------------------------------------------------------
(* The steps of the handlers.                                              *)

LEMMA Words ==
    /\ "ok" \in Results /\ "refused" \in Results /\ "error" \in Results
    /\ \A pc \in {"check", "inputs", "ready", "find", "rank", "admit", "stage", "link",
                  "tidy", "write", "insert", "confirm", "unlink"} : pc \in Steps
  BY DEF Results, Steps

LEMMA OpportunityStepsKept ==
    ASSUME Consistent, NEW s \in Slots,
           EditCheck(s) \/ EditWrite(s) \/ CloseCheck(s) \/ CloseWrite(s)
    PROVE  Consistent'
<1>1. CASE EditCheck(s)
  BY <1>1, Words, ReplyKept, GotoKept DEF EditCheck, At, ReadOnly
<1>2. CASE EditWrite(s)
  BY <1>2, Words, ReplyKept, OpportunityKept DEF EditWrite
<1>3. CASE CloseCheck(s)
  BY <1>3, Words, ReplyKept, GotoKept DEF CloseCheck, At, ReadOnly
<1>4. CASE CloseWrite(s)
  BY <1>4, Words, ReplyKept, OpportunityKept DEF CloseWrite
<1> QED
  BY <1>1, <1>2, <1>3, <1>4

LEMMA EvidenceStepsKept ==
    ASSUME Consistent, NEW s \in Slots,
           \/ AddEvidenceCheck(s) \/ AddEvidenceInsert(s)
           \/ UpdateEvidenceCheck(s) \/ UpdateEvidenceWrite(s)
           \/ ArchiveEvidenceCheck(s) \/ ArchiveEvidenceWrite(s)
    PROVE  Consistent'
<1>1. CASE AddEvidenceCheck(s)
  BY <1>1, Words, ReplyKept, GotoKept DEF AddEvidenceCheck, At, ReadOnly
<1>2. CASE AddEvidenceInsert(s)
  <2>1. req[s].opp \in Opps
    BY <1>2, Words DEF AddEvidenceInsert, At, Consistent, RequestRefs, JobRefs
  <2>2. CASE InsertEvidence(req[s].item, req[s].opp) /\ Reply(s, "ok")
    BY <1>2, <2>1, <2>2, Words, ReplyKept, EvidenceKept DEF AddEvidenceInsert
  <2>3. CASE UNCHANGED store /\ Reply(s, "refused")
    BY <1>2, <2>3, Words, ReplyKept DEF AddEvidenceInsert
  <2> QED
    BY <1>2, <2>2, <2>3 DEF AddEvidenceInsert
<1>3. CASE UpdateEvidenceCheck(s)
  BY <1>3, Words, ReplyKept, GotoKept DEF UpdateEvidenceCheck, At, ReadOnly
<1>4. CASE UpdateEvidenceWrite(s)
  <2>1. req[s].opp \in Opps
    BY <1>4, Words DEF UpdateEvidenceWrite, At, Consistent, RequestRefs, JobRefs
  <2> QED
    BY <1>4, <2>1, Words, ReplyKept, EvidenceKept DEF UpdateEvidenceWrite
<1>5. CASE ArchiveEvidenceCheck(s)
  BY <1>5, Words, ReplyKept, GotoKept DEF ArchiveEvidenceCheck, At, ReadOnly
<1>6. CASE ArchiveEvidenceWrite(s)
  <2>1. req[s].opp \in Opps
    BY <1>6, Words DEF ArchiveEvidenceWrite, At, Consistent, RequestRefs, JobRefs
  <2> QED
    BY <1>6, <2>1, Words, ReplyKept, EvidenceKept DEF ArchiveEvidenceWrite
<1> QED
  BY <1>1, <1>2, <1>3, <1>4, <1>5, <1>6

LEMMA ReviewStepsKept ==
    ASSUME Consistent, NEW s \in Slots,
           \/ ReviewInputs(s) \/ ReviewAdmit(s) \/ ReviewInsert(s)
           \/ CompleteCheck(s) \/ CompleteWrite(s)
    PROVE  Consistent'
<1>0. req[s] \in Request /\ JobRefs(req[s], reviews, assessments, dossiers)
  BY DEF Consistent, TypeOK, RequestRefs
<1>1. CASE ReviewInputs(s)
  <2>1. CASE Reply(s, "refused")
    BY <1>1, <2>1, Words, ReplyKept DEF ReviewInputs, ReadOnly
  <2>2. CASE Become(s, [req[s] EXCEPT !.pc = "admit", !.prov = Reread(@, req[s].opp)])
    <3> DEFINE prov == Reread(req[s].prov, req[s].opp)
               job == [req[s] EXCEPT !.pc = "admit", !.prov = prov]
    <3>1. req[s].opp \in Opps /\ req[s].prov \in Provenance /\ req[s].kind = "review"
      BY <1>0, <1>1, Words DEF ReviewInputs, At, JobRefs, Request
    <3>2. prov \in Provenance
      BY <3>1, ReadTypes, ProvenanceTypes DEF Reread
    <3> HIDE DEF prov
    <3>3. job \in Request
      BY <1>0, <3>2, Words, RequestTypes
    <3>4. JobRefs(job, reviews, assessments, dossiers)
      BY <1>0, <1>1, Words DEF ReviewInputs, At, JobRefs, Request
    <3>5. Become(s, job)
      BY <2>2 DEF prov
    <3> HIDE DEF job
    <3> QED
      BY <1>1, <3>3, <3>4, <3>5, ReadFrame DEF ReviewInputs
  <2> QED
    BY <1>1, <2>1, <2>2 DEF ReviewInputs
<1>2. CASE ReviewAdmit(s)
  <2>1. CASE Reply(s, "refused")
    BY <1>2, <2>1, Words, ReplyKept DEF ReviewAdmit, ReadOnly
  <2>2. CASE Become(s, [req[s] EXCEPT !.pc = "insert", !.id = NextId(reviews)])
    <3> DEFINE id == NextId(reviews)
               job == [req[s] EXCEPT !.pc = "insert", !.id = id]
    <3> HIDE DEF id
    <3>1. job \in Request
      <4>1. id \in Nat
        BY IdTypes DEF id
      <4> QED
        BY <1>0, <4>1, Words, RequestTypes
    <3>2. JobRefs(job, reviews, assessments, dossiers)
      BY <1>0, <1>2, Words DEF ReviewAdmit, At, JobRefs, Request
    <3>3. Become(s, job)
      BY <2>2 DEF id
    <3> HIDE DEF job
    <3> QED
      BY <1>2, <3>1, <3>2, <3>3, ReadFrame DEF ReviewAdmit
  <2> QED
    BY <1>2, <2>1, <2>2 DEF ReviewAdmit
<1>3. CASE ReviewInsert(s)
  <2>1. CASE InsertReview(NewReview(s), req[s].id) /\ Reply(s, "ok")
    <3>1. /\ req[s].opp \in Opps
          /\ req[s].target = 0 \/ OneOf(reviews, req[s].opp, req[s].target)
      BY <1>0, <1>3, Words DEF ReviewInsert, At, JobRefs
    <3>2. /\ NewReview(s).opp = req[s].opp /\ NewReview(s).sup = req[s].target
      BY DEF NewReview
    <3>3. NewReview(s) \in ReviewRow
      <4>1. req[s].prov \in Provenance /\ req[s].target \in Nat
        BY <1>0 DEF Request
      <4>2. (IF req[s].mode = "Fails" THEN "Incomplete" ELSE req[s].mode) \in Statuses
        BY <1>0, <1>3, Words DEF ReviewInsert, At, JobRefs, Statuses
      <4> QED
        BY <3>1, <4>1, <4>2 DEF NewReview, ReviewRow, Authors
    <3>4. ReviewRefs(NewReview(s), reviews)
      BY <3>1, <3>2 DEF ReviewRefs, Superseded
    <3>5. StoreKept
      BY <2>1, <3>3, <3>4, InsertReviewKept
    <3> QED
      BY <1>3, <2>1, <3>5, Words, ReplyKept DEF ReviewInsert
  <2>2. CASE UNCHANGED store /\ Reply(s, "refused")
    BY <1>3, <2>2, Words, ReplyKept DEF ReviewInsert
  <2> QED
    BY <1>3, <2>1, <2>2 DEF ReviewInsert
<1>4. CASE CompleteCheck(s)
  BY <1>4, Words, ReplyKept, GotoKept DEF CompleteCheck, At, ReadOnly
<1>5. CASE CompleteWrite(s)
  BY <1>5, Words, ReplyKept, CompleteReviewKept DEF CompleteWrite
<1> QED
  BY <1>1, <1>2, <1>3, <1>4, <1>5

\* What a handler chooses among the rows of an opportunity is one of them.
LEMMA ChoicesAreRows ==
    ASSUME NEW o
    PROVE  /\ DefaultReview(o) = 0 \/ OneOf(reviews, o, DefaultReview(o))
           /\ \A ids \in {CurrentReviews(o)} :
                 Newest(ids) = 0 \/ OneOf(reviews, o, Newest(ids))
           /\ \A ids \in {CurrentAssessments(o), OfOpp(assessments, o)} :
                 Newest(ids) = 0 \/ OneOf(assessments, o, Newest(ids))
           /\ \A ids \in {CurrentDossiers(o)} :
                 Newest(ids) = 0 \/ OneOf(dossiers, o, Newest(ids))
<1>1. /\ \A ids \in SUBSET OfOpp(reviews, o) :
            Newest(ids) = 0 \/ OneOf(reviews, o, Newest(ids))
      /\ \A ids \in SUBSET OfOpp(assessments, o) :
            Newest(ids) = 0 \/ OneOf(assessments, o, Newest(ids))
      /\ \A ids \in SUBSET OfOpp(dossiers, o) :
            Newest(ids) = 0 \/ OneOf(dossiers, o, Newest(ids))
  BY NewestIsOneOf DEF OneOf
<1>2. /\ CurrentReviews(o) \subseteq OfOpp(reviews, o)
      /\ CurrentAssessments(o) \subseteq OfOpp(assessments, o)
      /\ CurrentDossiers(o) \subseteq OfOpp(dossiers, o)
  BY DEF CurrentReviews, CurrentAssessments, CurrentDossiers
<1>3. DefaultReview(o) = 0 \/ OneOf(reviews, o, DefaultReview(o))
  <2>1. {r \in OfOpp(reviews, o) : reviews[r].status # "Superseded"}
          \subseteq OfOpp(reviews, o)
    OBVIOUS
  <2> QED
    BY <1>1, <1>2, <2>1 DEF DefaultReview
<1> QED
  BY <1>1, <1>2, <1>3

LEMMA AssessReadyKept ==
    ASSUME Consistent, NEW s \in Slots, AssessReady(s)
    PROVE  Consistent'
<1> DEFINE o == req[s].opp
           r == IF req[s].target = 0 THEN DefaultReview(o) ELSE req[s].target
<1>1. /\ req[s] \in Request /\ req[s].prov \in Provenance /\ o \in Opps
      /\ req[s].kind = "assess"
      /\ req[s].target = 0 \/ OneOf(reviews, o, req[s].target)
      /\ Superseded(assessments, req[s])
  BY Words DEF AssessReady, At, JobRefs, Request, Consistent, TypeOK, RequestRefs
<1>2. CASE Reply(s, "refused")
  BY <1>2, Words, ReplyKept DEF AssessReady, ReadOnly
<1>3. CASE r # 0 /\ Become(s, [req[s] EXCEPT !.pc = "inputs", !.prov = ReviewUsed(@, r)])
  <2>1. OneOf(reviews, o, r)
    BY <1>1, <1>3, ChoicesAreRows
  <2> HIDE DEF r
  <2>2. r \in Nat /\ reviews[r].rev \in Nat
    BY <2>1, ReadTypes DEF OneOf, OfOpp
  <2> DEFINE prov == ReviewUsed(req[s].prov, r)
             job == [req[s] EXCEPT !.pc = "inputs", !.prov = prov]
  <2>3. prov \in Provenance /\ prov.review = r
    BY <1>1, <2>2 DEF ReviewUsed, Provenance
  <2>4. Become(s, job)
    BY <1>3
  <2> HIDE DEF prov
  <2>5. job \in Request
    BY <1>1, <2>3, Words, RequestTypes
  <2>6. JobRefs(job, reviews, assessments, dossiers)
    <3>1. /\ job.kind = "assess" /\ job.opp = o /\ job.prov.review = r
          /\ job.target = req[s].target /\ job.sup = req[s].sup
      BY <1>1, <2>3 DEF Request
    <3>2. job.kind \in Kinds
      BY <1>1, <3>1, Words
         DEF AssessReady, At, JobRefs, Consistent, RequestRefs
    <3> HIDE DEF job
    <3> QED
      BY <1>1, <2>1, <3>1, <3>2 DEF JobRefs, Superseded
  <2> HIDE DEF job
  <2> QED
    BY <2>4, <2>5, <2>6, ReadFrame DEF AssessReady
<1> QED
  BY <1>2, <1>3 DEF AssessReady

LEMMA AssessStepsKept ==
    ASSUME Consistent, NEW s \in Slots,
           \/ AssessInputs(s) \/ AssessRank(s) \/ LegacyRank(s)
           \/ AssessAdmit(s) \/ AssessInsert(s)
    PROVE  Consistent'
<1>0. req[s] \in Request /\ JobRefs(req[s], reviews, assessments, dossiers)
  BY DEF Consistent, TypeOK, RequestRefs
<1>1. CASE AssessInputs(s)
  <2>1. CASE Reply(s, "refused")
    BY <1>1, <2>1, Words, ReplyKept DEF AssessInputs, ReadOnly
  <2>2. CASE Become(s, [req[s] EXCEPT !.pc = "rank", !.prov = Reread(@, req[s].opp)])
    <3> DEFINE prov == Reread(req[s].prov, req[s].opp)
               job == [req[s] EXCEPT !.pc = "rank", !.prov = prov]
    <3>1. req[s].opp \in Opps /\ req[s].prov \in Provenance /\ req[s].kind = "assess"
      BY <1>0, <1>1, Words DEF AssessInputs, At, JobRefs, Request
    <3>2. prov \in Provenance /\ prov.review = req[s].prov.review
      BY <3>1, ReadTypes, ProvenanceTypes DEF Reread, Provenance
    <3> HIDE DEF prov
    <3>3. job \in Request
      BY <1>0, <3>2, Words, RequestTypes
    <3>4. JobRefs(job, reviews, assessments, dossiers)
      BY <1>0, <1>1, <3>2, Words DEF AssessInputs, At, JobRefs, Request, Superseded
    <3>5. Become(s, job)
      BY <2>2 DEF prov
    <3> HIDE DEF job
    <3> QED
      BY <1>1, <3>3, <3>4, <3>5, ReadFrame DEF AssessInputs
  <2> QED
    BY <1>1, <2>1, <2>2 DEF AssessInputs
<1>3. CASE AssessRank(s)
  <2> DEFINE n == Newest(CurrentAssessments(req[s].opp))
  <2>1. n = 0 \/ OneOf(assessments, req[s].opp, n)
    BY ChoicesAreRows
  <2> DEFINE job == [req[s] EXCEPT !.pc = "admit", !.sup = n]
  <2>2. /\ Become(s, job) /\ ReadOnly
        /\ req[s].kind \in {"assess", "legacy"} /\ req[s].pc = "rank"
    BY <1>3 DEF AssessRank, At
  <2> HIDE DEF n
  <2>3. n \in Nat
    BY <2>1, ReadTypes DEF OneOf, OfOpp
  <2>4. job \in Request
    BY <1>0, <2>3, Words, RequestTypes
  <2>5. JobRefs(job, reviews, assessments, dossiers)
    BY <1>0, <2>1, <2>2, Words DEF JobRefs, Request, Superseded
  <2> HIDE DEF job
  <2> QED
    BY <2>2, <2>4, <2>5, ReadFrame
<1>4. CASE LegacyRank(s)
  <2>1. CASE Reply(s, "refused")
    BY <1>4, <2>1, Words, ReplyKept DEF LegacyRank, ReadOnly
  <2>2. CASE ~ Reply(s, "refused")
    <3> DEFINE n == IF req[s].mode = "revalidate"
                    THEN Newest(OfOpp(assessments, req[s].opp)) ELSE 0
    <3>1. n = 0 \/ OneOf(assessments, req[s].opp, n)
      BY ChoicesAreRows
    <3> DEFINE job == [req[s] EXCEPT !.pc = "admit", !.sup = n]
    <3>2. /\ Become(s, job) /\ ReadOnly
          /\ req[s].kind \in {"assess", "legacy"} /\ req[s].pc = "rank"
      BY <1>4, <2>2 DEF LegacyRank, At
    <3> HIDE DEF n
    <3>3. n \in Nat
      BY <3>1, ReadTypes DEF OneOf, OfOpp
    <3>4. job \in Request
      BY <1>0, <3>3, Words, RequestTypes
    <3>5. JobRefs(job, reviews, assessments, dossiers)
      BY <1>0, <3>1, <3>2, Words DEF JobRefs, Request, Superseded
    <3> HIDE DEF job
    <3> QED
      BY <3>2, <3>4, <3>5, ReadFrame
  <2> QED
    BY <2>1, <2>2
<1>5. CASE AssessAdmit(s)
  <2>1. CASE Reply(s, "refused")
    BY <1>5, <2>1, Words, ReplyKept DEF AssessAdmit, ReadOnly
  <2>2. CASE Become(s, [req[s] EXCEPT !.pc = "insert", !.id = NextId(assessments)])
    <3> DEFINE id == NextId(assessments)
               job == [req[s] EXCEPT !.pc = "insert", !.id = id]
    <3>1. id \in Nat
      BY IdTypes
    <3> HIDE DEF id
    <3>2. job \in Request
      BY <1>0, <3>1, Words, RequestTypes
    <3>3. JobRefs(job, reviews, assessments, dossiers)
      BY <1>0, <1>5, Words DEF AssessAdmit, JobRefs, Request, Superseded
    <3>4. Become(s, job)
      BY <2>2 DEF id
    <3> HIDE DEF job
    <3> QED
      BY <1>5, <3>2, <3>3, <3>4, ReadFrame DEF AssessAdmit
  <2> QED
    BY <1>5, <2>1, <2>2 DEF AssessAdmit
<1>6. CASE AssessInsert(s)
  <2>1. CASE InsertAssessment(NewAssessment(s), req[s].id) /\ Reply(s, "ok")
    <3>1. /\ req[s].opp \in Opps
          /\ Superseded(assessments, req[s])
          /\ req[s].kind = "assess" => OneOf(reviews, req[s].opp, req[s].prov.review)
      BY <1>0, <1>6, Words DEF AssessInsert, JobRefs
    <3>2. req[s].prov \in Provenance /\ req[s].sup \in Nat
      BY <1>0 DEF Request
    <3>3. NewAssessment(s) \in AssessmentRow
      BY <3>1, <3>2 DEF NewAssessment, AssessmentRow, Authors, AssessmentKinds
    <3>4. AssessmentRefs(NewAssessment(s), reviews, assessments)
      BY <3>1 DEF NewAssessment, AssessmentRefs, Superseded
    <3>5. StoreKept
      BY <2>1, <3>3, <3>4, InsertAssessmentKept
    <3> QED
      BY <1>6, <2>1, <3>5, Words, ReplyKept DEF AssessInsert
  <2>2. CASE UNCHANGED store /\ Reply(s, "error")
    BY <1>6, <2>2, Words, ReplyKept DEF AssessInsert
  <2> QED
    BY <1>6, <2>1, <2>2 DEF AssessInsert
<1> QED
  BY <1>1, <1>3, <1>4, <1>5, <1>6

LEMMA DossierReadyKept ==
    ASSUME Consistent, NEW s \in Slots, DossierReady(s)
    PROVE  Consistent'
<1> DEFINE o == req[s].opp
           a == IF req[s].target = 0 THEN Newest(CurrentAssessments(o))
                ELSE req[s].target
<1>0. req[s] \in Request /\ JobRefs(req[s], reviews, assessments, dossiers)
  BY DEF Consistent, TypeOK, RequestRefs
<1>1. /\ o \in Opps /\ req[s].kind = "dossier" /\ req[s].kind \in Kinds
      /\ req[s].target = 0 \/ OneOf(assessments, o, req[s].target)
      /\ Superseded(dossiers, req[s])
  BY <1>0, Words DEF DossierReady, At, JobRefs
<1>2. CASE Reply(s, "refused")
  BY <1>2, Words, ReplyKept DEF DossierReady, ReadOnly
<1>3. CASE /\ a # 0 /\ AssessmentEligible(a)
           /\ Become(s, [req[s] EXCEPT !.pc = "find", !.prov = Snapshot(o, a)])
  <2>1. OneOf(assessments, o, a)
    BY <1>1, <1>3, ChoicesAreRows
  <2> DEFINE r == assessments[a].prov.review
             prov == Snapshot(o, a)
             job == [req[s] EXCEPT !.pc = "find", !.prov = prov]
  <2>2. AssessmentEligible(a) /\ Become(s, job)
    BY <1>3
  <2> HIDE DEF a
  <2>3. OneOf(reviews, o, r)
    BY <2>1, <2>2
       DEF AssessmentEligible, OneOf, OfOpp, Consistent, ReferentialIntegrity, AssessmentRefs
  <2>4. a \in Nat /\ r \in Nat /\ reviews[r].rev \in Nat
    BY <2>1, <2>3, ReadTypes DEF OneOf, OfOpp
  <2>5. Trace(o) \in SUBSET (Evidence \X Nat) /\ opp[o].rev \in Nat /\ opp[o].stamp \in Nat
    BY <1>1, ReadTypes
  <2>6. prov \in Provenance /\ prov.review = r /\ prov.assess = a
    BY <2>4, <2>5 DEF Snapshot, Provenance
  <2> HIDE DEF prov
  <2>7. job \in Request
    BY <1>0, <2>6, Words, RequestTypes
  <2>8. JobRefs(job, reviews, assessments, dossiers)
    BY <1>0, <1>1, <2>1, <2>3, <2>6 DEF JobRefs, Request, Superseded
  <2> HIDE DEF job
  <2> QED
    BY <2>2, <2>7, <2>8, ReadFrame DEF DossierReady
<1> QED
  BY <1>2, <1>3 DEF DossierReady

LEMMA DossierStepsKept ==
    ASSUME Consistent, NEW s \in Slots,
           DossierFind(s) \/ DossierStage(s) \/ DossierRank(s) \/ DossierInsert(s)
    PROVE  Consistent'
<1>0. req[s] \in Request /\ JobRefs(req[s], reviews, assessments, dossiers)
  BY DEF Consistent, TypeOK, RequestRefs
<1>1. CASE DossierFind(s)
  BY <1>1, Words, ReplyKept, GotoKept DEF DossierFind, At, ReadOnly
<1>2. CASE DossierStage(s)
  <2> DEFINE id == NextId(dossiers)
             job == [req[s] EXCEPT !.pc = "rank", !.id = id]
  <2>1. id \in Nat
    BY IdTypes
  <2>2. Become(s, job) /\ ReadOnly /\ At(s, "dossier", "stage")
    BY <1>2 DEF DossierStage
  <2> HIDE DEF id
  <2>3. job \in Request
    BY <1>0, <2>1, Words, RequestTypes
  <2>4. JobRefs(job, reviews, assessments, dossiers)
    BY <1>0, <2>2, Words DEF At, JobRefs, Request, Superseded
  <2> HIDE DEF job
  <2> QED
    BY <2>2, <2>3, <2>4, ReadFrame
<1>3. CASE DossierRank(s)
  <2>1. CASE Reply(s, "refused")
    BY <1>3, <2>1, Words, ReplyKept DEF DossierRank, ReadOnly
  <2>2. CASE ~ Reply(s, "refused")
    <3> DEFINE n == Newest(CurrentDossiers(req[s].opp))
               job == [req[s] EXCEPT !.pc = "insert", !.sup = n]
    <3>1. n = 0 \/ OneOf(dossiers, req[s].opp, n)
      BY ChoicesAreRows
    <3>2. Become(s, job) /\ ReadOnly /\ At(s, "dossier", "rank")
      BY <1>3, <2>2 DEF DossierRank
    <3> HIDE DEF n
    <3>3. n \in Nat
      BY <3>1, ReadTypes DEF OneOf, OfOpp
    <3>4. job \in Request
      BY <1>0, <3>3, Words, RequestTypes
    <3>5. JobRefs(job, reviews, assessments, dossiers)
      BY <1>0, <3>1, <3>2, Words DEF At, JobRefs, Request, Superseded
    <3> HIDE DEF job
    <3> QED
      BY <3>2, <3>4, <3>5, ReadFrame
  <2> QED
    BY <2>1, <2>2
<1>4. CASE DossierInsert(s)
  <2>1. CASE InsertDossier(NewDossier(s), req[s].id) /\ Reply(s, "ok")
    <3>1. /\ req[s].opp \in Opps
          /\ Superseded(dossiers, req[s])
          /\ OneOf(reviews, req[s].opp, req[s].prov.review)
          /\ OneOf(assessments, req[s].opp, req[s].prov.assess)
      BY <1>0, <1>4, Words DEF DossierInsert, At, JobRefs
    <3>2. req[s].prov \in Provenance /\ req[s].sup \in Nat
      BY <1>0 DEF Request
    <3>3. NewDossier(s) \in DossierRow
      BY <3>1, <3>2 DEF NewDossier, DossierRow, Authors
    <3>4. DossierRefs(NewDossier(s), reviews, assessments, dossiers)
      BY <3>1 DEF NewDossier, DossierRefs, Superseded
    <3>5. StoreKept
      BY <2>1, <3>3, <3>4, InsertDossierKept
    <3> QED
      BY <1>4, <2>1, <3>5, Words, ReplyKept DEF DossierInsert
  <2>2. CASE UNCHANGED store /\ Reply(s, "refused")
    BY <1>4, <2>2, Words, ReplyKept DEF DossierInsert
  <2> QED
    BY <1>4, <2>1, <2>2 DEF DossierInsert
<1> QED
  BY <1>1, <1>2, <1>3, <1>4

LEMMA ArchiveReadyKept ==
    ASSUME Consistent, NEW s \in Slots, ArchiveReady(s)
    PROVE  Consistent'
<1> DEFINE o == req[s].opp
           r == Newest(CurrentReviews(o))
           a == Newest(CurrentAssessments(o))
           d == Newest(CurrentDossiers(o))
<1>0. req[s] \in Request /\ JobRefs(req[s], reviews, assessments, dossiers)
  BY DEF Consistent, TypeOK, RequestRefs
<1>1. o \in Opps /\ req[s].kind = "archive" /\ req[s].kind \in Kinds
  BY <1>0, Words DEF ArchiveReady, At, JobRefs
<1>2. CASE Reply(s, "refused")
  BY <1>2, Words, ReplyKept DEF ArchiveReady, ReadOnly
<1>3. CASE /\ r # 0 /\ a # 0 /\ d # 0
           /\ Become(s, [req[s] EXCEPT !.pc = "stage", !.prov = Chain(o, r, a, d)])
  <2>1. OneOf(reviews, o, r) /\ OneOf(assessments, o, a) /\ OneOf(dossiers, o, d)
    BY <1>3, ChoicesAreRows
  <2> DEFINE prov == Chain(o, r, a, d)
             job == [req[s] EXCEPT !.pc = "stage", !.prov = prov]
  <2>2. Become(s, job)
    BY <1>3
  <2> HIDE DEF r, a, d
  <2>3. r \in Nat /\ a \in Nat /\ d \in Nat
    BY <2>1, ReadTypes DEF OneOf, OfOpp
  <2>4. Trace(o) \in SUBSET (Evidence \X Nat) /\ opp[o].rev \in Nat
    BY <1>1, ReadTypes
  <2>5. prov \in Provenance /\ prov.review = r /\ prov.assess = a /\ prov.dossier = d
    BY <2>3, <2>4 DEF Chain, Provenance
  <2> HIDE DEF prov
  <2>6. job \in Request
    BY <1>0, <2>5, Words, RequestTypes
  <2>7. JobRefs(job, reviews, assessments, dossiers)
    BY <1>0, <1>1, <2>1, <2>5 DEF JobRefs, Request
  <2> HIDE DEF job
  <2> QED
    BY <2>2, <2>6, <2>7, ReadFrame DEF ArchiveReady
<1> QED
  BY <1>2, <1>3 DEF ArchiveReady

LEMMA ArchiveStageKept ==
    ASSUME Consistent, NEW s \in Slots, ArchiveStage(s)
    PROVE  Consistent'
<1> DEFINE id == NextId(archives)
           prov == ReviewUsed(req[s].prov, req[s].prov.review)
           job == [req[s] EXCEPT !.pc = "link", !.id = id, !.prov = prov]
<1>1. /\ req[s] \in Request /\ req[s].prov \in Provenance
      /\ JobRefs(req[s], reviews, assessments, dossiers)
  BY DEF Consistent, TypeOK, RequestRefs, Request
<1>2. Become(s, job) /\ ReadOnly /\ At(s, "archive", "stage")
  BY DEF ArchiveStage
<1>3. OneOf(reviews, req[s].opp, req[s].prov.review)
  BY <1>1, <1>2, Words DEF At, JobRefs
<1>4. req[s].prov.review \in Nat /\ reviews[req[s].prov.review].rev \in Nat
  BY <1>3, ReadTypes DEF OneOf, OfOpp
<1>5. /\ prov \in Provenance /\ prov.review = req[s].prov.review
      /\ prov.assess = req[s].prov.assess /\ prov.dossier = req[s].prov.dossier
  BY <1>1, <1>4 DEF ReviewUsed, Provenance
<1>6. id \in Nat
  BY IdTypes
<1> HIDE DEF id, prov
<1>7. job \in Request
  BY <1>1, <1>5, <1>6, Words, RequestTypes
<1>8. JobRefs(job, reviews, assessments, dossiers)
  BY <1>1, <1>2, <1>5, Words DEF At, JobRefs, Request
<1> HIDE DEF job
<1> QED
  BY <1>2, <1>7, <1>8, ReadFrame

LEMMA ArchiveStepsKept ==
    ASSUME Consistent, NEW s \in Slots,
           \/ ArchiveLink(s) \/ ArchiveTidy(s) \/ ArchiveAdmit(s) \/ ArchiveInsert(s)
           \/ ArchiveConfirm(s) \/ ArchiveUnlink(s)
    PROVE  Consistent'
<1>0. /\ req[s] \in Request /\ JobRefs(req[s], reviews, assessments, dossiers)
      /\ req[s].id \in Nat
  BY DEF Consistent, TypeOK, RequestRefs, Request
<1>1. CASE ArchiveLink(s)
  <2>1. CASE LinkPackage(req[s].id, s) /\ Goto(s, "tidy")
    <3>1. StoreKept
      BY <1>0, <2>1, PackagesKept
    <3>2. At(s, "archive", "link") /\ UNCHANGED crashes
      BY <1>1 DEF ArchiveLink
    <3> QED
      BY <2>1, <3>1, <3>2, Words, GotoKept DEF At
  <2>2. CASE UNCHANGED store /\ (Reply(s, "refused") \/ Reply(s, "error"))
    BY <1>1, <2>2, Words, ReplyKept DEF ArchiveLink
  <2> QED
    BY <1>1, <2>1, <2>2 DEF ArchiveLink
<1>2. CASE ArchiveAdmit(s)
  BY <1>2, Words, GotoKept DEF ArchiveAdmit, At, ReadOnly
<1>3. CASE ArchiveInsert(s)
  <2>0. At(s, "archive", "insert") /\ UNCHANGED crashes
    BY <1>3 DEF ArchiveInsert
  <2>1. CASE InsertArchive(NewArchive(s), req[s].id) /\ Goto(s, "confirm")
    <3>1. /\ req[s].opp \in Opps /\ req[s].prov \in Provenance
          /\ OneOf(reviews, req[s].opp, req[s].prov.review)
          /\ OneOf(assessments, req[s].opp, req[s].prov.assess)
          /\ OneOf(dossiers, req[s].opp, req[s].prov.dossier)
      BY <1>0, <2>0, Words DEF At, JobRefs, Request
    <3>2. NewArchive(s) \in ArchiveRow
      BY <3>1 DEF NewArchive, ArchiveRow, Authors
    <3>3. ArchiveRefs(NewArchive(s), reviews, assessments, dossiers)
      BY <3>1 DEF NewArchive, ArchiveRefs
    <3>4. StoreKept
      BY <2>1, <3>2, <3>3, InsertArchiveKept
    <3> QED
      BY <2>0, <2>1, <3>4, Words, GotoKept DEF At
  <2>2. CASE UNCHANGED store /\ Goto(s, "unlink")
    BY <2>0, <2>2, Words, GotoKept DEF At
  <2> QED
    BY <1>3, <2>1, <2>2 DEF ArchiveInsert
<1>4. CASE ArchiveConfirm(s)
  BY <1>4, Words, ReplyKept, GotoKept DEF ArchiveConfirm, At, ReadOnly
<1>5. CASE ArchiveUnlink(s)
  <2>1. CASE UnlinkPackage(req[s].id) /\ Reply(s, "refused")
    <3>1. StoreKept
      BY <1>0, <2>1, PackagesKept
    <3> QED
      BY <1>5, <2>1, <3>1, Words, ReplyKept DEF ArchiveUnlink
  <2>2. CASE UNCHANGED store /\ Reply(s, "error")
    BY <1>5, <2>2, Words, ReplyKept DEF ArchiveUnlink
  <2> QED
    BY <1>5, <2>1, <2>2 DEF ArchiveUnlink
<1>6. CASE ArchiveTidy(s)
  BY <1>6, Words, ReplyKept, GotoKept DEF ArchiveTidy, At, ReadOnly
<1> QED
  BY <1>1, <1>2, <1>3, <1>4, <1>5, <1>6

-----------------------------------------------------------------------------
(* Every step.                                                             *)

LEMMA CrashKept ==
    ASSUME Consistent, Crash
    PROVE  Consistent'
<1>1. ASSUME NEW s \in Slots
      PROVE  req'[s] \in Request /\ (req'[s] = req[s] \/ req'[s].pc \notin Steps)
  <2>1. req[s] \in Request
    BY DEF Consistent, TypeOK
  <2>2. \A kind \in AllKinds \cup {"none"} :
           LET job == [Idle EXCEPT !.kind = kind, !.pc = "lost"]
           IN  job \in Request /\ job.pc = "lost"
    BY IdleTyped DEF Request
  <2>3. req[s].kind \in AllKinds \cup {"none"}
    BY <2>1 DEF Request
  <2>4. req'[s] = IF s \in InFlight
                  THEN [Idle EXCEPT !.kind = req[s].kind, !.pc = "lost"] ELSE req[s]
    BY DEF Crash
  <2>5. "lost" \notin Steps
    BY DEF Steps
  <2> QED
    BY <2>1, <2>2, <2>3, <2>4, <2>5
<1>2. req' \in [Slots -> Request]
  BY <1>1 DEF Crash
<1>3. crashes' \in Nat /\ UNCHANGED store
  <2>1. crashes \in Nat
    BY DEF Consistent, TypeOK
  <2>2. crashes' = crashes + 1 /\ UNCHANGED store
    BY DEF Crash
  <2> QED
    BY <2>1, <2>2
<1>4. \A s \in Slots : JobRefs(req'[s], reviews, assessments, dossiers)
  BY <1>1 DEF JobRefs, Consistent, RequestRefs
<1> QED
  BY <1>2, <1>3, <1>4
     DEF Consistent, TypeOK, StoreTypeOK, ReferentialIntegrity, RequestRefs, store

LEMMA NextConsistent ==
    ASSUME Consistent, [Next]_vars
    PROVE  Consistent'
<1>1. CASE UNCHANGED vars
  <2>1. /\ opp' = opp /\ evid' = evid /\ reviews' = reviews /\ assessments' = assessments
        /\ dossiers' = dossiers /\ archives' = archives /\ packages' = packages
        /\ req' = req /\ crashes' = crashes
    BY <1>1 DEF vars, store
  <2>2. TypeOK'
    BY <2>1 DEF Consistent, TypeOK, StoreTypeOK
  <2>3. ReferentialIntegrity'
    BY <2>1 DEF Consistent, ReferentialIntegrity
  <2>4. RequestRefs'
    BY <2>1 DEF Consistent, RequestRefs
  <2> QED
    BY <2>2, <2>3, <2>4 DEF Consistent
<1>2. CASE \E s \in Slots : Arrive(s) \/ Proceed(s)
  <2>1. PICK s \in Slots : Arrive(s) \/ Proceed(s)
    BY <1>2
  <2>2. CASE Arrive(s)
    BY <2>2, ArriveKept
  <2>3. CASE Proceed(s)
    BY <2>3, OpportunityStepsKept, EvidenceStepsKept, ReviewStepsKept, AssessReadyKept,
       AssessStepsKept, DossierReadyKept, DossierStepsKept, ArchiveReadyKept,
       ArchiveStageKept, ArchiveStepsKept DEF Proceed
  <2> QED
    BY <2>1, <2>2, <2>3
<1>3. CASE Crash
  BY <1>3, CrashKept
<1> QED
  BY <1>1, <1>2, <1>3 DEF Next, Finished

\* Type correctness of the store and of the requests: every state the
\* handlers and the transactions of the service reach is well formed.
THEOREM TypeCorrect == Spec => []TypeOK
<1>1. Consistent => TypeOK
  BY DEF Consistent
<1> QED
  BY <1>1, InitConsistent, NextConsistent, PTL DEF Spec

\* No row ever refers to a missing row or to a row of another opportunity,
\* although a handler writes references it read before other requests wrote:
\* the rows it chose are still there and still belong to its opportunity.
THEOREM ReferencesCorrect == Spec => []ReferentialIntegrity
<1>1. Consistent => ReferentialIntegrity
  BY DEF Consistent
<1> QED
  BY <1>1, InitConsistent, NextConsistent, PTL DEF Spec

-----------------------------------------------------------------------------
(* The ledger of reviews, assessments, dossiers and archives: which steps  *)
(* write the tables of derived records.                                    *)

TablesKept == UNCHANGED <<reviews, assessments, dossiers, archives>>

\* The steps that add or change a derived record.
LedgerWrite(s) ==
    \/ CompleteWrite(s)
    \/ ReviewInsert(s) /\ InsertReview(NewReview(s), req[s].id)
    \/ AssessInsert(s) /\ InsertAssessment(NewAssessment(s), req[s].id)
    \/ DossierInsert(s) /\ InsertDossier(NewDossier(s), req[s].id)
    \/ ArchiveInsert(s) /\ InsertArchive(NewArchive(s), req[s].id)

\* An arriving request reads only.
LEMMA ArriveReads ==
    ASSUME NEW s, Arrive(s)
    PROVE  ReadOnly
<1>1. \A job : Submit(s, job) => ReadOnly
  BY DEF Submit
<1>2. CASE SubmitEdit(s) \/ SubmitClose(s) \/ SubmitAddEvidence(s) \/ SubmitEvidenceChange(s)
  BY <1>1, <1>2 DEF SubmitEdit, SubmitClose, SubmitAddEvidence, SubmitEvidenceChange
<1>3. CASE SubmitReview(s) \/ SubmitComplete(s) \/ SubmitAssess(s) \/ SubmitLegacy(s)
  BY <1>1, <1>3 DEF SubmitReview, SubmitComplete, SubmitAssess, SubmitLegacy
<1>4. CASE SubmitDossier(s) \/ SubmitArchive(s)
  BY <1>1, <1>4 DEF SubmitDossier, SubmitArchive
<1> QED
  BY <1>2, <1>3, <1>4 DEF Arrive

\* A handler's step reads, or is one of the writes above, or writes only the
\* opportunity, the evidence or the packages.
LEMMA ProceedWrites ==
    ASSUME NEW s, Proceed(s)
    PROVE  TablesKept \/ LedgerWrite(s)
<1>1. ReadOnly \/ UNCHANGED store => TablesKept
  BY DEF ReadOnly, store, TablesKept
<1>2. CASE EditCheck(s) \/ EditWrite(s) \/ CloseCheck(s) \/ CloseWrite(s)
  BY <1>1, <1>2
     DEF EditCheck, EditWrite, CloseCheck, CloseWrite, UpdateOpportunity,
         ArchiveOpportunity, TablesKept
<1>3. CASE AddEvidenceCheck(s) \/ AddEvidenceInsert(s)
           \/ UpdateEvidenceCheck(s) \/ UpdateEvidenceWrite(s)
           \/ ArchiveEvidenceCheck(s) \/ ArchiveEvidenceWrite(s)
  BY <1>1, <1>3
     DEF AddEvidenceCheck, AddEvidenceInsert, UpdateEvidenceCheck, UpdateEvidenceWrite,
         ArchiveEvidenceCheck, ArchiveEvidenceWrite, InsertEvidence, UpdateEvidence,
         ArchiveEvidence, TablesKept
<1>4. CASE ReviewInputs(s) \/ ReviewAdmit(s) \/ ReviewInsert(s)
           \/ CompleteCheck(s) \/ CompleteWrite(s)
  BY <1>1, <1>4
     DEF ReviewInputs, ReviewAdmit, ReviewInsert, CompleteCheck, LedgerWrite
<1>5. CASE AssessReady(s) \/ AssessInputs(s) \/ AssessRank(s) \/ LegacyRank(s)
           \/ AssessAdmit(s) \/ AssessInsert(s)
  BY <1>1, <1>5
     DEF AssessReady, AssessInputs, AssessRank, LegacyRank, AssessAdmit, AssessInsert,
         LedgerWrite
<1>6. CASE DossierReady(s) \/ DossierFind(s) \/ DossierStage(s) \/ DossierRank(s)
           \/ DossierInsert(s)
  BY <1>1, <1>6
     DEF DossierReady, DossierFind, DossierStage, DossierRank, DossierInsert, LedgerWrite
<1>7. CASE ArchiveReady(s) \/ ArchiveStage(s) \/ ArchiveTidy(s) \/ ArchiveAdmit(s)
           \/ ArchiveConfirm(s)
  BY <1>1, <1>7 DEF ArchiveReady, ArchiveStage, ArchiveTidy, ArchiveAdmit, ArchiveConfirm
<1>8. CASE ArchiveLink(s) \/ ArchiveInsert(s) \/ ArchiveUnlink(s)
  BY <1>1, <1>8
     DEF ArchiveLink, ArchiveInsert, ArchiveUnlink, LinkPackage, UnlinkPackage,
         TablesKept, LedgerWrite
<1> QED
  BY <1>2, <1>3, <1>4, <1>5, <1>6, <1>7, <1>8 DEF Proceed

LEMMA NextWrites ==
    ASSUME [Next]_vars
    PROVE  TablesKept \/ \E s \in Slots : LedgerWrite(s)
<1>1. UNCHANGED store => TablesKept
  BY DEF store, TablesKept
<1>2. UNCHANGED vars => UNCHANGED store
  BY DEF vars
<1>3. ASSUME NEW s \in Slots, Arrive(s)
      PROVE  UNCHANGED store
  BY <1>3, ArriveReads DEF ReadOnly
<1>4. Crash => UNCHANGED store
  BY DEF Crash
<1> QED
  BY <1>1, <1>2, <1>3, <1>4, ProceedWrites DEF Next, Finished

\* The rows the handlers insert are rows.
LEMMA NewRows ==
    ASSUME Consistent, NEW s \in Slots
    PROVE  /\ At(s, "review", "insert") => NewReview(s) \in ReviewRow
           /\ AssessInsert(s) => NewAssessment(s) \in AssessmentRow
           /\ At(s, "dossier", "insert") => NewDossier(s) \in DossierRow
           /\ At(s, "archive", "insert") => NewArchive(s) \in ArchiveRow
<1>1. /\ req[s] \in Request /\ JobRefs(req[s], reviews, assessments, dossiers)
      /\ req[s].prov \in Provenance /\ req[s].sup \in Nat /\ req[s].target \in Nat
  BY DEF Consistent, TypeOK, RequestRefs, Request
<1>2. req[s].pc = "insert" => req[s].opp \in Opps
  BY <1>1, Words DEF JobRefs
<1>3. At(s, "review", "insert") => NewReview(s) \in ReviewRow
  <2> SUFFICES ASSUME At(s, "review", "insert")
               PROVE  NewReview(s) \in ReviewRow
    OBVIOUS
  <2>1. req[s].mode \in {"Draft", "Completed", "Fails"}
    BY <1>1, Words DEF At, JobRefs
  <2> QED
    BY <1>1, <1>2, <2>1 DEF At, NewReview, ReviewRow, Authors, Statuses
<1>4. AssessInsert(s) => NewAssessment(s) \in AssessmentRow
  BY <1>1, <1>2 DEF AssessInsert, NewAssessment, AssessmentRow, AssessmentKinds, Authors
<1>5. At(s, "dossier", "insert") => NewDossier(s) \in DossierRow
  BY <1>1, <1>2 DEF At, NewDossier, DossierRow, Authors
<1>6. At(s, "archive", "insert") => NewArchive(s) \in ArchiveRow
  BY <1>1, <1>2 DEF At, NewArchive, ArchiveRow, Authors
<1> QED
  BY <1>3, <1>4, <1>5, <1>6

-----------------------------------------------------------------------------
(* One dossier per input.                                                  *)

LEMMA InitOneDossier ==
    ASSUME Init
    PROVE  OneDossierPerInput
<1>1. DOMAIN dossiers = 1..Len(Seed) /\ DOMAIN Seed = 1..Len(Seed)
  BY StoreAssumption, LenProperties DEF Init, StoreInit
<1>2. \A i \in 1..Len(Seed) : dossiers[i].opp = Seed[i][1]
  BY DEF Init, StoreInit
<1> QED
  BY <1>1, <1>2, StoreAssumption DEF OneDossierPerInput

LEMMA DossierInserted ==
    ASSUME dossiers \in Seq(DossierRow), OneDossierPerInput,
           NEW row \in DossierRow, NEW id, InsertDossier(row, id)
    PROVE  OneDossierPerInput'
<1> DEFINE n == Len(dossiers)
<1>1. dossiers' = Append(dossiers, row) /\ SnapshotFree(row)
  BY DEF InsertDossier
<1>2. /\ n \in Nat /\ DOMAIN dossiers = 1..n /\ DOMAIN dossiers' = 1..(n + 1)
      /\ \A i \in DOMAIN dossiers : dossiers'[i] = dossiers[i]
      /\ dossiers'[n + 1] = row
  BY <1>1, AppendRow
<1> HIDE DEF n
<1>3. \A i \in DOMAIN dossiers' : i \in DOMAIN dossiers \/ i = n + 1
  BY <1>2
<1>4. \A i \in DOMAIN dossiers :
         dossiers'[i].opp # row.opp \/ dossiers'[i].prov # row.prov
  BY <1>1, <1>2 DEF SnapshotFree
<1> QED
  BY <1>2, <1>3, <1>4 DEF OneDossierPerInput

\* However many requests find no dossier for the same inputs at the same
\* time, one dossier presents them: the UNIQUE constraint decides.
THEOREM DossiersUnique == Spec => []OneDossierPerInput
<1> DEFINE Inv == Consistent /\ OneDossierPerInput
<1>1. Init => Inv
  BY InitConsistent, InitOneDossier
<1>2. Inv /\ [Next]_vars => Inv'
  <2> SUFFICES ASSUME Inv, [Next]_vars
               PROVE  Inv'
    OBVIOUS
  <2>1. Consistent' /\ dossiers \in Seq(DossierRow)
    BY NextConsistent DEF Consistent, TypeOK, StoreTypeOK
  <2>2. CASE UNCHANGED dossiers
    BY <2>1, <2>2 DEF OneDossierPerInput
  <2>3. ASSUME NEW s \in Slots, DossierInsert(s), InsertDossier(NewDossier(s), req[s].id)
        PROVE  Inv'
    <3>1. NewDossier(s) \in DossierRow
      BY <2>3, NewRows DEF DossierInsert
    <3> QED
      BY <2>1, <2>3, <3>1, DossierInserted
  <2>4. ASSUME NEW s \in Slots, LedgerWrite(s)
        PROVE  UNCHANGED dossiers \/ (DossierInsert(s) /\ InsertDossier(NewDossier(s), req[s].id))
    BY <2>4
       DEF LedgerWrite, CompleteWrite, CompleteReview, InsertReview, InsertAssessment,
           InsertArchive
  <2> QED
    BY <2>2, <2>3, <2>4, NextWrites DEF TablesKept
<1> QED
  BY <1>1, <1>2, PTL DEF Spec

-----------------------------------------------------------------------------
(* The ledger only grows.                                                  *)

LEMMA SameTable ==
    ASSUME NEW S, NEW table \in Seq(S)
    PROVE  Extends(table, table)
<1>1. Len(table) \in Nat
  BY LenProperties
<1> QED
  BY <1>1 DEF Extends

LEMMA LongerTable ==
    ASSUME NEW S, NEW table \in Seq(S), NEW row \in S
    PROVE  Extends(table, Append(table, row))
<1>1. /\ Len(table) \in Nat /\ Len(Append(table, row)) = Len(table) + 1
      /\ \A i \in DOMAIN table : Append(table, row)[i] = table[i]
  BY AppendRow
<1> QED
  BY <1>1 DEF Extends

\* Closing a review, or completing it, is no change of its derivation.
LEMMA MovedReview ==
    ASSUME NEW q \in ReviewRow, NEW status
    PROVE  Derivation([q EXCEPT !.status = status, !.rev = @ + 1]) = Derivation(q)
<1>1. \A n : Derivation([q EXCEPT !.status = status, !.rev = n]) = Derivation(q)
  BY DEF Derivation, ReviewRow
<1> QED
  BY <1>1

LEMMA InsertReviewExtends ==
    ASSUME reviews \in Seq(ReviewRow), NEW row \in ReviewRow, NEW id, InsertReview(row, id)
    PROVE  Extends(reviews, reviews')
<1> DEFINE older == ClosedBy(row)
<1>1. /\ older \in Seq(ReviewRow)
      /\ Len(older) = Len(reviews)
      /\ DOMAIN older = DOMAIN reviews
  BY ClosedByKeepsRows, LenProperties
<1>2. ASSUME NEW i \in DOMAIN reviews
      PROVE  Derivation(older[i]) = Derivation(reviews[i])
  <2>1. reviews[i] \in ReviewRow
    OBVIOUS
  <2>2. CASE i = row.sup
    <3>1. older[i] = [reviews[i] EXCEPT !.status = "Superseded", !.rev = @ + 1]
      BY <2>2 DEF ClosedBy
    <3> HIDE DEF older
    <3> QED
      BY <2>1, <3>1, MovedReview
  <2>3. CASE i # row.sup
    BY <2>3 DEF ClosedBy
  <2> QED
    BY <2>2, <2>3
<1>3. reviews' = Append(older, row)
  BY DEF InsertReview
<1> HIDE DEF older
<1>4. Extends(older, reviews')
  BY <1>1, <1>3, LongerTable
<1> QED
  BY <1>1, <1>2, <1>4 DEF Extends

LEMMA CompleteReviewExtends ==
    ASSUME Consistent, NEW r, CompleteReview(r)
    PROVE  Extends(reviews, reviews')
<1>1. reviews \in Seq(ReviewRow) /\ reviews' \in Seq(ReviewRow)
  BY CompleteReviewKept DEF Consistent, TypeOK, StoreKept, StoreTypeOK
<1>2. ASSUME NEW i \in DOMAIN reviews
      PROVE  Derivation(reviews'[i]) = Derivation(reviews[i])
  <2>1. reviews[i] \in ReviewRow
    BY <1>1
  <2>2. CASE i = r
    <3>1. reviews'[i] = [reviews[i] EXCEPT !.status = "Completed", !.rev = @ + 1]
      BY <2>2 DEF CompleteReview
    <3> QED
      BY <2>1, <3>1, MovedReview
  <2>3. CASE i # r
    BY <2>3 DEF CompleteReview
  <2> QED
    BY <2>2, <2>3
<1>3. DOMAIN reviews' = DOMAIN reviews
  BY DEF CompleteReview
<1>4. Len(reviews') = Len(reviews) /\ Len(reviews) \in Nat
  BY <1>1, <1>3, LenProperties
<1> QED
  BY <1>2, <1>4 DEF Extends

LedgerGrows ==
    /\ Extends(reviews, reviews')
    /\ Extends(assessments, assessments')
    /\ Extends(dossiers, dossiers')
    /\ \A i \in DOMAIN archives : i \in DOMAIN archives' /\ archives'[i] = archives[i]

LEMMA NextGrows ==
    ASSUME Consistent, [Next]_vars
    PROVE  LedgerGrows
<1>0. /\ reviews \in Seq(ReviewRow) /\ assessments \in Seq(AssessmentRow)
      /\ dossiers \in Seq(DossierRow) /\ archives \in Seq(ArchiveRow)
  BY DEF Consistent, TypeOK, StoreTypeOK
<1>1. /\ Extends(reviews, reviews) /\ Extends(assessments, assessments)
      /\ Extends(dossiers, dossiers)
  BY <1>0, SameTable
<1>2. CASE TablesKept
  BY <1>1, <1>2 DEF TablesKept, LedgerGrows
<1>3. ASSUME NEW s \in Slots, LedgerWrite(s)
      PROVE  LedgerGrows
  <2>1. CASE CompleteWrite(s)
    <3>1. CompleteReview(req[s].target)
      BY <2>1 DEF CompleteWrite
    <3> QED
      BY <1>1, <3>1, CompleteReviewExtends DEF CompleteReview, LedgerGrows
  <2>2. CASE ReviewInsert(s) /\ InsertReview(NewReview(s), req[s].id)
    <3>1. NewReview(s) \in ReviewRow
      BY <2>2, NewRows DEF ReviewInsert
    <3>2. Extends(reviews, reviews')
      BY <1>0, <2>2, <3>1, InsertReviewExtends
    <3> QED
      BY <1>1, <2>2, <3>2 DEF InsertReview, LedgerGrows
  <2>3. CASE AssessInsert(s) /\ InsertAssessment(NewAssessment(s), req[s].id)
    <3>1. NewAssessment(s) \in AssessmentRow
      BY <2>3, NewRows
    <3>2. Extends(assessments, Append(assessments, NewAssessment(s)))
      BY <1>0, <3>1, LongerTable
    <3> QED
      BY <1>1, <2>3, <3>2 DEF InsertAssessment, LedgerGrows
  <2>4. CASE DossierInsert(s) /\ InsertDossier(NewDossier(s), req[s].id)
    <3>1. NewDossier(s) \in DossierRow
      BY <2>4, NewRows DEF DossierInsert
    <3>2. Extends(dossiers, Append(dossiers, NewDossier(s)))
      BY <1>0, <3>1, LongerTable
    <3> QED
      BY <1>1, <2>4, <3>2 DEF InsertDossier, LedgerGrows
  <2>5. CASE ArchiveInsert(s) /\ InsertArchive(NewArchive(s), req[s].id)
    <3>1. NewArchive(s) \in ArchiveRow
      BY <2>5, NewRows DEF ArchiveInsert
    <3>2. /\ archives' = Append(archives, NewArchive(s))
          /\ UNCHANGED <<reviews, assessments, dossiers>>
      BY <2>5 DEF InsertArchive
    <3>3. \A i \in DOMAIN archives : i \in DOMAIN archives' /\ archives'[i] = archives[i]
      BY <1>0, <3>1, <3>2, AppendRow
    <3> QED
      BY <1>1, <3>2, <3>3 DEF LedgerGrows
  <2> QED
    BY <1>3, <2>1, <2>2, <2>3, <2>4, <2>5 DEF LedgerWrite
<1> QED
  BY <1>2, <1>3, NextWrites

\* No request, however it races with others, changes what a review, an
\* assessment, a dossier or an archive was derived from, and none replaces a
\* row: the identifier a handler read may be taken when it inserts, and then
\* the insert fails.
THEOREM LedgerIsAppendOnly == Spec => LedgerAppendOnly
<1>1. Consistent /\ [Next]_vars => [LedgerGrows]_vars
  BY NextGrows
<1>2. Spec => []Consistent
  BY InitConsistent, NextConsistent, PTL DEF Spec
<1>3. Spec => [][LedgerGrows]_vars
  BY <1>1, <1>2, PTL DEF Spec
<1> QED
  BY <1>3, PTL DEF LedgerAppendOnly, LedgerGrows

-----------------------------------------------------------------------------
(* What a step does to the requests.                                       *)

LEMMA BecomeMoves ==
    ASSUME TypeOK, NEW s \in Slots, NEW job, Become(s, job)
    PROVE  req'[s] = job /\ \A t \in Slots \ {s} : req'[t] = req[t]
  BY DEF TypeOK, Become

\* A handler's step changes its own request only, which keeps its kind.
LEMMA ProceedMoves ==
    ASSUME TypeOK, NEW s \in Slots, Proceed(s)
    PROVE  /\ req'[s].kind = req[s].kind
           /\ \A t \in Slots \ {s} : req'[t] = req[t]
           /\ req[s].pc \in Steps
<1> DEFINE Moves == \E job : Become(s, job) /\ job.kind = req[s].kind
<1>0. req[s] \in Request
  BY DEF TypeOK
<1>1. \A res : Reply(s, res) => Moves
  <2>1. \A res : Answered(req[s], res).kind = req[s].kind
    BY DEF Answered, Idle
  <2> QED
    BY <2>1 DEF Reply
<1>2. \A pc : Goto(s, pc) => Moves
  <2>1. \A pc : [req[s] EXCEPT !.pc = pc].kind = req[s].kind
    BY <1>0 DEF Request
  <2> QED
    BY <2>1 DEF Goto
<1>3. /\ \A pc, n : [req[s] EXCEPT !.pc = pc, !.id = n].kind = req[s].kind
      /\ \A pc, n : [req[s] EXCEPT !.pc = pc, !.sup = n].kind = req[s].kind
      /\ \A pc, p : [req[s] EXCEPT !.pc = pc, !.prov = p].kind = req[s].kind
      /\ \A pc, n, p :
            [req[s] EXCEPT !.pc = pc, !.id = n, !.prov = p].kind = req[s].kind
  <2> DEFINE j == req[s]
  <2>1. DOMAIN j = DOMAIN Idle
    BY <1>0, IdleTyped DEF Request
  <2>2. "kind" \in DOMAIN j
    BY <2>1 DEF Idle
  <2> HIDE DEF j
  <2>3. \A pc, n : [j EXCEPT !.pc = pc, !.id = n].kind = j.kind
    BY <2>2
  <2>4. \A pc, n : [j EXCEPT !.pc = pc, !.sup = n].kind = j.kind
    BY <2>2
  <2>5. \A pc, p : [j EXCEPT !.pc = pc, !.prov = p].kind = j.kind
    BY <2>2
  <2>6. \A pc, n, p : [j EXCEPT !.pc = pc, !.id = n, !.prov = p].kind = j.kind
    BY <2>2
  <2> QED
    BY <2>3, <2>4, <2>5, <2>6 DEF j
<1>4. /\ \A pc, n : Become(s, [req[s] EXCEPT !.pc = pc, !.id = n]) => Moves
      /\ \A pc, n : Become(s, [req[s] EXCEPT !.pc = pc, !.sup = n]) => Moves
      /\ \A pc, p : Become(s, [req[s] EXCEPT !.pc = pc, !.prov = p]) => Moves
      /\ \A pc, n, p : Become(s, [req[s] EXCEPT !.pc = pc, !.id = n, !.prov = p]) => Moves
  <2>1. \A job : Become(s, job) /\ job.kind = req[s].kind => Moves
    OBVIOUS
  <2> HIDE DEF Moves
  <2>2. ASSUME NEW pc, NEW n, Become(s, [req[s] EXCEPT !.pc = pc, !.id = n])
        PROVE  Moves
    <3> DEFINE job == [req[s] EXCEPT !.pc = pc, !.id = n]
    <3>1. job.kind = req[s].kind
      BY <1>3
    <3>2. Become(s, job)
      BY <2>2
    <3> HIDE DEF job
    <3> QED
      BY <2>1, <3>1, <3>2
  <2>3. ASSUME NEW pc, NEW n, Become(s, [req[s] EXCEPT !.pc = pc, !.sup = n])
        PROVE  Moves
    <3> DEFINE job == [req[s] EXCEPT !.pc = pc, !.sup = n]
    <3>1. job.kind = req[s].kind
      BY <1>3
    <3>2. Become(s, job)
      BY <2>3
    <3> HIDE DEF job
    <3> QED
      BY <2>1, <3>1, <3>2
  <2>4. ASSUME NEW pc, NEW p, Become(s, [req[s] EXCEPT !.pc = pc, !.prov = p])
        PROVE  Moves
    <3> DEFINE job == [req[s] EXCEPT !.pc = pc, !.prov = p]
    <3>1. job.kind = req[s].kind
      BY <1>3
    <3>2. Become(s, job)
      BY <2>4
    <3> HIDE DEF job
    <3> QED
      BY <2>1, <3>1, <3>2
  <2>5. ASSUME NEW pc, NEW n, NEW p, Become(s, [req[s] EXCEPT !.pc = pc, !.id = n, !.prov = p])
        PROVE  Moves
    <3> DEFINE job == [req[s] EXCEPT !.pc = pc, !.id = n, !.prov = p]
    <3>1. job.kind = req[s].kind
      BY <1>3
    <3>2. Become(s, job)
      BY <2>5
    <3> HIDE DEF job
    <3> QED
      BY <2>1, <3>1, <3>2
  <2> QED
    BY <2>2, <2>3, <2>4, <2>5
<1>5. Moves => /\ req'[s].kind = req[s].kind
               /\ \A t \in Slots \ {s} : req'[t] = req[t]
  BY BecomeMoves
<1> HIDE DEF Moves
<1>6. CASE EditCheck(s) \/ EditWrite(s) \/ CloseCheck(s) \/ CloseWrite(s)
  BY <1>1, <1>2, <1>5, <1>6 DEF EditCheck, EditWrite, CloseCheck, CloseWrite, At, Steps
<1>7. CASE AddEvidenceCheck(s) \/ AddEvidenceInsert(s)
           \/ UpdateEvidenceCheck(s) \/ UpdateEvidenceWrite(s)
           \/ ArchiveEvidenceCheck(s) \/ ArchiveEvidenceWrite(s)
  BY <1>1, <1>2, <1>5, <1>7
     DEF AddEvidenceCheck, AddEvidenceInsert, UpdateEvidenceCheck, UpdateEvidenceWrite,
         ArchiveEvidenceCheck, ArchiveEvidenceWrite, At, Steps
<1>8. CASE ReviewInputs(s) \/ ReviewAdmit(s) \/ ReviewInsert(s)
           \/ CompleteCheck(s) \/ CompleteWrite(s)
  BY <1>1, <1>2, <1>4, <1>5, <1>8
     DEF ReviewInputs, ReviewAdmit, ReviewInsert, CompleteCheck, CompleteWrite, At, Steps
<1>9. CASE AssessReady(s) \/ AssessInputs(s) \/ AssessRank(s) \/ LegacyRank(s)
           \/ AssessAdmit(s) \/ AssessInsert(s)
  BY <1>1, <1>4, <1>5, <1>9
     DEF AssessReady, AssessInputs, AssessRank, LegacyRank, AssessAdmit, AssessInsert,
         At, Steps
<1>10. CASE DossierReady(s) \/ DossierFind(s) \/ DossierStage(s) \/ DossierInsert(s)
  BY <1>1, <1>2, <1>4, <1>5, <1>10
     DEF DossierReady, DossierFind, DossierStage, DossierInsert, At, Steps
<1>11. CASE DossierRank(s)
  BY <1>1, <1>4, <1>5, <1>11 DEF DossierRank, At, Steps
<1>12. CASE ArchiveReady(s) \/ ArchiveStage(s) \/ ArchiveLink(s) \/ ArchiveTidy(s)
            \/ ArchiveAdmit(s) \/ ArchiveInsert(s) \/ ArchiveConfirm(s) \/ ArchiveUnlink(s)
  BY <1>1, <1>2, <1>4, <1>5, <1>12
     DEF ArchiveReady, ArchiveStage, ArchiveLink, ArchiveTidy, ArchiveAdmit, ArchiveInsert,
         ArchiveConfirm, ArchiveUnlink, At, Steps
<1> QED
  BY <1>6, <1>7, <1>8, <1>9, <1>10, <1>11, <1>12 DEF Proceed

\* An arriving request takes an idle slot and starts with its first step.
FirstSteps == {"check", "inputs", "ready", "rank"}

LEMMA ArriveMoves ==
    ASSUME TypeOK, NEW s \in Slots, Arrive(s)
    PROVE  /\ req[s].pc = "idle" /\ req'[s].pc \in FirstSteps
           /\ \A t \in Slots \ {s} : req'[t] = req[t]
<1> DEFINE Started == /\ req[s].pc = "idle" /\ req'[s].pc \in FirstSteps
                      /\ \A t \in Slots \ {s} : req'[t] = req[t]
<1> SUFFICES Started
  OBVIOUS
<1>1. \A job : Submit(s, job) /\ job.pc \in FirstSteps => Started
  BY BecomeMoves DEF Submit
<1> HIDE DEF Started
<1>2. ASSUME NEW kind, NEW pc \in FirstSteps, NEW o
      PROVE  /\ Submit(s, Job(kind, pc, o)) => Started
             /\ \A m : Submit(s, [Job(kind, pc, o) EXCEPT !.expect = m]) => Started
             /\ \A n : Submit(s, [Job(kind, pc, o) EXCEPT !.target = n]) => Started
             /\ \A mode : Submit(s, [Job(kind, pc, o) EXCEPT !.mode = mode]) => Started
             /\ \A mode, n :
                   Submit(s, [Job(kind, pc, o) EXCEPT !.mode = mode, !.target = n]) => Started
             /\ \A n, m :
                   Submit(s, [Job(kind, pc, o) EXCEPT !.target = n, !.expect = m]) => Started
             /\ \A e : Submit(s, [Job(kind, pc, o) EXCEPT !.item = e]) => Started
             /\ \A e, m :
                   Submit(s, [Job(kind, pc, o) EXCEPT !.item = e, !.expect = m]) => Started
  <2> DEFINE job == Job(kind, pc, o)
  <2>1. job.pc = pc /\ "pc" \in DOMAIN job
    BY DEF Job, Idle
  <2> HIDE DEF job
  <2>2. \A m : [job EXCEPT !.expect = m].pc = pc
    BY <2>1
  <2>3. \A n : [job EXCEPT !.target = n].pc = pc
    BY <2>1
  <2>4. \A mode : [job EXCEPT !.mode = mode].pc = pc
    BY <2>1
  <2>5. \A mode, n : [job EXCEPT !.mode = mode, !.target = n].pc = pc
    BY <2>1
  <2>6. \A n, m : [job EXCEPT !.target = n, !.expect = m].pc = pc
    BY <2>1
  <2>7. \A e : [job EXCEPT !.item = e].pc = pc
    BY <2>1
  <2>8. \A e, m : [job EXCEPT !.item = e, !.expect = m].pc = pc
    BY <2>1
  <2> QED
    BY <1>1, <2>1, <2>2, <2>3, <2>4, <2>5, <2>6, <2>7, <2>8 DEF job
<1>3. {"check", "inputs", "ready", "rank"} = FirstSteps
  BY DEF FirstSteps
<1>4. CASE SubmitEdit(s) \/ SubmitClose(s) \/ SubmitAddEvidence(s)
  BY <1>2, <1>3, <1>4 DEF SubmitEdit, SubmitClose, SubmitAddEvidence
<1>5. CASE SubmitEvidenceChange(s) \/ SubmitReview(s) \/ SubmitComplete(s)
  BY <1>2, <1>3, <1>5 DEF SubmitEvidenceChange, SubmitReview, SubmitComplete
<1>6. CASE SubmitAssess(s) \/ SubmitLegacy(s) \/ SubmitDossier(s) \/ SubmitArchive(s)
  BY <1>2, <1>3, <1>6 DEF SubmitAssess, SubmitLegacy, SubmitDossier, SubmitArchive
<1> QED
  BY <1>4, <1>5, <1>6 DEF Arrive

\* What may happen to a request in one step of the service.
LEMMA NextMoves ==
    ASSUME TypeOK, [Next]_vars
    PROVE  \A s \in Slots : \/ req'[s] = req[s]
                            \/ req'[s].pc = "lost" /\ req[s].pc \in Steps /\ UNCHANGED store
                            \/ Arrive(s) \/ Proceed(s)
<1> SUFFICES ASSUME NEW s \in Slots
             PROVE  \/ req'[s] = req[s]
                    \/ req'[s].pc = "lost" /\ req[s].pc \in Steps /\ UNCHANGED store
                    \/ Arrive(s) \/ Proceed(s)
  OBVIOUS
<1>1. CASE UNCHANGED vars
  BY <1>1 DEF vars
<1>2. ASSUME NEW t \in Slots, Arrive(t) \/ Proceed(t)
      PROVE  req'[s] = req[s] \/ Arrive(s) \/ Proceed(s)
  BY <1>2, ArriveMoves, ProceedMoves
<1>3. CASE Crash
  <2>1. UNCHANGED store
    BY <1>3 DEF Crash
  <2>2. req'[s] = IF s \in InFlight
                  THEN [Idle EXCEPT !.kind = req[s].kind, !.pc = "lost"] ELSE req[s]
    BY <1>3 DEF Crash
  <2>3. [Idle EXCEPT !.kind = req[s].kind, !.pc = "lost"].pc = "lost"
    BY DEF Idle
  <2> QED
    BY <2>1, <2>2, <2>3 DEF InFlight
<1> QED
  BY <1>1, <1>2, <1>3 DEF Next, Finished

-----------------------------------------------------------------------------
(* A request goes forward and is answered once.                            *)

\* The steps of the handler of each kind of request.
StepsOf(kind) ==
    CASE kind \in {"edit", "close", "updateEvidence", "archiveEvidence", "complete"} ->
            {"check", "write"}
      [] kind = "addEvidence" -> {"check", "insert"}
      [] kind = "review" -> {"inputs", "admit", "insert"}
      [] kind = "assess" -> {"ready", "inputs", "rank", "admit", "insert"}
      [] kind = "legacy" -> {"rank", "admit", "insert"}
      [] kind = "dossier" -> {"ready", "find", "stage", "rank", "insert"}
      [] kind = "archive" ->
            {"ready", "stage", "link", "tidy", "admit", "insert", "confirm", "unlink"}
      [] OTHER -> {}

\* An order that is the order of the steps in every handler.
Place(pc) ==
    CASE pc = "check" -> 1
      [] pc = "ready" -> 2
      [] pc = "inputs" -> 3
      [] pc = "find" -> 4
      [] pc = "stage" -> 5
      [] pc = "link" -> 6
      [] pc = "tidy" -> 7
      [] pc = "rank" -> 7
      [] pc = "admit" -> 8
      [] pc = "write" -> 9
      [] pc = "insert" -> 10
      [] pc = "confirm" -> 11
      [] pc = "unlink" -> 12

\* A request of the kind may go from one step to the other.
Ahead(kind, from, to) == to \in StepsOf(kind) /\ Place(from) < Place(to)

Sent(j) == <<j.kind, j.opp, j.item, j.target, j.expect, j.mode>>

\* The same request at a later step, and an answer to it.
Later(j, next) == Ahead(j.kind, j.pc, next.pc) /\ Sent(next) = Sent(j)

AnswerTo(j, next) ==
    /\ next.pc = "done" /\ next.res # "none"
    /\ next.kind = j.kind /\ next.opp = j.opp
    /\ next.item = j.item /\ next.expect = j.expect

\* A request in flight is at a step its handler has.
RequestsAreHandled ==
    \A s \in Slots : req[s].pc \in Steps => req[s].pc \in StepsOf(req[s].kind)

\* A step of the service leaves a request in flight where it is, takes it on,
\* answers it or loses it, and leaves an answer or a loss for good.
RequestsGoForward ==
    \A s \in Slots :
        /\ req[s].pc \in Steps =>
              \/ req'[s] = req[s]
              \/ Later(req[s], req'[s])
              \/ AnswerTo(req[s], req'[s])
              \/ req'[s].pc = "lost"
        /\ req[s].pc \in {"done", "lost"} => req'[s] = req[s]

LEMMA HandlersInOrder ==
    /\ \A kind \in {"edit", "close", "updateEvidence", "archiveEvidence", "complete"} :
          "check" \in StepsOf(kind) /\ Ahead(kind, "check", "write")
    /\ "check" \in StepsOf("addEvidence") /\ Ahead("addEvidence", "check", "insert")
    /\ "inputs" \in StepsOf("review")
    /\ Ahead("review", "inputs", "admit") /\ Ahead("review", "admit", "insert")
    /\ "ready" \in StepsOf("assess")
    /\ Ahead("assess", "ready", "inputs") /\ Ahead("assess", "inputs", "rank")
    /\ "rank" \in StepsOf("legacy")
    /\ \A kind \in {"assess", "legacy"} :
          Ahead(kind, "rank", "admit") /\ Ahead(kind, "admit", "insert")
    /\ "ready" \in StepsOf("dossier")
    /\ Ahead("dossier", "ready", "find") /\ Ahead("dossier", "find", "stage")
    /\ Ahead("dossier", "stage", "rank") /\ Ahead("dossier", "rank", "insert")
    /\ "ready" \in StepsOf("archive")
    /\ Ahead("archive", "ready", "stage") /\ Ahead("archive", "stage", "link")
    /\ Ahead("archive", "link", "tidy") /\ Ahead("archive", "tidy", "admit")
    /\ Ahead("archive", "admit", "insert")
    /\ Ahead("archive", "admit", "unlink") /\ Ahead("archive", "insert", "confirm")
    /\ Ahead("archive", "insert", "unlink") /\ Ahead("archive", "confirm", "unlink")
<1>1. /\ Place("check") = 1 /\ Place("ready") = 2 /\ Place("inputs") = 3
      /\ Place("find") = 4 /\ Place("stage") = 5 /\ Place("link") = 6
      /\ Place("tidy") = 7
      /\ Place("rank") = 7 /\ Place("admit") = 8 /\ Place("write") = 9
      /\ Place("insert") = 10 /\ Place("confirm") = 11 /\ Place("unlink") = 12
  BY DEF Place
<1>2. /\ \A kind \in {"edit", "close", "updateEvidence", "archiveEvidence", "complete"} :
            StepsOf(kind) = {"check", "write"}
      /\ StepsOf("addEvidence") = {"check", "insert"}
      /\ StepsOf("review") = {"inputs", "admit", "insert"}
      /\ StepsOf("assess") = {"ready", "inputs", "rank", "admit", "insert"}
      /\ StepsOf("legacy") = {"rank", "admit", "insert"}
  BY DEF StepsOf
<1>3. /\ StepsOf("dossier") = {"ready", "find", "stage", "rank", "insert"}
      /\ StepsOf("archive") =
            {"ready", "stage", "link", "tidy", "admit", "insert", "confirm", "unlink"}
  BY DEF StepsOf
<1>4. /\ \A kind \in {"edit", "close", "updateEvidence", "archiveEvidence", "complete"} :
            "check" \in StepsOf(kind) /\ Ahead(kind, "check", "write")
      /\ "check" \in StepsOf("addEvidence") /\ Ahead("addEvidence", "check", "insert")
  BY <1>1, <1>2 DEF Ahead
<1>5. /\ "inputs" \in StepsOf("review")
      /\ Ahead("review", "inputs", "admit") /\ Ahead("review", "admit", "insert")
      /\ "ready" \in StepsOf("assess")
      /\ Ahead("assess", "ready", "inputs") /\ Ahead("assess", "inputs", "rank")
      /\ "rank" \in StepsOf("legacy")
      /\ \A kind \in {"assess", "legacy"} :
            Ahead(kind, "rank", "admit") /\ Ahead(kind, "admit", "insert")
  BY <1>1, <1>2 DEF Ahead
<1>6. /\ "ready" \in StepsOf("dossier")
      /\ Ahead("dossier", "ready", "find") /\ Ahead("dossier", "find", "stage")
      /\ Ahead("dossier", "stage", "rank") /\ Ahead("dossier", "rank", "insert")
  BY <1>1, <1>3 DEF Ahead
<1>7. /\ "ready" \in StepsOf("archive")
      /\ Ahead("archive", "ready", "stage") /\ Ahead("archive", "stage", "link")
      /\ Ahead("archive", "link", "tidy") /\ Ahead("archive", "tidy", "admit")
      /\ Ahead("archive", "admit", "insert")
      /\ Ahead("archive", "admit", "unlink") /\ Ahead("archive", "insert", "confirm")
      /\ Ahead("archive", "insert", "unlink") /\ Ahead("archive", "confirm", "unlink")
  BY <1>1, <1>3 DEF Ahead
<1> QED
  BY <1>4, <1>5, <1>6, <1>7

\* A request is answered as what it is.
LEMMA RepliesAnswer ==
    ASSUME TypeOK, NEW s \in Slots, NEW res \in {"ok", "refused", "error"}, Reply(s, res)
    PROVE  AnswerTo(req[s], req'[s])
<1>1. req'[s] = Answered(req[s], res)
  BY BecomeMoves DEF Reply
<1>2. /\ Answered(req[s], res).pc = "done" /\ Answered(req[s], res).res = res
      /\ Answered(req[s], res).kind = req[s].kind /\ Answered(req[s], res).opp = req[s].opp
      /\ Answered(req[s], res).item = req[s].item
      /\ Answered(req[s], res).expect = req[s].expect
  BY DEF Answered, Idle
<1> QED
  BY <1>1, <1>2 DEF AnswerTo

\* The request goes on as what the client sent.
Moves(s, pc) == \E job : Become(s, job) /\ job.pc = pc /\ Sent(job) = Sent(req[s])

LEMMA FieldsOfRequests ==
    ASSUME NEW j \in Request
    PROVE  {"kind", "pc", "opp", "item", "target", "expect", "mode"} \subseteq DOMAIN j
  BY DEF Request

LEMMA PcMoves ==
    ASSUME TypeOK, NEW s \in Slots, NEW pc,
           Become(s, [req[s] EXCEPT !.pc = pc])
    PROVE  Moves(s, pc)
<1> DEFINE j == req[s]
           job == [j EXCEPT !.pc = pc]
<1>1. Become(s, job)
  OBVIOUS
<1>2. j \in Request
  BY DEF TypeOK
<1> HIDE DEF j
<1>3. job.pc = pc /\ Sent(job) = Sent(j)
  BY <1>2, FieldsOfRequests DEF Sent
<1> HIDE DEF job
<1> QED
  BY <1>1, <1>3 DEF Moves, j

LEMMA IdMoves ==
    ASSUME TypeOK, NEW s \in Slots, NEW pc, NEW n,
           Become(s, [req[s] EXCEPT !.pc = pc, !.id = n])
    PROVE  Moves(s, pc)
<1> DEFINE j == req[s]
           job == [j EXCEPT !.pc = pc, !.id = n]
<1>1. Become(s, job)
  OBVIOUS
<1>2. j \in Request
  BY DEF TypeOK
<1> HIDE DEF j
<1>3. job.pc = pc /\ Sent(job) = Sent(j)
  BY <1>2, FieldsOfRequests DEF Sent
<1> HIDE DEF job
<1> QED
  BY <1>1, <1>3 DEF Moves, j

LEMMA SupMoves ==
    ASSUME TypeOK, NEW s \in Slots, NEW pc, NEW n,
           Become(s, [req[s] EXCEPT !.pc = pc, !.sup = n])
    PROVE  Moves(s, pc)
<1> DEFINE j == req[s]
           job == [j EXCEPT !.pc = pc, !.sup = n]
<1>1. Become(s, job)
  OBVIOUS
<1>2. j \in Request
  BY DEF TypeOK
<1> HIDE DEF j
<1>3. job.pc = pc /\ Sent(job) = Sent(j)
  BY <1>2, FieldsOfRequests DEF Sent
<1> HIDE DEF job
<1> QED
  BY <1>1, <1>3 DEF Moves, j

LEMMA ProvMoves ==
    ASSUME TypeOK, NEW s \in Slots, NEW pc, NEW p,
           Become(s, [req[s] EXCEPT !.pc = pc, !.prov = p])
    PROVE  Moves(s, pc)
<1> DEFINE j == req[s]
           job == [j EXCEPT !.pc = pc, !.prov = p]
<1>1. Become(s, job)
  OBVIOUS
<1>2. j \in Request
  BY DEF TypeOK
<1> HIDE DEF j
<1>3. job.pc = pc /\ Sent(job) = Sent(j)
  BY <1>2, FieldsOfRequests DEF Sent
<1> HIDE DEF job
<1> QED
  BY <1>1, <1>3 DEF Moves, j

LEMMA IdProvMoves ==
    ASSUME TypeOK, NEW s \in Slots, NEW pc, NEW n, NEW p,
           Become(s, [req[s] EXCEPT !.pc = pc, !.id = n, !.prov = p])
    PROVE  Moves(s, pc)
<1> DEFINE j == req[s]
           job == [j EXCEPT !.pc = pc, !.id = n, !.prov = p]
<1>1. Become(s, job)
  OBVIOUS
<1>2. j \in Request
  BY DEF TypeOK
<1> HIDE DEF j
<1>3. job.pc = pc /\ Sent(job) = Sent(j)
  BY <1>2, FieldsOfRequests DEF Sent
<1> HIDE DEF job
<1> QED
  BY <1>1, <1>3 DEF Moves, j

\* Going on is going forward.
LEMMA GoesOn ==
    ASSUME TypeOK, NEW s \in Slots, NEW pc, Ahead(req[s].kind, req[s].pc, pc), Moves(s, pc)
    PROVE  Later(req[s], req'[s])
<1>1. PICK job : Become(s, job) /\ job.pc = pc /\ Sent(job) = Sent(req[s])
  BY DEF Moves
<1>2. req'[s] = job
  BY <1>1, BecomeMoves
<1> QED
  BY <1>1, <1>2 DEF Later

Forward(s) == Later(req[s], req'[s]) \/ AnswerTo(req[s], req'[s])

\* Every step of a handler.
LEMMA ProceedForward ==
    ASSUME TypeOK, NEW s \in Slots, Proceed(s)
    PROVE  Forward(s)
<1> DEFINE May(pc) == Ahead(req[s].kind, req[s].pc, pc)
<1>0. \A pc : Goto(s, pc) => Moves(s, pc)
  BY PcMoves DEF Goto
<1>1. \A res \in {"ok", "refused", "error"} : Reply(s, res) => Forward(s)
  BY RepliesAnswer DEF Forward
<1>2. \A pc : May(pc) /\ Moves(s, pc) => Forward(s)
  BY GoesOn DEF Forward
<1>3. CASE EditCheck(s) \/ CloseCheck(s) \/ UpdateEvidenceCheck(s)
           \/ ArchiveEvidenceCheck(s) \/ CompleteCheck(s)
  <2>1. /\ Reply(s, "ok") \/ Reply(s, "refused") \/ Moves(s, "write")
        /\ req[s].kind \in {"edit", "close", "updateEvidence", "archiveEvidence", "complete"}
        /\ req[s].pc = "check"
    BY <1>3, <1>0 DEF EditCheck, CloseCheck, UpdateEvidenceCheck, ArchiveEvidenceCheck,
                CompleteCheck, At
  <2>2. May("write")
    BY <2>1, HandlersInOrder
  <2> QED
    BY <1>1, <1>2, <2>1, <2>2
<1>4. CASE EditWrite(s) \/ CloseWrite(s) \/ UpdateEvidenceWrite(s)
           \/ ArchiveEvidenceWrite(s) \/ CompleteWrite(s)
  BY <1>1, <1>4
     DEF EditWrite, CloseWrite, UpdateEvidenceWrite, ArchiveEvidenceWrite, CompleteWrite
<1>5. CASE AddEvidenceCheck(s)
  <2>1. /\ Reply(s, "refused") \/ Moves(s, "insert")
        /\ req[s].kind = "addEvidence" /\ req[s].pc = "check"
    BY <1>5, <1>0 DEF AddEvidenceCheck, At
  <2>2. May("insert")
    BY <2>1, HandlersInOrder
  <2> QED
    BY <1>1, <1>2, <2>1, <2>2
<1>6. CASE AddEvidenceInsert(s) \/ ReviewInsert(s) \/ AssessInsert(s) \/ DossierInsert(s)
  BY <1>1, <1>6 DEF AddEvidenceInsert, ReviewInsert, AssessInsert, DossierInsert
<1>7. CASE ReviewInputs(s)
  <2>1. /\ Reply(s, "refused") \/ Moves(s, "admit")
        /\ req[s].kind = "review" /\ req[s].pc = "inputs"
    BY <1>7, ProvMoves DEF ReviewInputs, At
  <2>2. May("admit")
    BY <2>1, HandlersInOrder
  <2> QED
    BY <1>1, <1>2, <2>1, <2>2
<1>8. CASE ReviewAdmit(s) \/ AssessAdmit(s)
  <2>1. /\ Reply(s, "refused") \/ Moves(s, "insert")
        /\ req[s].kind \in {"review", "assess", "legacy"} /\ req[s].pc = "admit"
    BY <1>8, IdMoves DEF ReviewAdmit, AssessAdmit, At
  <2>2. May("insert")
    BY <2>1, HandlersInOrder
  <2> QED
    BY <1>1, <1>2, <2>1, <2>2
<1>9. CASE AssessReady(s)
  <2>1. /\ Reply(s, "refused") \/ Moves(s, "inputs")
        /\ req[s].kind = "assess" /\ req[s].pc = "ready"
    BY <1>9, ProvMoves DEF AssessReady, At
  <2>2. May("inputs")
    BY <2>1, HandlersInOrder
  <2> QED
    BY <1>1, <1>2, <2>1, <2>2
<1>10. CASE AssessInputs(s)
  <2>1. /\ Reply(s, "refused") \/ Moves(s, "rank")
        /\ req[s].kind = "assess" /\ req[s].pc = "inputs"
    BY <1>10, ProvMoves DEF AssessInputs, At
  <2>2. May("rank")
    BY <2>1, HandlersInOrder
  <2> QED
    BY <1>1, <1>2, <2>1, <2>2
<1>11. CASE AssessRank(s) \/ LegacyRank(s)
  <2>1. /\ Reply(s, "refused") \/ Moves(s, "admit")
        /\ req[s].kind \in {"assess", "legacy"} /\ req[s].pc = "rank"
    BY <1>11, SupMoves DEF AssessRank, LegacyRank, At
  <2>2. May("admit")
    BY <2>1, HandlersInOrder
  <2> QED
    BY <1>1, <1>2, <2>1, <2>2
<1>12. CASE DossierReady(s)
  <2>1. /\ Reply(s, "refused") \/ Moves(s, "find")
        /\ req[s].kind = "dossier" /\ req[s].pc = "ready"
    BY <1>12, ProvMoves DEF DossierReady, At
  <2>2. May("find")
    BY <2>1, HandlersInOrder
  <2> QED
    BY <1>1, <1>2, <2>1, <2>2
<1>13. CASE DossierFind(s) \/ DossierStage(s)
  <2>1. /\ req[s].kind = "dossier"
        /\ \/ req[s].pc = "find" /\ (Reply(s, "ok") \/ Moves(s, "stage"))
           \/ req[s].pc = "stage" /\ Moves(s, "rank")
    BY <1>13, <1>0, IdMoves DEF DossierFind, DossierStage, At
  <2>2. req[s].pc = "find" => May("stage")
    BY <2>1, HandlersInOrder
  <2>3. req[s].pc = "stage" => May("rank")
    BY <2>1, HandlersInOrder
  <2> QED
    BY <1>1, <1>2, <2>1, <2>2, <2>3
<1>14. CASE DossierRank(s)
  <2>1. /\ Reply(s, "refused") \/ Moves(s, "insert")
        /\ req[s].kind = "dossier" /\ req[s].pc = "rank"
    BY <1>14, SupMoves DEF DossierRank, At
  <2>2. May("insert")
    BY <2>1, HandlersInOrder
  <2> QED
    BY <1>1, <1>2, <2>1, <2>2
<1>15. CASE ArchiveReady(s)
  <2>1. /\ Reply(s, "refused") \/ Moves(s, "stage")
        /\ req[s].kind = "archive" /\ req[s].pc = "ready"
    BY <1>15, ProvMoves DEF ArchiveReady, At
  <2>2. May("stage")
    BY <2>1, HandlersInOrder
  <2> QED
    BY <1>1, <1>2, <2>1, <2>2
<1>16. CASE ArchiveStage(s)
  <2>1. /\ Moves(s, "link")
        /\ req[s].kind = "archive" /\ req[s].pc = "stage"
    BY <1>16, IdProvMoves DEF ArchiveStage, At
  <2>2. May("link")
    BY <2>1, HandlersInOrder
  <2> QED
    BY <1>1, <1>2, <2>1, <2>2
<1>17. CASE ArchiveLink(s)
  <2>1. /\ Reply(s, "refused") \/ Reply(s, "error") \/ Moves(s, "tidy")
        /\ req[s].kind = "archive" /\ req[s].pc = "link"
    BY <1>17, <1>0 DEF ArchiveLink, At
  <2>2. May("tidy")
    BY <2>1, HandlersInOrder
  <2> QED
    BY <1>1, <1>2, <2>1, <2>2
<1>18. CASE ArchiveAdmit(s)
  <2>1. /\ Moves(s, "unlink") \/ Moves(s, "insert")
        /\ req[s].kind = "archive" /\ req[s].pc = "admit"
    BY <1>18, <1>0 DEF ArchiveAdmit, At
  <2>2. May("insert") /\ May("unlink")
    BY <2>1, HandlersInOrder
  <2> QED
    BY <1>2, <2>1, <2>2
<1>19. CASE ArchiveInsert(s)
  <2>1. /\ Moves(s, "unlink") \/ Moves(s, "confirm")
        /\ req[s].kind = "archive" /\ req[s].pc = "insert"
    BY <1>19, <1>0 DEF ArchiveInsert, At
  <2>2. May("confirm") /\ May("unlink")
    BY <2>1, HandlersInOrder
  <2> QED
    BY <1>2, <2>1, <2>2
<1>20. CASE ArchiveConfirm(s)
  <2>1. /\ Reply(s, "ok") \/ Moves(s, "unlink")
        /\ req[s].kind = "archive" /\ req[s].pc = "confirm"
    BY <1>20, <1>0 DEF ArchiveConfirm, At
  <2>2. May("unlink")
    BY <2>1, HandlersInOrder
  <2> QED
    BY <1>1, <1>2, <2>1, <2>2
<1>21. CASE ArchiveUnlink(s)
  BY <1>1, <1>21 DEF ArchiveUnlink
<1>22. CASE ArchiveTidy(s)
  <2>1. /\ Reply(s, "error") \/ Moves(s, "admit")
        /\ req[s].kind = "archive" /\ req[s].pc = "tidy"
    BY <1>22, <1>0 DEF ArchiveTidy, At
  <2>2. May("admit")
    BY <2>1, HandlersInOrder
  <2> QED
    BY <1>1, <1>2, <2>1, <2>2
<1> QED
  BY <1>3, <1>4, <1>5, <1>6, <1>7, <1>8, <1>9, <1>10, <1>11, <1>12, <1>13, <1>14, <1>15,
     <1>16, <1>17, <1>18, <1>19, <1>20, <1>21, <1>22 DEF Proceed

\* A request starts with the first step of its handler.
LEMMA ArriveStarts ==
    ASSUME TypeOK, NEW s \in Slots, Arrive(s)
    PROVE  req'[s].pc \in StepsOf(req'[s].kind)
<1> DEFINE Begins(pc, kind) == req'[s].kind = kind /\ req'[s].pc = pc
<1>1. ASSUME NEW kind, NEW pc, NEW o, NEW m, NEW n, NEW e, NEW mode,
             \/ Submit(s, Job(kind, pc, o))
             \/ Submit(s, [Job(kind, pc, o) EXCEPT !.expect = m])
             \/ Submit(s, [Job(kind, pc, o) EXCEPT !.target = n])
             \/ Submit(s, [Job(kind, pc, o) EXCEPT !.mode = mode])
             \/ Submit(s, [Job(kind, pc, o) EXCEPT !.mode = mode, !.target = n])
             \/ Submit(s, [Job(kind, pc, o) EXCEPT !.target = n, !.expect = m])
             \/ Submit(s, [Job(kind, pc, o) EXCEPT !.item = e])
             \/ Submit(s, [Job(kind, pc, o) EXCEPT !.item = e, !.expect = m])
      PROVE  Begins(pc, kind)
  <2> DEFINE job == Job(kind, pc, o)
             Same(j) == j.pc = pc /\ j.kind = kind
  <2>1. Same(job) /\ {"pc", "kind"} \subseteq DOMAIN job
    BY DEF Job, Idle
  <2> HIDE DEF job
  <2>2. Same([job EXCEPT !.expect = m]) /\ Same([job EXCEPT !.target = n])
    BY <2>1
  <2>3. Same([job EXCEPT !.mode = mode]) /\ Same([job EXCEPT !.mode = mode, !.target = n])
    BY <2>1
  <2>4. Same([job EXCEPT !.target = n, !.expect = m]) /\ Same([job EXCEPT !.item = e])
    BY <2>1
  <2>5. Same([job EXCEPT !.item = e, !.expect = m])
    BY <2>1
  <2> HIDE DEF Same
  <2>6. \E j : Submit(s, j) /\ Same(j)
    BY <1>1, <2>1, <2>2, <2>3, <2>4, <2>5 DEF job
  <2>7. PICK j : Submit(s, j) /\ Same(j)
    BY <2>6
  <2>8. req'[s] = j
    BY <2>7, BecomeMoves DEF Submit
  <2> QED
    BY <2>7, <2>8 DEF Same
<1> HIDE DEF Begins
<1>2. ASSUME SubmitEdit(s) PROVE Begins("check", "edit")
  BY <1>1, <1>2 DEF SubmitEdit
<1>3. ASSUME SubmitClose(s) PROVE Begins("check", "close")
  BY <1>1, <1>3 DEF SubmitClose
<1>4. ASSUME SubmitAddEvidence(s) PROVE Begins("check", "addEvidence")
  BY <1>1, <1>4 DEF SubmitAddEvidence
<1>5. ASSUME SubmitEvidenceChange(s)
      PROVE  Begins("check", "updateEvidence") \/ Begins("check", "archiveEvidence")
  BY <1>1, <1>5 DEF SubmitEvidenceChange
<1>6. ASSUME SubmitReview(s) PROVE Begins("inputs", "review")
  BY <1>1, <1>6 DEF SubmitReview
<1>7. ASSUME SubmitComplete(s) PROVE Begins("check", "complete")
  BY <1>1, <1>7 DEF SubmitComplete
<1>8. ASSUME SubmitAssess(s) PROVE Begins("ready", "assess")
  BY <1>1, <1>8 DEF SubmitAssess
<1>9. ASSUME SubmitLegacy(s) PROVE Begins("rank", "legacy")
  BY <1>1, <1>9 DEF SubmitLegacy
<1>10. ASSUME SubmitDossier(s) PROVE Begins("ready", "dossier")
  BY <1>1, <1>10 DEF SubmitDossier
<1>11. ASSUME SubmitArchive(s) PROVE Begins("ready", "archive")
  BY <1>1, <1>11 DEF SubmitArchive
<1>12. PICK pc, kind : Begins(pc, kind) /\ pc \in StepsOf(kind)
  BY <1>2, <1>3, <1>4, <1>5, <1>6, <1>7, <1>8, <1>9, <1>10, <1>11, HandlersInOrder
     DEF Arrive
<1> QED
  BY <1>12 DEF Begins

LEMMA NextForward ==
    ASSUME TypeOK, RequestsAreHandled, [Next]_vars
    PROVE  RequestsAreHandled' /\ RequestsGoForward
<1>1. "idle" \notin Steps /\ "done" \notin Steps /\ "lost" \notin Steps
  BY DEF Steps
<1>2. ASSUME NEW s \in Slots, Proceed(s)
      PROVE  Forward(s) /\ req[s].pc \in Steps
  BY <1>2, ProceedForward, ProceedMoves
<1>3. ASSUME NEW s \in Slots, Arrive(s)
      PROVE  req[s].pc = "idle" /\ req'[s].pc \in StepsOf(req'[s].kind)
  BY <1>3, ArriveMoves, ArriveStarts
<1>4. \A s \in Slots :
        \/ req'[s] = req[s]
        \/ req'[s].pc = "lost" /\ req[s].pc \in Steps
        \/ req[s].pc = "idle" /\ req'[s].pc \in StepsOf(req'[s].kind)
        \/ Forward(s) /\ req[s].pc \in Steps
  BY <1>2, <1>3, NextMoves
<1>5. ASSUME NEW s \in Slots, req'[s].pc \in Steps
      PROVE  req'[s].pc \in StepsOf(req'[s].kind)
  <2>1. Later(req[s], req'[s]) => req'[s].pc \in StepsOf(req'[s].kind)
    BY DEF Later, Ahead, Sent
  <2>2. AnswerTo(req[s], req'[s]) => req'[s].pc = "done"
    BY DEF AnswerTo
  <2> QED
    BY <1>1, <1>4, <1>5, <2>1, <2>2 DEF RequestsAreHandled, Forward
<1>6. RequestsGoForward
  BY <1>1, <1>4 DEF RequestsGoForward, Forward
<1> QED
  BY <1>5, <1>6 DEF RequestsAreHandled

\* Whatever the other requests do, and wherever the process dies, a request
\* that was admitted goes through the steps of its handler in their order,
\* asking for what its client asked, and is answered once or lost: a handler
\* has no loop and retries nothing (app.py do_POST, repository.py).
THEOREM RequestsProceed == Spec => []RequestsAreHandled /\ [][RequestsGoForward]_vars
<1> DEFINE Inv == Consistent /\ RequestsAreHandled
<1>1. Init => Inv
  <2>1. Init => RequestsAreHandled
    BY DEF Init, Idle, Steps, RequestsAreHandled
  <2> QED
    BY <2>1, InitConsistent
<1>2. Inv /\ [Next]_vars => Inv' /\ RequestsGoForward
  BY NextConsistent, NextForward DEF Consistent
<1>3. Inv => RequestsAreHandled
  OBVIOUS
<1> HIDE DEF Inv
<1> QED
  BY <1>1, <1>2, <1>3, PTL DEF Spec

-----------------------------------------------------------------------------
(* Reviews do not fork, as long as none is completed by hand.              *)

\* A review request about to insert the successor of a review still finds it
\* unsuperseded, or its own identifier is taken meanwhile.
AdmittedReviews ==
    \A s \in Slots :
        At(s, "review", "insert") =>
            /\ req[s].id \in 1..NextId(reviews)
            /\ req[s].id = NextId(reviews) /\ req[s].target # 0 =>
                  reviews[req[s].target].status # "Superseded"

StaysSuperseded ==
    \A r \in DOMAIN reviews :
        HasSuccessor(reviews, r) => reviews[r].status = "Superseded"

\* The inductive invariant behind NoForkedReviews.
Unforked == NoForkedReviews /\ StaysSuperseded /\ AdmittedReviews

LEMMA InitUnforked ==
    ASSUME Init
    PROVE  Unforked
<1>1. \A r \in DOMAIN reviews : reviews[r].sup = 0 /\ r \in 1..Len(Seed)
  BY DEF Init, StoreInit
<1>2. Len(Seed) \in Nat
  BY StoreAssumption, LenProperties
<1>3. \A r \in DOMAIN reviews : ~HasSuccessor(reviews, r)
  BY <1>1, <1>2 DEF HasSuccessor
<1>4. \A s \in Slots : req[s].pc # "insert"
  BY DEF Init, Idle
<1> QED
  BY <1>1, <1>3, <1>4
     DEF Unforked, NoForkedReviews, StaysSuperseded, AdmittedReviews, At

\* Inserting the first successor of an unsuperseded review.
LEMMA SuccessorInserted ==
    ASSUME Consistent, NoForkedReviews, StaysSuperseded,
           NEW row \in ReviewRow, NEW id, InsertReview(row, id),
           row.sup # 0 => row.sup \in DOMAIN reviews /\ reviews[row.sup].status # "Superseded"
    PROVE  NoForkedReviews' /\ StaysSuperseded' /\ Len(reviews') = Len(reviews) + 1
<1> DEFINE n == Len(reviews)
           older == ClosedBy(row)
<1>1. reviews \in Seq(ReviewRow)
  BY DEF Consistent, TypeOK, StoreTypeOK
<1>2. /\ older \in Seq(ReviewRow) /\ Len(older) = n /\ n \in Nat
      /\ DOMAIN older = 1..n /\ DOMAIN reviews = 1..n
  <2>1. n \in Nat /\ DOMAIN reviews = 1..n
    BY <1>1, LenProperties
  <2>2. older \in Seq(ReviewRow) /\ Len(older) = n
    BY <1>1, ClosedByKeepsRows
  <2> HIDE DEF older
  <2>3. DOMAIN older = 1..Len(older)
    BY <2>2, LenProperties
  <2> QED
    BY <2>1, <2>2, <2>3
<1>3. ASSUME NEW r \in DOMAIN reviews
      PROVE  /\ older[r].sup = reviews[r].sup
             /\ reviews[r].status = "Superseded" \/ r = row.sup
                   => older[r].status = "Superseded"
             /\ reviews[r].sup \in 0..n
  <2>0. reviews[r] \in ReviewRow
    BY <1>1
  <2>1. reviews[r] \in ReviewRow /\ reviews[r].sup \in Nat
    BY <2>0 DEF ReviewRow
  <2>2. reviews[r].sup = 0 \/ reviews[r].sup \in DOMAIN reviews
    BY DEF Consistent, ReferentialIntegrity, ReviewRefs, Superseded, OneOf, OfOpp
  <2>3. reviews[r].sup \in 0..n
    BY <1>2, <2>1, <2>2
  <2>4. CASE r = row.sup
    <3>1. older[r] = [reviews[r] EXCEPT !.status = "Superseded", !.rev = @ + 1]
      BY <2>4 DEF ClosedBy
    <3> HIDE DEF older
    <3> QED
      BY <2>1, <2>3, <3>1 DEF ReviewRow
  <2>5. CASE r # row.sup
    BY <2>3, <2>5 DEF ClosedBy
  <2> QED
    BY <2>4, <2>5
<1>4. reviews' = Append(older, row)
  BY DEF InsertReview
<1> HIDE DEF older
<1>5. /\ DOMAIN reviews' = 1..(n + 1) /\ Len(reviews') = n + 1
      /\ \A r \in 1..n : reviews'[r] = older[r]
      /\ reviews'[n + 1] = row
  BY <1>2, <1>4, AppendRow
<1> HIDE DEF n
<1>6. \A r \in 1..n : reviews'[r].sup = reviews[r].sup
  BY <1>2, <1>3, <1>5
<1>7. row.sup # 0 => ~HasSuccessor(reviews, row.sup)
  BY DEF StaysSuperseded
<1>8. \A r \in 1..(n + 1) : r = n + 1 \/ r \in 1..n
  BY <1>2
<1>9. NoForkedReviews'
  <2> SUFFICES ASSUME NEW i \in 1..(n + 1), NEW j \in 1..(n + 1),
                      reviews'[i].sup = reviews'[j].sup, reviews'[i].sup # 0
               PROVE  i = j
    BY <1>5 DEF NoForkedReviews
  <2>1. CASE i \in 1..n /\ j \in 1..n
    BY <1>2, <1>6, <2>1 DEF NoForkedReviews
  <2>2. CASE i = n + 1 /\ j \in 1..n
    BY <1>2, <1>5, <1>6, <1>7, <2>2 DEF HasSuccessor
  <2>3. CASE j = n + 1 /\ i \in 1..n
    BY <1>2, <1>5, <1>6, <1>7, <2>3 DEF HasSuccessor
  <2> QED
    BY <1>8, <2>1, <2>2, <2>3
<1>10. StaysSuperseded'
  <2> SUFFICES ASSUME NEW r \in 1..(n + 1), NEW j \in 1..(n + 1), reviews'[j].sup = r
               PROVE  reviews'[r].status = "Superseded"
    BY <1>5 DEF StaysSuperseded, HasSuccessor
  <2>1. CASE j \in 1..n
    <3>1. r \in 1..n /\ HasSuccessor(reviews, r)
      BY <1>2, <1>3, <1>6, <2>1 DEF HasSuccessor
    <3> QED
      BY <1>2, <1>3, <1>5, <3>1 DEF StaysSuperseded
  <2>2. CASE j = n + 1
    <3>1. r = row.sup /\ r \in 1..n
      BY <1>2, <1>5, <2>2
    <3> QED
      BY <1>2, <1>3, <1>5, <3>1
  <2> QED
    BY <1>8, <2>1, <2>2
<1> QED
  BY <1>5, <1>9, <1>10 DEF n

\* How a request comes to insert a review.
LEMMA ReviewMoves ==
    ASSUME Consistent, NEW s \in Slots, Proceed(s), At(s, "review", "insert")'
    PROVE  /\ ReviewAdmit(s)
           /\ req'[s].id = NextId(reviews) /\ req'[s].target = req[s].target
           /\ req[s].target # 0 => reviews[req[s].target].status # "Superseded"
<1>1. req[s].kind = "review" /\ req[s] \in Request
  BY ProceedMoves DEF At, Consistent, TypeOK
<1>2. ReviewInputs(s) \/ ReviewAdmit(s) \/ ReviewInsert(s)
  BY <1>1
     DEF Proceed, At, EditCheck, EditWrite, CloseCheck, CloseWrite, AddEvidenceCheck,
         AddEvidenceInsert, UpdateEvidenceCheck, UpdateEvidenceWrite,
         ArchiveEvidenceCheck, ArchiveEvidenceWrite, CompleteCheck, CompleteWrite,
         AssessReady, AssessInputs, AssessRank, LegacyRank, AssessAdmit, AssessInsert,
         DossierReady, DossierFind, DossierStage, DossierRank, DossierInsert,
         ArchiveReady, ArchiveStage, ArchiveLink, ArchiveTidy, ArchiveAdmit,
         ArchiveInsert, ArchiveConfirm, ArchiveUnlink
<1>3. \A res : ~Reply(s, res)
  <2>1. \A res : Answered(req[s], res).pc = "done"
    BY DEF Answered, Idle
  <2> QED
    BY <2>1, BecomeMoves DEF Reply, At, Consistent
<1>4. ~ReviewInputs(s)
  <2> SUFFICES ASSUME ReviewInputs(s)
               PROVE  FALSE
    OBVIOUS
  <2> DEFINE job == [req[s] EXCEPT !.pc = "admit", !.prov = Reread(@, req[s].opp)]
  <2>1. job.pc = "admit"
    BY <1>1 DEF Request
  <2>2. Become(s, job)
    BY <1>3 DEF ReviewInputs
  <2> HIDE DEF job
  <2> QED
    BY <2>1, <2>2, BecomeMoves DEF At, Consistent
<1>5. ~ReviewInsert(s)
  BY <1>3 DEF ReviewInsert
<1>6. ReviewAdmit(s)
  BY <1>2, <1>4, <1>5
<1> DEFINE job == [req[s] EXCEPT !.pc = "insert", !.id = NextId(reviews)]
<1>7. /\ Become(s, job)
      /\ req[s].target # 0 => reviews[req[s].target].status # "Superseded"
  BY <1>3, <1>6 DEF ReviewAdmit
<1>8. job.id = NextId(reviews) /\ job.target = req[s].target
  BY <1>1 DEF Request
<1> HIDE DEF job
<1> QED
  BY <1>6, <1>7, <1>8, BecomeMoves DEF Consistent

LEMMA AdmittedKept ==
    ASSUME Consistent, Unforked, [Next]_vars,
           \/ reviews' = reviews
           \/ /\ Len(reviews') = Len(reviews) + 1
              /\ \E s \in Slots : ReviewInsert(s)
    PROVE  AdmittedReviews'
<1> SUFFICES ASSUME NEW s \in Slots, At(s, "review", "insert")'
             PROVE  /\ req'[s].id \in 1..NextId(reviews')
                    /\ req'[s].id = NextId(reviews') /\ req'[s].target # 0 =>
                          reviews'[req'[s].target].status # "Superseded"
  BY DEF AdmittedReviews, At
<1>0. reviews \in Seq(ReviewRow) /\ Len(reviews) \in Nat /\ TypeOK
  BY LenProperties DEF Consistent, TypeOK, StoreTypeOK
<1>1. CASE req'[s] = req[s]
  <2>1. /\ req[s].id \in 1..NextId(reviews)
        /\ req[s].id = NextId(reviews) /\ req[s].target # 0 =>
              reviews[req[s].target].status # "Superseded"
    BY <1>1 DEF Unforked, AdmittedReviews, At
  <2> QED
    BY <1>0, <1>1, <2>1 DEF NextId
<1>2. CASE Arrive(s)
  BY <1>0, <1>2, ArriveMoves DEF At, FirstSteps
<1>3. CASE Proceed(s)
  <2>1. /\ ReviewAdmit(s)
        /\ req'[s].id = NextId(reviews) /\ req'[s].target = req[s].target
        /\ req[s].target # 0 => reviews[req[s].target].status # "Superseded"
    BY <1>3, ReviewMoves
  <2>2. reviews' = reviews
    BY <2>1 DEF ReviewAdmit, ReadOnly, store
  <2> QED
    BY <1>0, <2>1, <2>2 DEF NextId
<1> QED
  BY <1>0, <1>1, <1>2, <1>3, NextMoves DEF At

LEMMA NextUnforked ==
    ASSUME "complete" \notin Kinds, Consistent, Unforked, [Next]_vars
    PROVE  Unforked'
<1>1. CASE UNCHANGED reviews
  <2>1. NoForkedReviews' /\ StaysSuperseded'
    BY <1>1 DEF Unforked, NoForkedReviews, StaysSuperseded, HasSuccessor
  <2> QED
    BY <1>1, <2>1, AdmittedKept DEF Unforked
<1>2. ASSUME NEW s \in Slots, ReviewInsert(s), InsertReview(NewReview(s), req[s].id)
      PROVE  Unforked'
  <2> DEFINE row == NewReview(s)
  <2>1. /\ req[s].id \in 1..NextId(reviews) /\ req[s].id \notin DOMAIN reviews
        /\ At(s, "review", "insert")
    BY <1>2 DEF ReviewInsert, Unforked, AdmittedReviews, InsertReview, IdFree
  <2>2. DOMAIN reviews = 1..Len(reviews) /\ Len(reviews) \in Nat
    BY LenProperties DEF Consistent, TypeOK, StoreTypeOK
  <2>3. req[s].id = NextId(reviews)
    BY <2>1, <2>2 DEF NextId
  <2>4. row \in ReviewRow /\ row.sup = req[s].target
    BY <2>1, NewRows DEF NewReview
  <2>5. row.sup # 0 => reviews[row.sup].status # "Superseded"
    BY <2>1, <2>3, <2>4 DEF Unforked, AdmittedReviews
  <2>6. row.sup # 0 => row.sup \in DOMAIN reviews
    BY <2>1, <2>4, Words DEF Consistent, RequestRefs, JobRefs, At, OneOf, OfOpp
  <2>7. InsertReview(row, req[s].id)
    BY <1>2
  <2> HIDE DEF row
  <2>8. NoForkedReviews' /\ StaysSuperseded' /\ Len(reviews') = Len(reviews) + 1
    BY <2>4, <2>5, <2>6, <2>7, SuccessorInserted DEF Unforked
  <2> QED
    BY <1>2, <2>8, AdmittedKept DEF Unforked
<1>3. ASSUME NEW s \in Slots
      PROVE  ~CompleteWrite(s)
  BY Words DEF CompleteWrite, At, Consistent, RequestRefs, JobRefs
<1>4. ASSUME NEW s \in Slots, LedgerWrite(s)
      PROVE  \/ UNCHANGED reviews
             \/ ReviewInsert(s) /\ InsertReview(NewReview(s), req[s].id)
  BY <1>3, <1>4 DEF LedgerWrite, InsertAssessment, InsertDossier, InsertArchive
<1> QED
  BY <1>1, <1>2, <1>4, NextWrites DEF TablesKept

\* Reviews form chains: while no review is completed by hand, two requests
\* never both supersede the same review.  The status of the prior review is
\* checked outside the transaction that closes it, but only after the
\* identifier was read: whoever loses the race for the prior review has lost
\* the race for its identifier.
THEOREM ReviewsDoNotFork ==
    ASSUME "complete" \notin Kinds
    PROVE  Spec => []NoForkedReviews
<1> DEFINE Inv == Consistent /\ Unforked
<1>1. Init => Inv
  BY InitConsistent, InitUnforked
<1>2. Inv /\ [Next]_vars => Inv'
  BY NextConsistent, NextUnforked
<1>3. Inv => NoForkedReviews
  BY DEF Unforked
<1> QED
  BY <1>1, <1>2, <1>3, PTL DEF Spec

-----------------------------------------------------------------------------
(* The archive packages: the files the archive requests install, race for  *)
(* and remove, and the rows that refer to them by number.                  *)

\* An archive request that installed its file and is not answered.
Installed(s) ==
    req[s].kind = "archive" /\ req[s].pc \in {"tidy", "admit", "insert", "confirm", "unlink"}

\* The request died, or failed to remove a file, and is not coming back.
Ended(s) == req[s].pc = "lost" \/ (req[s].pc = "done" /\ req[s].res = "error")

Mine(s) == [id |-> req[s].id, by |-> s]

\* A number names one package.
NamesUnique == \A p, q \in packages : p.id = q.id => p = q

\* A request that installed a package still has it.
InstalledKeeps == \A s \in Slots : Installed(s) => Mine(s) \in packages

\* A package belongs to a request at work on it, or that gave up, or to a row.
Accounted ==
    \A p \in packages :
        \/ Installed(p.by) /\ req[p.by].id = p.id
        \/ Ended(p.by)
        \/ p.id \in DOMAIN archives /\ archives[p.id].by = p.by

\* The author of a row is about to confirm it, or is finished.
AuthorsDone ==
    \A i \in DOMAIN archives :
        /\ archives[i].by \in Slots
        /\ \/ req[archives[i].by].pc \in {"done", "lost"}
           \/ At(archives[i].by, "archive", "confirm")

ConfirmedHasRow ==
    \A s \in Slots :
        At(s, "archive", "confirm") =>
            req[s].id \in DOMAIN archives /\ archives[req[s].id].by = s

\* The number a request read is a row's or the next one.
NumbersKnown ==
    \A s \in Slots :
        req[s].kind = "archive" /\ req[s].pc \in {"link", "tidy", "admit", "insert"} =>
            req[s].id \in 1..NextId(archives)

PackageInv ==
    /\ NamesUnique /\ InstalledKeeps /\ Accounted /\ RowHasItsOwnPackage
    /\ AuthorsDone /\ ConfirmedHasRow /\ NumbersKnown

LEMMA InitPackages ==
    ASSUME Init
    PROVE  PackageInv
<1>0. packages = {} /\ archives = <<>>
  BY DEF Init, StoreInit
<1>1. packages = {} /\ DOMAIN archives = {}
  BY <1>0
<1>2. \A s \in Slots : req[s].pc = "idle"
  BY DEF Init, Idle
<1> QED
  BY <1>1, <1>2
     DEF PackageInv, NamesUnique, InstalledKeeps, Accounted, RowHasItsOwnPackage,
         AuthorsDone, ConfirmedHasRow, NumbersKnown, Installed, At

-----------------------------------------------------------------------------
(* Steps of other requests.                                                *)

\* Only archive requests touch the packages and the archive rows.
LEMMA OthersLeavePackages ==
    ASSUME NEW s, Proceed(s), req[s].kind # "archive"
    PROVE  UNCHANGED <<archives, packages>>
<1>1. ReadOnly \/ UNCHANGED store => UNCHANGED <<archives, packages>>
  BY DEF ReadOnly, store
<1>2. CASE EditCheck(s) \/ EditWrite(s) \/ CloseCheck(s) \/ CloseWrite(s)
  BY <1>1, <1>2
     DEF EditCheck, EditWrite, CloseCheck, CloseWrite, UpdateOpportunity, ArchiveOpportunity
<1>3. CASE AddEvidenceCheck(s) \/ AddEvidenceInsert(s)
           \/ UpdateEvidenceCheck(s) \/ UpdateEvidenceWrite(s)
           \/ ArchiveEvidenceCheck(s) \/ ArchiveEvidenceWrite(s)
  BY <1>1, <1>3
     DEF AddEvidenceCheck, AddEvidenceInsert, UpdateEvidenceCheck, UpdateEvidenceWrite,
         ArchiveEvidenceCheck, ArchiveEvidenceWrite, InsertEvidence, UpdateEvidence,
         ArchiveEvidence
<1>4. CASE ReviewInputs(s) \/ ReviewAdmit(s) \/ ReviewInsert(s)
           \/ CompleteCheck(s) \/ CompleteWrite(s)
  BY <1>1, <1>4
     DEF ReviewInputs, ReviewAdmit, ReviewInsert, CompleteCheck, CompleteWrite,
         InsertReview, CompleteReview
<1>5. CASE AssessReady(s) \/ AssessInputs(s) \/ AssessRank(s) \/ LegacyRank(s)
           \/ AssessAdmit(s) \/ AssessInsert(s)
  BY <1>1, <1>5
     DEF AssessReady, AssessInputs, AssessRank, LegacyRank, AssessAdmit, AssessInsert,
         InsertAssessment
<1>6. CASE DossierReady(s) \/ DossierFind(s) \/ DossierStage(s) \/ DossierRank(s)
           \/ DossierInsert(s)
  BY <1>1, <1>6
     DEF DossierReady, DossierFind, DossierStage, DossierRank, DossierInsert, InsertDossier
<1> QED
  BY <1>2, <1>3, <1>4, <1>5, <1>6
     DEF Proceed, ArchiveReady, ArchiveStage, ArchiveLink, ArchiveTidy, ArchiveAdmit,
         ArchiveInsert, ArchiveConfirm, ArchiveUnlink, At

\* A request whose fate does not concern the packages: it stays as it is,
\* dies, or is no archive request that installed something.
Aside(s) ==
    \/ req'[s] = req[s]
    \/ req'[s].pc = "lost" /\ req[s].pc \in Steps
    \/ /\ req[s].pc \notin {"done", "lost"}
       /\ ~Installed(s) /\ ~Installed(s)'
       /\ ~(req'[s].kind = "archive" /\ req'[s].pc = "link")

LEMMA AsideKept ==
    ASSUME PackageInv, UNCHANGED <<archives, packages>>, \A s \in Slots : Aside(s),
           packages \subseteq Package
    PROVE  PackageInv'
<1>0. "lost" \notin Steps /\ "done" \notin Steps
  BY DEF Steps
<1>1. NamesUnique' /\ RowHasItsOwnPackage'
  BY DEF PackageInv, NamesUnique, RowHasItsOwnPackage
<1>2. \A s \in Slots : Installed(s)' => req'[s] = req[s]
  BY DEF Aside, Installed
<1>3. InstalledKeeps'
  BY <1>2 DEF PackageInv, InstalledKeeps, Installed, Mine
<1>4. Accounted'
  <2> SUFFICES ASSUME NEW p \in packages
               PROVE  \/ Installed(p.by)' /\ req'[p.by].id = p.id
                      \/ Ended(p.by)'
                      \/ p.id \in DOMAIN archives /\ archives[p.id].by = p.by
    BY DEF Accounted
  <2>1. p.by \in Slots /\ Aside(p.by)
    BY DEF Package
  <2> QED
    BY <1>0, <2>1 DEF PackageInv, Accounted, Aside, Installed, Ended
<1>5. AuthorsDone'
  <2> SUFFICES ASSUME NEW i \in DOMAIN archives
               PROVE  /\ archives[i].by \in Slots
                      /\ \/ req'[archives[i].by].pc \in {"done", "lost"}
                         \/ At(archives[i].by, "archive", "confirm")'
    BY DEF AuthorsDone, At
  <2>1. /\ archives[i].by \in Slots
        /\ \/ req[archives[i].by].pc \in {"done", "lost"}
           \/ At(archives[i].by, "archive", "confirm")
    BY DEF PackageInv, AuthorsDone
  <2> QED
    BY <1>0, <2>1 DEF Aside, Installed, At
<1>6. ConfirmedHasRow'
  BY <1>2 DEF PackageInv, ConfirmedHasRow, Installed, At
<1>7. NumbersKnown'
  <2> SUFFICES ASSUME NEW s \in Slots, req'[s].kind = "archive",
                      req'[s].pc \in {"link", "tidy", "admit", "insert"}
               PROVE  req'[s].id \in 1..NextId(archives)
    BY DEF NumbersKnown, NextId
  <2>1. req'[s] = req[s]
    BY <1>2 DEF Aside, Installed
  <2> QED
    BY <2>1 DEF PackageInv, NumbersKnown
<1> QED
  BY <1>1, <1>3, <1>4, <1>5, <1>6, <1>7 DEF PackageInv

-----------------------------------------------------------------------------
(* Steps of archive requests.                                              *)

\* The request goes from one step to another, under the same number.
Moved(s, from, to) ==
    /\ At(s, "archive", from)
    /\ req'[s].kind = "archive" /\ req'[s].pc = to /\ req'[s].id = req[s].id

Answers(s, from) == At(s, "archive", from) /\ req'[s].pc = "done"

Fails(s, from) == Answers(s, from) /\ req'[s].res = "error"

LEMMA ArchiveMoves ==
    ASSUME "confirm" \notin FaultPoints, TypeOK, NEW s \in Slots, Proceed(s),
           req[s].kind = "archive"
    PROVE  \/ /\ UNCHANGED store
              /\ \/ Answers(s, "ready") \/ Answers(s, "link") \/ Answers(s, "confirm")
                 \/ At(s, "archive", "ready") /\ req'[s].pc = "stage"
                 \/ /\ At(s, "archive", "stage") /\ req'[s].kind = "archive"
                    /\ req'[s].pc = "link" /\ req'[s].id = NextId(archives)
                 \/ Moved(s, "tidy", "admit") \/ Moved(s, "admit", "insert")
                 \/ Moved(s, "admit", "unlink") \/ Moved(s, "insert", "unlink")
                 \/ Fails(s, "tidy") \/ Fails(s, "unlink")
           \/ Moved(s, "link", "tidy") /\ LinkPackage(req[s].id, s)
           \/ Moved(s, "insert", "confirm") /\ InsertArchive(NewArchive(s), req[s].id)
           \/ Answers(s, "unlink") /\ UnlinkPackage(req[s].id)
<1>0. req[s] \in Request
  BY DEF TypeOK
<1>1. \A res : Reply(s, res) => req'[s].pc = "done" /\ req'[s].res = res
  <2>1. \A res : Answered(req[s], res).pc = "done" /\ Answered(req[s], res).res = res
    BY DEF Answered, Idle
  <2> QED
    BY <2>1, BecomeMoves DEF Reply
<1>2. \A pc : Goto(s, pc) => /\ req'[s].pc = pc /\ req'[s].id = req[s].id
                            /\ req'[s].kind = req[s].kind
  <2> SUFFICES ASSUME NEW pc, Goto(s, pc)
               PROVE  /\ req'[s].pc = pc /\ req'[s].id = req[s].id
                      /\ req'[s].kind = req[s].kind
    OBVIOUS
  <2> DEFINE job == [req[s] EXCEPT !.pc = pc]
  <2>1. job.pc = pc /\ job.id = req[s].id /\ job.kind = req[s].kind
    BY <1>0 DEF Request
  <2>2. Become(s, job)
    BY DEF Goto
  <2> HIDE DEF job
  <2> QED
    BY <2>1, <2>2, BecomeMoves
<1>3. ReadOnly => UNCHANGED store
  BY DEF ReadOnly
<1>4. CASE ArchiveReady(s)
  <2> DEFINE o == req[s].opp
             prov == Chain(o, Newest(CurrentReviews(o)), Newest(CurrentAssessments(o)),
                           Newest(CurrentDossiers(o)))
             job == [req[s] EXCEPT !.pc = "stage", !.prov = prov]
  <2>1. At(s, "archive", "ready") /\ ReadOnly /\ (Reply(s, "refused") \/ Become(s, job))
    BY <1>4 DEF ArchiveReady
  <2> HIDE DEF prov
  <2>2. job.pc = "stage"
    BY <1>0 DEF Request
  <2> HIDE DEF job
  <2> QED
    BY <1>1, <1>3, <2>1, <2>2, BecomeMoves DEF Answers
<1>5. CASE ArchiveStage(s)
  <2> DEFINE prov == ReviewUsed(req[s].prov, req[s].prov.review)
             id == NextId(archives)
             job == [req[s] EXCEPT !.pc = "link", !.id = id, !.prov = prov]
  <2>1. At(s, "archive", "stage") /\ ReadOnly /\ Become(s, job)
    BY <1>5 DEF ArchiveStage
  <2> HIDE DEF prov, id
  <2>2. job.pc = "link" /\ job.id = id /\ job.kind = req[s].kind
    BY <1>0 DEF Request
  <2> HIDE DEF job
  <2> QED
    BY <1>3, <2>1, <2>2, BecomeMoves DEF id
<1>6. CASE ArchiveLink(s)
  BY <1>1, <1>2, <1>6 DEF ArchiveLink, Answers, Moved, At
<1>7. CASE ArchiveAdmit(s)
  BY <1>1, <1>2, <1>3, <1>7 DEF ArchiveAdmit, Moved, At
<1>8. CASE ArchiveInsert(s)
  BY <1>2, <1>8 DEF ArchiveInsert, Moved, At
<1>9. CASE ArchiveConfirm(s)
  BY <1>1, <1>3, <1>9 DEF ArchiveConfirm, Answers, At
<1>10. CASE ArchiveUnlink(s)
  BY <1>1, <1>10 DEF ArchiveUnlink, Answers, Fails, At
<1>11. CASE ArchiveTidy(s)
  BY <1>1, <1>2, <1>3, <1>11 DEF ArchiveTidy, Answers, Fails, Moved, At
<1> QED
  BY <1>4, <1>5, <1>6, <1>7, <1>8, <1>9, <1>10, <1>11
     DEF Proceed, At, EditCheck, EditWrite, CloseCheck, CloseWrite, AddEvidenceCheck,
         AddEvidenceInsert, UpdateEvidenceCheck, UpdateEvidenceWrite,
         ArchiveEvidenceCheck, ArchiveEvidenceWrite, ReviewInputs, ReviewAdmit,
         ReviewInsert, CompleteCheck, CompleteWrite, AssessReady, AssessInputs,
         AssessRank, LegacyRank, AssessAdmit, AssessInsert, DossierReady, DossierFind,
         DossierStage, DossierRank, DossierInsert

\* The row an archive request inserts has the package it installed.
LEMMA RowInserted ==
    ASSUME Consistent, PackageInv, NEW s \in Slots, Moved(s, "insert", "confirm"),
           InsertArchive(NewArchive(s), req[s].id),
           \A t \in Slots \ {s} : req'[t] = req[t]
    PROVE  PackageInv'
<1> DEFINE n == Len(archives)
           row == NewArchive(s)
<1>1. /\ archives \in Seq(ArchiveRow) /\ row \in ArchiveRow
      /\ At(s, "archive", "insert") /\ packages \subseteq Package
  BY NewRows DEF Moved, Consistent, TypeOK, StoreTypeOK
<1>2. /\ n \in Nat /\ DOMAIN archives = 1..n
      /\ archives' = Append(archives, row) /\ row.by = s
      /\ packages' = packages /\ req[s].id \notin DOMAIN archives
  BY <1>1, LenProperties DEF InsertArchive, IdFree, NewArchive
<1> HIDE DEF row
<1>3. /\ DOMAIN archives' = 1..(n + 1) /\ Len(archives') = n + 1
      /\ \A i \in DOMAIN archives : archives'[i] = archives[i]
      /\ archives'[n + 1] = row
  BY <1>1, <1>2, AppendRow
<1>4. req[s].id = n + 1 /\ req'[s].id = n + 1
  BY <1>1, <1>2 DEF PackageInv, NumbersKnown, NextId, At, Moved
<1>5. Len(archives) = n
  OBVIOUS
<1> HIDE DEF n
<1>6. Mine(s) \in packages /\ Mine(s)' = Mine(s) /\ Mine(s) = [id |-> n + 1, by |-> s]
  BY <1>1, <1>4 DEF PackageInv, InstalledKeeps, Installed, At, Mine
<1>7. NamesUnique'
  BY <1>2 DEF PackageInv, NamesUnique
<1>8. InstalledKeeps'
  BY <1>2, <1>6 DEF PackageInv, InstalledKeeps, Installed, Mine
<1>9. Accounted'
  <2> SUFFICES ASSUME NEW p \in packages
               PROVE  \/ Installed(p.by)' /\ req'[p.by].id = p.id
                      \/ Ended(p.by)'
                      \/ p.id \in DOMAIN archives' /\ archives'[p.id].by = p.by
    BY <1>2 DEF Accounted
  <2>1. p.by \in Slots
    BY <1>1 DEF Package
  <2>2. \/ Installed(p.by) /\ req[p.by].id = p.id
        \/ Ended(p.by)
        \/ p.id \in DOMAIN archives /\ archives[p.id].by = p.by
    BY DEF PackageInv, Accounted
  <2>3. p.id \in DOMAIN archives => p.id \in DOMAIN archives' /\ archives'[p.id] = archives[p.id]
    BY <1>2, <1>3
  <2>4. CASE p.by = s
    BY <1>1, <1>2, <1>4, <2>2, <2>3, <2>4 DEF Installed, At, Moved, Ended
  <2>5. CASE p.by # s
    BY <2>1, <2>2, <2>3, <2>5 DEF Installed, Ended
  <2> QED
    BY <2>4, <2>5
<1>10. \A i \in DOMAIN archives' : i \in DOMAIN archives \/ i = n + 1
  BY <1>2, <1>3
<1>11. RowHasItsOwnPackage'
  BY <1>2, <1>3, <1>6, <1>10 DEF PackageInv, RowHasItsOwnPackage
<1>12. AuthorsDone'
  BY <1>1, <1>2, <1>3, <1>10 DEF PackageInv, AuthorsDone, At, Moved
<1>13. ConfirmedHasRow'
  BY <1>2, <1>3, <1>4 DEF PackageInv, ConfirmedHasRow, At, Moved
<1>14. NumbersKnown'
  BY <1>2, <1>3, <1>5 DEF PackageInv, NumbersKnown, NextId, Moved
<1> QED
  BY <1>7, <1>8, <1>9, <1>11, <1>12, <1>13, <1>14 DEF PackageInv

\* A package is removed by the request that installed it, and its number is
\* no row's: the request whose row it were would be past its insert.
LEMMA PackageRemoved ==
    ASSUME Consistent, PackageInv, NEW s \in Slots, Answers(s, "unlink"),
           UnlinkPackage(req[s].id), \A t \in Slots \ {s} : req'[t] = req[t]
    PROVE  PackageInv'
<1>1. /\ packages' = {p \in packages : p.id # req[s].id} /\ archives' = archives
      /\ packages \subseteq Package
  BY DEF UnlinkPackage, Consistent, TypeOK, StoreTypeOK
<1>2. Mine(s) \in packages /\ Mine(s).id = req[s].id /\ Mine(s).by = s
  BY DEF PackageInv, InstalledKeeps, Installed, Answers, At, Mine
<1>3. \A p \in packages : p.id = req[s].id => p = Mine(s)
  BY <1>2 DEF PackageInv, NamesUnique
<1>4. \A i \in DOMAIN archives : archives[i].by # s
  BY DEF PackageInv, AuthorsDone, Answers, At
<1>5. \A i \in DOMAIN archives : [id |-> i, by |-> archives[i].by] \in packages'
  BY <1>1, <1>2, <1>3, <1>4 DEF PackageInv, RowHasItsOwnPackage
<1>6. RowHasItsOwnPackage'
  BY <1>1, <1>5 DEF RowHasItsOwnPackage
<1>7. NamesUnique'
  BY <1>1 DEF PackageInv, NamesUnique
<1>8. InstalledKeeps'
  <2> SUFFICES ASSUME NEW t \in Slots, Installed(t)'
               PROVE  Mine(t)' \in packages'
    BY DEF InstalledKeeps
  <2>1. t # s
    BY DEF Installed, Answers
  <2>2. Installed(t) /\ Mine(t)' = Mine(t)
    BY <2>1 DEF Installed, Mine
  <2>3. Mine(t) \in packages /\ Mine(t).by = t
    BY <2>2 DEF PackageInv, InstalledKeeps, Mine
  <2> QED
    BY <1>1, <1>2, <1>3, <2>1, <2>2, <2>3
<1>9. Accounted'
  <2> SUFFICES ASSUME NEW p \in packages, p.id # req[s].id
               PROVE  \/ Installed(p.by)' /\ req'[p.by].id = p.id
                      \/ Ended(p.by)'
                      \/ p.id \in DOMAIN archives /\ archives[p.id].by = p.by
    BY <1>1 DEF Accounted
  <2>1. p.by \in Slots
    BY <1>1 DEF Package
  <2>2. CASE p.by = s
    BY <1>4, <2>2 DEF PackageInv, Accounted, Answers, At, Ended
  <2>3. CASE p.by # s
    BY <2>1, <2>3 DEF PackageInv, Accounted, Installed, Ended
  <2> QED
    BY <2>2, <2>3
<1>10. AuthorsDone'
  BY <1>1, <1>4 DEF PackageInv, AuthorsDone, At
<1>11. ConfirmedHasRow'
  BY <1>1 DEF PackageInv, ConfirmedHasRow, At, Answers
<1>12. NumbersKnown'
  BY <1>1 DEF PackageInv, NumbersKnown, NextId, Answers
<1> QED
  BY <1>6, <1>7, <1>8, <1>9, <1>10, <1>11, <1>12 DEF PackageInv

LEMMA PackageInstalled ==
    ASSUME Consistent, PackageInv, NEW s \in Slots, Moved(s, "link", "tidy"),
           LinkPackage(req[s].id, s), \A t \in Slots \ {s} : req'[t] = req[t]
    PROVE  PackageInv'
<1>1. /\ packages' = packages \cup {Mine(s)} /\ archives' = archives
      /\ \A p \in packages : p.id # req[s].id
      /\ packages \subseteq Package
  BY DEF LinkPackage, PackageExists, Mine, Consistent, TypeOK, StoreTypeOK
<1>2. Mine(s)' = Mine(s) /\ Mine(s).id = req[s].id /\ Mine(s).by = s
  BY DEF Mine, Moved
<1>3. \A t \in Slots \ {s} : Mine(t)' = Mine(t) /\ Installed(t)' = Installed(t)
  BY DEF Mine, Installed
<1>4. Installed(s)' /\ req'[s].id = req[s].id
  BY DEF Installed, Moved
<1>5. NamesUnique'
  BY <1>1, <1>2 DEF PackageInv, NamesUnique
<1>6. InstalledKeeps'
  BY <1>1, <1>2, <1>3 DEF PackageInv, InstalledKeeps
<1>7. Accounted'
  <2> SUFFICES ASSUME NEW p \in packages'
               PROVE  \/ Installed(p.by)' /\ req'[p.by].id = p.id
                      \/ Ended(p.by)'
                      \/ p.id \in DOMAIN archives /\ archives[p.id].by = p.by
    BY <1>1 DEF Accounted
  <2>1. CASE p = Mine(s)
    BY <1>2, <1>4, <2>1
  <2>2. CASE p \in packages
    <3>1. p.by \in Slots
      BY <1>1, <2>2 DEF Package
    <3>2. CASE p.by = s
      BY <2>2, <3>2 DEF PackageInv, Accounted, Installed, Moved, At, Ended
    <3>3. CASE p.by # s
      BY <1>3, <2>2, <3>1, <3>3 DEF PackageInv, Accounted, Ended
    <3> QED
      BY <3>2, <3>3
  <2> QED
    BY <1>1, <2>1, <2>2
<1>8. RowHasItsOwnPackage'
  BY <1>1 DEF PackageInv, RowHasItsOwnPackage
<1>9. AuthorsDone'
  BY <1>1 DEF PackageInv, AuthorsDone, At, Moved
<1>10. ConfirmedHasRow'
  BY <1>1 DEF PackageInv, ConfirmedHasRow, At, Moved
<1>11. NumbersKnown'
  BY <1>1 DEF PackageInv, NumbersKnown, NextId, Moved, At
<1> QED
  BY <1>5, <1>6, <1>7, <1>8, <1>9, <1>10, <1>11 DEF PackageInv

\* The steps of an archive request that leave the store alone.
LEMMA NumberRead ==
    ASSUME Consistent, PackageInv, NEW s \in Slots, At(s, "archive", "stage"),
           req'[s].kind = "archive", req'[s].pc = "link", req'[s].id = NextId(archives),
           UNCHANGED store, \A t \in Slots \ {s} : req'[t] = req[t]
    PROVE  PackageInv'
<1>1. packages' = packages /\ archives' = archives /\ packages \subseteq Package
  BY DEF store, Consistent, TypeOK, StoreTypeOK
<1>2. NextId(archives) \in 1..NextId(archives)
  <2>1. archives \in Seq(ArchiveRow)
    BY DEF Consistent, TypeOK, StoreTypeOK
  <2> QED
    BY <2>1, LenProperties DEF NextId
<1>3. NumbersKnown'
  BY <1>1, <1>2 DEF PackageInv, NumbersKnown, NextId
<1>4. \A t \in Slots : Installed(t)' = Installed(t) /\ (Installed(t) => req'[t] = req[t])
  BY DEF Installed, At
<1>5. NamesUnique' /\ RowHasItsOwnPackage'
  BY <1>1 DEF PackageInv, NamesUnique, RowHasItsOwnPackage
<1>6. InstalledKeeps'
  BY <1>1, <1>4 DEF PackageInv, InstalledKeeps, Mine
<1>7. Accounted'
  <2> SUFFICES ASSUME NEW p \in packages
               PROVE  \/ Installed(p.by)' /\ req'[p.by].id = p.id
                      \/ Ended(p.by)'
                      \/ p.id \in DOMAIN archives /\ archives[p.id].by = p.by
    BY <1>1 DEF Accounted
  <2>1. p.by \in Slots
    BY <1>1 DEF Package
  <2> QED
    BY <1>4, <2>1 DEF PackageInv, Accounted, At, Ended
<1>8. AuthorsDone' /\ ConfirmedHasRow'
  BY <1>1 DEF PackageInv, AuthorsDone, ConfirmedHasRow, At
<1> QED
  BY <1>3, <1>5, <1>6, <1>7, <1>8 DEF PackageInv

LEMMA WentOn ==
    ASSUME Consistent, PackageInv, NEW s \in Slots, UNCHANGED store,
           \/ Moved(s, "tidy", "admit") \/ Moved(s, "admit", "insert")
           \/ Moved(s, "admit", "unlink") \/ Moved(s, "insert", "unlink"),
           \A t \in Slots \ {s} : req'[t] = req[t]
    PROVE  PackageInv'
<1>1. packages' = packages /\ archives' = archives /\ packages \subseteq Package
  BY DEF store, Consistent, TypeOK, StoreTypeOK
<1>2. /\ Installed(s) /\ Installed(s)' /\ req'[s].id = req[s].id
      /\ req[s].kind = "archive" /\ req[s].pc \in {"tidy", "admit", "insert"}
      /\ req'[s].pc \in {"admit", "insert", "unlink"}
  BY DEF Moved, Installed, At
<1>3. \A t \in Slots : Installed(t)' = Installed(t) /\ req'[t].id = req[t].id
  BY <1>2 DEF Installed
<1>4. NamesUnique' /\ RowHasItsOwnPackage'
  BY <1>1 DEF PackageInv, NamesUnique, RowHasItsOwnPackage
<1>5. InstalledKeeps'
  BY <1>1, <1>3 DEF PackageInv, InstalledKeeps, Mine
<1>6. Accounted'
  <2> SUFFICES ASSUME NEW p \in packages
               PROVE  \/ Installed(p.by)' /\ req'[p.by].id = p.id
                      \/ Ended(p.by)'
                      \/ p.id \in DOMAIN archives /\ archives[p.id].by = p.by
    BY <1>1 DEF Accounted
  <2>1. p.by \in Slots
    BY <1>1 DEF Package
  <2> QED
    BY <1>2, <1>3, <2>1 DEF PackageInv, Accounted, Ended
<1>7. AuthorsDone' /\ ConfirmedHasRow'
  BY <1>1, <1>2 DEF PackageInv, AuthorsDone, ConfirmedHasRow, At
<1>8. NumbersKnown'
  BY <1>1, <1>2 DEF PackageInv, NumbersKnown, NextId
<1> QED
  BY <1>4, <1>5, <1>6, <1>7, <1>8 DEF PackageInv

\* A file that is not removed is that of a request that gave up.
LEMMA GivenUp ==
    ASSUME Consistent, PackageInv, NEW s \in Slots, UNCHANGED store,
           Fails(s, "tidy") \/ Fails(s, "unlink"), \A t \in Slots \ {s} : req'[t] = req[t]
    PROVE  PackageInv'
<1>1. packages' = packages /\ archives' = archives /\ packages \subseteq Package
  BY DEF store, Consistent, TypeOK, StoreTypeOK
<1>2. Ended(s)' /\ req'[s].pc = "done"
  BY DEF Fails, Answers, Ended
<1>3. \A t \in Slots : Installed(t)' => Installed(t) /\ req'[t] = req[t]
  BY <1>2 DEF Installed
<1>4. NamesUnique' /\ RowHasItsOwnPackage'
  BY <1>1 DEF PackageInv, NamesUnique, RowHasItsOwnPackage
<1>5. InstalledKeeps'
  BY <1>1, <1>3 DEF PackageInv, InstalledKeeps, Mine
<1>6. Accounted'
  <2> SUFFICES ASSUME NEW p \in packages
               PROVE  \/ Installed(p.by)' /\ req'[p.by].id = p.id
                      \/ Ended(p.by)'
                      \/ p.id \in DOMAIN archives /\ archives[p.id].by = p.by
    BY <1>1 DEF Accounted
  <2>1. p.by \in Slots
    BY <1>1 DEF Package
  <2>2. CASE p.by = s
    BY <1>2, <2>2
  <2>3. CASE p.by # s
    BY <2>1, <2>3 DEF PackageInv, Accounted, Installed, Ended
  <2> QED
    BY <2>2, <2>3
<1>7. AuthorsDone'
  BY <1>1, <1>2 DEF PackageInv, AuthorsDone, At
<1>8. ConfirmedHasRow' /\ NumbersKnown'
  BY <1>1, <1>2 DEF PackageInv, ConfirmedHasRow, NumbersKnown, NextId, At
<1> QED
  BY <1>4, <1>5, <1>6, <1>7, <1>8 DEF PackageInv

LEMMA Confirmed ==
    ASSUME Consistent, PackageInv, NEW s \in Slots, UNCHANGED store,
           Answers(s, "confirm"), \A t \in Slots \ {s} : req'[t] = req[t]
    PROVE  PackageInv'
<1>1. packages' = packages /\ archives' = archives /\ packages \subseteq Package
  BY DEF store, Consistent, TypeOK, StoreTypeOK
<1>2. req[s].id \in DOMAIN archives /\ archives[req[s].id].by = s
  BY DEF PackageInv, ConfirmedHasRow, Answers
<1>3. \A t \in Slots : Installed(t)' => Installed(t) /\ req'[t] = req[t]
  BY DEF Installed, Answers
<1>4. NamesUnique' /\ RowHasItsOwnPackage'
  BY <1>1 DEF PackageInv, NamesUnique, RowHasItsOwnPackage
<1>5. InstalledKeeps'
  BY <1>1, <1>3 DEF PackageInv, InstalledKeeps, Mine
<1>6. Accounted'
  <2> SUFFICES ASSUME NEW p \in packages
               PROVE  \/ Installed(p.by)' /\ req'[p.by].id = p.id
                      \/ Ended(p.by)'
                      \/ p.id \in DOMAIN archives /\ archives[p.id].by = p.by
    BY <1>1 DEF Accounted
  <2>1. p.by \in Slots
    BY <1>1 DEF Package
  <2>2. CASE p.by = s
    BY <1>2, <2>2 DEF PackageInv, Accounted, Answers, At, Ended
  <2>3. CASE p.by # s
    BY <2>1, <2>3 DEF PackageInv, Accounted, Installed, Ended
  <2> QED
    BY <2>2, <2>3
<1>7. AuthorsDone' /\ ConfirmedHasRow'
  BY <1>1 DEF PackageInv, AuthorsDone, ConfirmedHasRow, At, Answers
<1>8. NumbersKnown'
  BY <1>1 DEF PackageInv, NumbersKnown, NextId, Answers
<1> QED
  BY <1>4, <1>5, <1>6, <1>7, <1>8 DEF PackageInv

-----------------------------------------------------------------------------
(* Every step.                                                             *)

LEMMA NextPackages ==
    ASSUME "confirm" \notin FaultPoints, Consistent, PackageInv, [Next]_vars
    PROVE  PackageInv'
<1>0. TypeOK /\ packages \subseteq Package
  BY DEF Consistent, TypeOK, StoreTypeOK
<1>1. ASSUME NEW s \in Slots, Proceed(s), req[s].kind = "archive"
      PROVE  PackageInv'
  <2>1. \A t \in Slots \ {s} : req'[t] = req[t]
    BY <1>0, <1>1, ProceedMoves
  <2>2. CASE /\ UNCHANGED store
             /\ \/ Answers(s, "ready") \/ Answers(s, "link")
                \/ At(s, "archive", "ready") /\ req'[s].pc = "stage"
    <3>1. \A t \in Slots : Aside(t)
      BY <2>1, <2>2 DEF Aside, Answers, At, Installed
    <3>2. UNCHANGED <<archives, packages>>
      BY <2>2 DEF store
    <3> QED
      BY <1>0, <3>1, <3>2, AsideKept
  <2>3. CASE UNCHANGED store /\ Answers(s, "confirm")
    BY <2>1, <2>3, Confirmed
  <2>4. CASE /\ UNCHANGED store /\ At(s, "archive", "stage") /\ req'[s].kind = "archive"
             /\ req'[s].pc = "link" /\ req'[s].id = NextId(archives)
    BY <2>1, <2>4, NumberRead
  <2>5. CASE /\ UNCHANGED store
             /\ \/ Moved(s, "tidy", "admit") \/ Moved(s, "admit", "insert")
                \/ Moved(s, "admit", "unlink") \/ Moved(s, "insert", "unlink")
    BY <2>1, <2>5, WentOn
  <2>6. CASE Moved(s, "link", "tidy") /\ LinkPackage(req[s].id, s)
    BY <2>1, <2>6, PackageInstalled
  <2>7. CASE Moved(s, "insert", "confirm") /\ InsertArchive(NewArchive(s), req[s].id)
    BY <2>1, <2>7, RowInserted
  <2>8. CASE Answers(s, "unlink") /\ UnlinkPackage(req[s].id)
    BY <2>1, <2>8, PackageRemoved
  <2>9. CASE UNCHANGED store /\ (Fails(s, "tidy") \/ Fails(s, "unlink"))
    BY <2>1, <2>9, GivenUp
  <2> QED
    BY <1>0, <1>1, <2>2, <2>3, <2>4, <2>5, <2>6, <2>7, <2>8, <2>9, ArchiveMoves
<1>2. CASE \A s \in Slots : ~(Proceed(s) /\ req[s].kind = "archive")
  <2>1. UNCHANGED <<archives, packages>>
    <3>1. UNCHANGED store => UNCHANGED <<archives, packages>>
      BY DEF store
    <3>2. ASSUME NEW s \in Slots, Arrive(s) \/ Proceed(s)
          PROVE  UNCHANGED <<archives, packages>>
      BY <1>2, <3>1, <3>2, ArriveReads, OthersLeavePackages DEF ReadOnly
    <3>3. Crash \/ UNCHANGED vars => UNCHANGED store
      BY DEF Crash, vars
    <3> QED
      BY <3>1, <3>2, <3>3 DEF Next, Finished
  <2>2. ASSUME NEW s \in Slots, Proceed(s)
        PROVE  Aside(s)
    <3>1. req'[s].kind = req[s].kind /\ req[s].pc \in Steps /\ req[s].kind # "archive"
      BY <1>0, <1>2, <2>2, ProceedMoves
    <3> QED
      BY <3>1 DEF Aside, Installed, Steps
  <2>3. ASSUME NEW s \in Slots, Arrive(s)
        PROVE  Aside(s)
    BY <1>0, <2>3, ArriveMoves DEF Aside, Installed, FirstSteps
  <2>4. \A s \in Slots : Aside(s)
    BY <1>0, <2>2, <2>3, NextMoves DEF Aside
  <2> QED
    BY <1>0, <2>1, <2>4, AsideKept
<1> QED
  BY <1>1, <1>2

\* As long as a committed row can be read back, the package of an archive row
\* is the one its own request built, for any number of requests racing for
\* the number, failing inserts and crashes: os.link refuses a name that is
\* taken, and the clean-up, although it removes by name, removes its own.
THEOREM RowsHaveTheirPackages ==
    ASSUME "confirm" \notin FaultPoints
    PROVE  Spec => []RowHasItsOwnPackage
<1> DEFINE Inv == Consistent /\ PackageInv
<1>1. Init => Inv
  BY InitConsistent, InitPackages
<1>2. Inv /\ [Next]_vars => Inv'
  BY NextConsistent, NextPackages
<1>3. Inv => RowHasItsOwnPackage
  BY DEF PackageInv
<1> QED
  BY <1>1, <1>2, <1>3, PTL DEF Spec

\* Under the same assumption no package stays behind, except that of a request
\* that died with the process or failed to remove a file.
THEOREM PackagesAreAccountedFor ==
    ASSUME "confirm" \notin FaultPoints
    PROVE  Spec => []NoOrphanPackage
<1> DEFINE Inv == Consistent /\ PackageInv
<1>1. Init => Inv
  BY InitConsistent, InitPackages
<1>2. Inv /\ [Next]_vars => Inv'
  BY NextConsistent, NextPackages
<1>3. Inv => NoOrphanPackage
  BY DEF PackageInv, Accounted, Installed, Ended, GaveUp, NoOrphanPackage
<1> QED
  BY <1>1, <1>2, <1>3, PTL DEF Spec

-----------------------------------------------------------------------------
(* Requests that overlap: what a handler's step writes, and where.         *)

DataKept == UNCHANGED <<opp, evid, reviews, assessments, dossiers, archives>>

EvidenceWrite(s) ==
    \/ AddEvidenceInsert(s) /\ InsertEvidence(req[s].item, req[s].opp)
    \/ UpdateEvidenceWrite(s)
    \/ ArchiveEvidenceWrite(s)

\* The steps that write a table.
DataWrite(s) == EditWrite(s) \/ CloseWrite(s) \/ EvidenceWrite(s) \/ LedgerWrite(s)

LEMMA ProceedData ==
    ASSUME NEW s, Proceed(s)
    PROVE  DataKept \/ DataWrite(s)
<1>1. ReadOnly \/ UNCHANGED store => DataKept
  BY DEF ReadOnly, store, DataKept
<1>2. CASE EditCheck(s) \/ EditWrite(s) \/ CloseCheck(s) \/ CloseWrite(s)
  BY <1>1, <1>2 DEF EditCheck, CloseCheck, DataWrite
<1>3. CASE AddEvidenceCheck(s) \/ AddEvidenceInsert(s)
           \/ UpdateEvidenceCheck(s) \/ UpdateEvidenceWrite(s)
           \/ ArchiveEvidenceCheck(s) \/ ArchiveEvidenceWrite(s)
  BY <1>1, <1>3
     DEF AddEvidenceCheck, AddEvidenceInsert, UpdateEvidenceCheck, ArchiveEvidenceCheck,
         DataWrite, EvidenceWrite
<1>4. CASE ReviewInputs(s) \/ ReviewAdmit(s) \/ ReviewInsert(s)
           \/ CompleteCheck(s) \/ CompleteWrite(s)
  BY <1>1, <1>4
     DEF ReviewInputs, ReviewAdmit, ReviewInsert, CompleteCheck, LedgerWrite, DataWrite
<1>5. CASE AssessReady(s) \/ AssessInputs(s) \/ AssessRank(s) \/ LegacyRank(s)
           \/ AssessAdmit(s) \/ AssessInsert(s)
  BY <1>1, <1>5
     DEF AssessReady, AssessInputs, AssessRank, LegacyRank, AssessAdmit, AssessInsert,
         LedgerWrite, DataWrite
<1>6. CASE DossierReady(s) \/ DossierFind(s) \/ DossierStage(s) \/ DossierRank(s)
           \/ DossierInsert(s)
  BY <1>1, <1>6
     DEF DossierReady, DossierFind, DossierStage, DossierRank, DossierInsert, LedgerWrite,
         DataWrite
<1>7. CASE ArchiveReady(s) \/ ArchiveStage(s) \/ ArchiveTidy(s) \/ ArchiveAdmit(s)
           \/ ArchiveConfirm(s)
  BY <1>1, <1>7 DEF ArchiveReady, ArchiveStage, ArchiveTidy, ArchiveAdmit, ArchiveConfirm
<1>8. CASE ArchiveLink(s) \/ ArchiveInsert(s) \/ ArchiveUnlink(s)
  BY <1>1, <1>8
     DEF ArchiveLink, ArchiveInsert, ArchiveUnlink, LinkPackage, UnlinkPackage,
         DataKept, LedgerWrite, DataWrite
<1> QED
  BY <1>2, <1>3, <1>4, <1>5, <1>6, <1>7, <1>8 DEF Proceed

\* A request that writes.
LEMMA WriterTypes ==
    ASSUME Consistent, NEW s \in Slots, DataWrite(s)
    PROVE  /\ req[s] \in Request /\ req[s].pc \in {"write", "insert"}
           /\ req[s].opp \in Opps /\ JobRefs(req[s], reviews, assessments, dossiers)
           /\ EvidenceWrite(s) => req[s].item \in Evidence
<1>1. req[s] \in Request /\ JobRefs(req[s], reviews, assessments, dossiers)
  BY DEF Consistent, TypeOK, RequestRefs
<1>2. /\ req[s].pc \in {"write", "insert"}
      /\ EvidenceWrite(s) =>
            req[s].kind \in {"addEvidence", "updateEvidence", "archiveEvidence"}
  BY DEF DataWrite, EvidenceWrite, LedgerWrite, EditWrite, CloseWrite, AddEvidenceInsert,
         UpdateEvidenceWrite, ArchiveEvidenceWrite, CompleteWrite, ReviewInsert,
         AssessInsert, DossierInsert, ArchiveInsert, At
<1> QED
  BY <1>1, <1>2, Words DEF JobRefs

\* An evidence identifier that is nobody's has no history.
FreshEvidence ==
    \A e \in Evidence : evid[e].opp = NoOpp => evid[e].rev = 0 /\ ~evid[e].archived

\* The evidence a request changes is of the opportunity it was sent to.
AtHome(j) ==
    j.pc \in Steps /\ j.kind \in {"updateEvidence", "archiveEvidence"} =>
        evid[j.item].opp = j.opp

Home == FreshEvidence /\ \A s \in Slots : AtHome(req[s])

\* The evidence after an insert, an update or an archival.
LEMMA EvidenceRows ==
    ASSUME Consistent, Home, NEW s \in Slots, EvidenceWrite(s)
    PROVE  /\ UNCHANGED <<opp, reviews, assessments, dossiers, archives, packages>>
           /\ \A e \in Evidence \ {req[s].item} : evid'[e] = evid[e]
           /\ evid'[req[s].item].opp = req[s].opp
           /\ evid[req[s].item].opp \in {NoOpp, req[s].opp}
           /\ evid[req[s].item].rev + 1 = evid'[req[s].item].rev
           /\ evid[req[s].item].archived => evid'[req[s].item].archived
           /\ req[s].kind = "addEvidence" => evid[req[s].item].opp = NoOpp
<1> PICK e : e = req[s].item
  OBVIOUS
<1>1. e \in Evidence /\ AtHome(req[s]) /\ req[s].pc \in Steps /\ req[s].opp \in Opps
  BY WriterTypes, Words DEF DataWrite, Home
<1>2. evid \in [Evidence -> EvidRow]
  BY DEF Consistent, TypeOK, StoreTypeOK
<1>3. /\ DOMAIN evid = Evidence /\ evid[e] \in EvidRow
      /\ evid[e].opp = NoOpp => evid[e].rev = 0 /\ ~evid[e].archived
  BY <1>1, <1>2 DEF Home, FreshEvidence
<1>4. CASE AddEvidenceInsert(s) /\ InsertEvidence(e, req[s].opp)
  BY <1>1, <1>3, <1>4 DEF InsertEvidence
<1>5. CASE UpdateEvidenceWrite(s)
  <2>1. evid' = [evid EXCEPT ![e].rev = @ + 1] /\ req[s].kind = "updateEvidence"
    BY <1>5 DEF UpdateEvidenceWrite, UpdateEvidence, At
  <2>2. evid'[e] = [evid[e] EXCEPT !.rev = @ + 1]
    BY <1>1, <1>3, <2>1
  <2>3. /\ evid'[e].opp = evid[e].opp /\ evid'[e].rev = evid[e].rev + 1
        /\ evid'[e].archived = evid[e].archived
    BY <1>3, <2>2 DEF EvidRow
  <2> QED
    BY <1>1, <1>3, <1>5, <2>1, <2>3 DEF UpdateEvidenceWrite, UpdateEvidence, AtHome
<1>6. CASE ArchiveEvidenceWrite(s)
  <2>1. /\ evid' = [evid EXCEPT ![e].rev = @ + 1, ![e].archived = TRUE]
        /\ req[s].kind = "archiveEvidence"
    BY <1>6 DEF ArchiveEvidenceWrite, ArchiveEvidence, At
  <2>2. evid'[e] = [evid[e] EXCEPT !.rev = @ + 1, !.archived = TRUE]
    BY <1>1, <1>3, <2>1
  <2>3. /\ evid'[e].opp = evid[e].opp /\ evid'[e].rev = evid[e].rev + 1
        /\ evid'[e].archived
    BY <1>3, <2>2 DEF EvidRow
  <2> QED
    BY <1>1, <1>3, <1>6, <2>1, <2>3 DEF ArchiveEvidenceWrite, ArchiveEvidence, AtHome
<1> QED
  BY <1>4, <1>5, <1>6 DEF EvidenceWrite

\* The opportunities after a write.
LEMMA OpportunityRows ==
    ASSUME Consistent, NEW s \in Slots, DataWrite(s)
    PROVE  /\ \A x \in Opps \ {req[s].opp} : opp'[x] = opp[x]
           /\ opp[req[s].opp].rev <= opp'[req[s].opp].rev
           /\ opp[req[s].opp].archived => opp'[req[s].opp].archived
           /\ req[s].kind = "edit" => opp[req[s].opp].rev < opp'[req[s].opp].rev
           /\ req[s].kind \in {"close", "archive"} => opp'[req[s].opp].archived
<1> PICK o \in Opps : o = req[s].opp
  BY WriterTypes
<1>1. /\ opp \in [Opps -> OppRow] /\ opp[o] \in OppRow /\ opp[o].rev \in Nat
      /\ opp[o].rev <= opp[o].rev /\ opp[o].rev < opp[o].rev + 1
  BY DEF Consistent, TypeOK, StoreTypeOK, OppRow
<1>2. CASE EditWrite(s)
  <2>1. /\ opp' = [opp EXCEPT ![o].rev = @ + 1, ![o].stamp = @ + 1]
        /\ req[s].kind = "edit"
    BY <1>2 DEF EditWrite, UpdateOpportunity, At
  <2>2. opp'[o].rev = opp[o].rev + 1 /\ opp'[o].archived = opp[o].archived
    BY <1>1, <2>1 DEF OppRow
  <2>3. \A x \in Opps \ {o} : opp'[x] = opp[x]
    BY <1>1, <2>1
  <2> QED
    BY <1>1, <2>1, <2>2, <2>3
<1>3. CASE CloseWrite(s)
  <2>1. /\ opp' = [opp EXCEPT ![o].rev = @ + 1, ![o].stamp = @ + 1,
                              ![o].archived = TRUE, ![o].state = "Archived"]
        /\ req[s].kind = "close"
    BY <1>3 DEF CloseWrite, ArchiveOpportunity, At
  <2>2. opp'[o].rev = opp[o].rev + 1 /\ opp'[o].archived
    BY <1>1, <2>1 DEF OppRow
  <2>3. \A x \in Opps \ {o} : opp'[x] = opp[x]
    BY <1>1, <2>1
  <2>4. req[s].kind = "close"
    BY <2>1
  <2> QED
    BY <1>1, <2>2, <2>3, <2>4
<1>4. CASE AssessInsert(s) /\ InsertAssessment(NewAssessment(s), req[s].id)
  <2>1. /\ opp' = [opp EXCEPT ![o].state = "Recommended", ![o].stamp = @ + 1]
        /\ req[s].kind \in {"assess", "legacy"}
    BY <1>4 DEF AssessInsert, InsertAssessment, NewAssessment
  <2>2. opp'[o].rev = opp[o].rev /\ opp'[o].archived = opp[o].archived
    BY <1>1, <2>1 DEF OppRow
  <2>3. \A x \in Opps \ {o} : opp'[x] = opp[x]
    BY <1>1, <2>1
  <2> QED
    BY <1>1, <2>1, <2>2, <2>3
<1>5. CASE ArchiveInsert(s) /\ InsertArchive(NewArchive(s), req[s].id)
  <2>1. /\ opp' = [opp EXCEPT ![o].archived = TRUE, ![o].state = "Archived"]
        /\ req[s].kind = "archive"
    BY <1>5 DEF ArchiveInsert, InsertArchive, NewArchive, At
  <2>2. opp'[o].rev = opp[o].rev /\ opp'[o].archived
    BY <1>1, <2>1 DEF OppRow
  <2>3. \A x \in Opps \ {o} : opp'[x] = opp[x]
    BY <1>1, <2>1
  <2> QED
    BY <1>1, <2>1, <2>2, <2>3
<1>6. CASE \/ EvidenceWrite(s) \/ CompleteWrite(s)
           \/ ReviewInsert(s) /\ InsertReview(NewReview(s), req[s].id)
           \/ DossierInsert(s) /\ InsertDossier(NewDossier(s), req[s].id)
  <2>1. opp' = opp
    BY <1>6 DEF EvidenceWrite, InsertEvidence, UpdateEvidenceWrite, UpdateEvidence,
                ArchiveEvidenceWrite, ArchiveEvidence, CompleteWrite, CompleteReview,
                InsertReview, InsertDossier
  <2>2. req[s].kind \notin {"edit", "close", "archive"}
    BY <1>6 DEF EvidenceWrite, AddEvidenceInsert, UpdateEvidenceWrite, ArchiveEvidenceWrite,
                CompleteWrite, ReviewInsert, DossierInsert, At
  <2> QED
    BY <1>1, <2>1, <2>2
<1> QED
  BY <1>2, <1>3, <1>4, <1>5, <1>6 DEF DataWrite, LedgerWrite

\* The rows of an opportunity in two states of a table.
SameRows(old, new, x) ==
    OfOpp(new, x) = OfOpp(old, x) /\ \A i \in OfOpp(old, x) : new[i] = old[i]

LEMMA SameTableRows ==
    ASSUME NEW old, NEW new, new = old
    PROVE  \A x : SameRows(old, new, x)
  BY DEF SameRows

LEMMA AppendedRows ==
    ASSUME NEW S, NEW table \in Seq(S), NEW row \in S, NEW new, new = Append(table, row),
           NEW x, row.opp # x
    PROVE  SameRows(table, new, x)
<1>1. /\ DOMAIN new = DOMAIN table \cup {Len(table) + 1}
      /\ \A i \in DOMAIN table : new[i] = table[i]
      /\ new[Len(table) + 1] = row
  BY AppendRow
<1> QED
  BY <1>1 DEF SameRows, OfOpp

\* A record that a step leaves alone: the opportunity, its evidence, and
\* everything derived from it.
Untouched(x) ==
    /\ opp'[x] = opp[x]
    /\ \A e \in Evidence : evid[e].opp = x \/ evid'[e].opp = x => evid'[e] = evid[e]
    /\ SameRows(reviews, reviews', x)
    /\ SameRows(assessments, assessments', x)
    /\ SameRows(dossiers, dossiers', x)
    /\ SameRows(archives, archives', x)

\* The reviews of other opportunities than the one of a write.
LEMMA ReviewsElsewhere ==
    ASSUME Consistent, NEW s \in Slots,
           CompleteWrite(s) \/ (ReviewInsert(s) /\ InsertReview(NewReview(s), req[s].id)),
           NEW x, x # req[s].opp
    PROVE  SameRows(reviews, reviews', x)
<1>1. reviews \in Seq(ReviewRow)
  BY DEF Consistent, TypeOK, StoreTypeOK
<1>2. DataWrite(s)
  BY DEF DataWrite, LedgerWrite
<1>3. req[s].target = 0 \/ OneOf(reviews, req[s].opp, req[s].target)
  BY <1>2, WriterTypes DEF JobRefs, CompleteWrite, ReviewInsert, At, Steps
<1>4. DOMAIN reviews = 1..Len(reviews) /\ Len(reviews) \in Nat
  BY <1>1, LenProperties
<1>5. \A r \in DOMAIN reviews : reviews[r].opp = x => r # req[s].target
  BY <1>3, <1>4 DEF OneOf, OfOpp
<1>6. CASE CompleteWrite(s)
  <2>1. /\ DOMAIN reviews' = DOMAIN reviews
        /\ \A r \in DOMAIN reviews : r # req[s].target => reviews'[r] = reviews[r]
    BY <1>6 DEF CompleteWrite, CompleteReview
  <2>2. reviews'[req[s].target].opp = req[s].opp
    <3>1. StoreKept
      BY <1>6, CompleteReviewKept DEF CompleteWrite
    <3>2. OneOf(reviews, req[s].opp, req[s].target)
      BY <1>2, <1>6, WriterTypes DEF JobRefs, CompleteWrite, At, Steps
    <3> QED
      BY <3>1, <3>2 DEF StoreKept, Keeps, OneOf, OfOpp
  <2> QED
    BY <1>5, <2>1, <2>2 DEF SameRows, OfOpp
<1>7. CASE ReviewInsert(s) /\ InsertReview(NewReview(s), req[s].id)
  <2> PICK row : row = NewReview(s)
    OBVIOUS
  <2>1. row \in ReviewRow /\ row.opp = req[s].opp /\ row.sup = req[s].target
    BY <1>7, NewRows DEF ReviewInsert, NewReview
  <2>2. ReviewRefs(row, reviews)
    BY <1>3, <2>1 DEF ReviewRefs, Superseded
  <2> PICK older : older = ClosedBy(row)
    OBVIOUS
  <2>3. /\ older \in Seq(ReviewRow) /\ Len(older) = Len(reviews)
        /\ DOMAIN older = DOMAIN reviews
        /\ \A r \in DOMAIN reviews : r # req[s].target => older[r] = reviews[r]
    BY <1>1, <1>4, <2>1, ClosedByKeepsRows, LenProperties
  <2>4. reviews' = Append(older, row)
    BY <1>7 DEF InsertReview
  <2>5. SameRows(older, reviews', x)
    BY <2>1, <2>3, <2>4, AppendedRows
  <2>6. SameRows(reviews, older, x)
    <3>1. \A r \in DOMAIN reviews : older[r].opp = reviews[r].opp
      <4>1. StoreKept
        BY <1>7, <2>1, <2>2, InsertReviewKept
      <4>2. \A r \in DOMAIN reviews : reviews'[r] = older[r]
        BY <2>1, <2>3, <2>4, AppendRow
      <4> QED
        BY <4>1, <4>2 DEF StoreKept, Keeps
    <3> QED
      BY <1>5, <2>3, <3>1 DEF SameRows, OfOpp
  <2> QED
    BY <2>5, <2>6 DEF SameRows
<1> QED
  BY <1>6, <1>7

\* A handler writes to the records of its opportunity only.
LEMMA WritesAtHome ==
    ASSUME Consistent, Home, NEW s \in Slots, DataWrite(s), NEW x \in Opps, x # req[s].opp
    PROVE  Untouched(x)
<1>1. opp'[x] = opp[x]
  BY OpportunityRows
<1>2. /\ NoOpp # x
      /\ reviews \in Seq(ReviewRow) /\ assessments \in Seq(AssessmentRow)
      /\ dossiers \in Seq(DossierRow) /\ archives \in Seq(ArchiveRow)
  BY StoreAssumption DEF Consistent, TypeOK, StoreTypeOK
<1>3. CASE EvidenceWrite(s)
  <2>1. \A e \in Evidence : evid[e].opp = x \/ evid'[e].opp = x => evid'[e] = evid[e]
    BY <1>2, <1>3, EvidenceRows
  <2>2. UNCHANGED <<reviews, assessments, dossiers, archives>>
    BY <1>3, EvidenceRows
  <2> QED
    BY <1>1, <2>1, <2>2, SameTableRows DEF Untouched
<1>4. CASE EditWrite(s) \/ CloseWrite(s)
  <2>1. UNCHANGED <<evid, reviews, assessments, dossiers, archives>>
    BY <1>4 DEF EditWrite, CloseWrite, UpdateOpportunity, ArchiveOpportunity
  <2> QED
    BY <1>1, <2>1, SameTableRows DEF Untouched
<1>5. CASE CompleteWrite(s) \/ (ReviewInsert(s) /\ InsertReview(NewReview(s), req[s].id))
  <2>1. UNCHANGED <<evid, assessments, dossiers, archives>>
    BY <1>5 DEF CompleteWrite, CompleteReview, InsertReview
  <2>2. SameRows(reviews, reviews', x)
    BY <1>5, ReviewsElsewhere
  <2> QED
    BY <1>1, <2>1, <2>2, SameTableRows DEF Untouched
<1>6. CASE AssessInsert(s) /\ InsertAssessment(NewAssessment(s), req[s].id)
  <2> PICK row : row = NewAssessment(s)
    OBVIOUS
  <2>1. row \in AssessmentRow /\ row.opp = req[s].opp
    BY <1>6, NewRows DEF NewAssessment
  <2>2. assessments' = Append(assessments, row) /\ UNCHANGED <<evid, reviews, dossiers, archives>>
    BY <1>6 DEF InsertAssessment
  <2>3. SameRows(assessments, assessments', x)
    BY <1>2, <2>1, <2>2, AppendedRows
  <2> QED
    BY <1>1, <2>2, <2>3, SameTableRows DEF Untouched
<1>7. CASE DossierInsert(s) /\ InsertDossier(NewDossier(s), req[s].id)
  <2> PICK row : row = NewDossier(s)
    OBVIOUS
  <2>1. row \in DossierRow /\ row.opp = req[s].opp
    BY <1>7, NewRows DEF NewDossier, DossierInsert
  <2>2. dossiers' = Append(dossiers, row) /\ UNCHANGED <<evid, reviews, assessments, archives>>
    BY <1>7 DEF InsertDossier
  <2>3. SameRows(dossiers, dossiers', x)
    BY <1>2, <2>1, <2>2, AppendedRows
  <2> QED
    BY <1>1, <2>2, <2>3, SameTableRows DEF Untouched
<1>8. CASE ArchiveInsert(s) /\ InsertArchive(NewArchive(s), req[s].id)
  <2> PICK row : row = NewArchive(s)
    OBVIOUS
  <2>1. row \in ArchiveRow /\ row.opp = req[s].opp
    BY <1>8, NewRows DEF NewArchive, ArchiveInsert
  <2>2. archives' = Append(archives, row) /\ UNCHANGED <<evid, reviews, assessments, dossiers>>
    BY <1>8 DEF InsertArchive
  <2>3. SameRows(archives, archives', x)
    BY <1>2, <2>1, <2>2, AppendedRows
  <2> QED
    BY <1>1, <2>2, <2>3, SameTableRows DEF Untouched
<1> QED
  BY <1>3, <1>4, <1>5, <1>6, <1>7, <1>8 DEF DataWrite, LedgerWrite

-----------------------------------------------------------------------------
(* Every step of the service is the write of one handler, or writes no     *)
(* table, and evidence stays with its opportunity.                         *)

LEMMA StepWrites ==
    ASSUME [Next]_vars
    PROVE  DataKept \/ \E s \in Slots : Proceed(s) /\ DataWrite(s)
<1>1. UNCHANGED store => DataKept
  BY DEF store, DataKept
<1>2. UNCHANGED vars => UNCHANGED store
  BY DEF vars
<1>3. ASSUME NEW s \in Slots, Arrive(s)
      PROVE  UNCHANGED store
  BY <1>3, ArriveReads DEF ReadOnly
<1>4. Crash => UNCHANGED store
  BY DEF Crash
<1> QED
  BY <1>1, <1>2, <1>3, <1>4, ProceedData DEF Next, Finished

\* What a request starts with.
Starts(job) ==
    /\ job.res = "none" /\ job.pc \in FirstSteps
    /\ job.kind \in {"assess", "archive"} => job.pc = "ready"
    /\ job.kind \in {"updateEvidence", "archiveEvidence"} => evid[job.item].opp = job.opp
    /\ job.kind = "edit" => job.expect \in Expected(opp[job.opp].rev)
    /\ job.kind = "updateEvidence" => job.expect \in Expected(evid[job.item].rev)

LEMMA ArrivesAsJob ==
    ASSUME NEW s \in Slots, Arrive(s)
    PROVE  \E job : Submit(s, job) /\ Starts(job)
<1>1. ASSUME NEW job, NEW kind, NEW pc \in FirstSteps, NEW o, job.kind = kind, job.pc = pc,
             job.opp = o, job.res = "none",
             kind \notin {"edit", "updateEvidence", "archiveEvidence"},
             kind \in {"assess", "archive"} => pc = "ready"
      PROVE  Starts(job)
  BY <1>1 DEF Starts
<1>2. /\ "check" \in FirstSteps /\ "inputs" \in FirstSteps /\ "ready" \in FirstSteps
      /\ "rank" \in FirstSteps
  BY DEF FirstSteps
<1>3. CASE SubmitEdit(s)
  <2>1. PICK o, m, job : /\ m \in Expected(opp[o].rev)
                         /\ job = [Job("edit", "check", o) EXCEPT !.expect = m]
                         /\ Submit(s, job)
    BY <1>3 DEF SubmitEdit
  <2>2. job.kind = "edit" /\ job.pc = "check" /\ job.opp = o /\ job.res = "none"
    BY <2>1 DEF Job, Idle
  <2>3. job.expect = m
    BY <2>1 DEF Job, Idle
  <2> QED
    BY <1>2, <2>1, <2>2, <2>3 DEF Starts
<1>4. CASE SubmitClose(s)
  <2>1. PICK o, job : job = Job("close", "check", o) /\ Submit(s, job)
    BY <1>4 DEF SubmitClose
  <2>2. job.kind = "close" /\ job.pc = "check" /\ job.opp = o /\ job.res = "none"
    BY <2>1 DEF Job, Idle
  <2> QED
    BY <1>1, <1>2, <2>1, <2>2
<1>5. CASE SubmitAddEvidence(s)
  <2>1. PICK o, e, job :
           /\ job = [Job("addEvidence", "check", o) EXCEPT !.item = e]
           /\ Submit(s, job)
    BY <1>5 DEF SubmitAddEvidence
  <2>2. job.kind = "addEvidence" /\ job.pc = "check" /\ job.opp = o /\ job.res = "none"
    BY <2>1 DEF Job, Idle
  <2> QED
    BY <1>1, <1>2, <2>1, <2>2
<1>6. CASE SubmitEvidenceChange(s)
  <2>1. PICK kind, e, m, job :
           /\ kind \in {"updateEvidence", "archiveEvidence"} /\ m \in Expected(evid[e].rev)
           /\ job = [Job(kind, "check", evid[e].opp) EXCEPT !.item = e, !.expect = m]
           /\ Submit(s, job)
    BY <1>6 DEF SubmitEvidenceChange
  <2>2. job.kind = kind /\ job.pc = "check" /\ job.opp = evid[e].opp /\ job.res = "none"
    BY <2>1 DEF Job, Idle
  <2>3. job.item = e /\ job.expect = m
    BY <2>1 DEF Job, Idle
  <2> QED
    BY <1>2, <2>1, <2>2, <2>3 DEF Starts
<1>7. CASE SubmitReview(s)
  <2>1. PICK o, mode, r, job :
           /\ job = [Job("review", "inputs", o) EXCEPT !.mode = mode, !.target = r]
           /\ Submit(s, job)
    BY <1>7 DEF SubmitReview
  <2>2. job.kind = "review" /\ job.pc = "inputs" /\ job.opp = o /\ job.res = "none"
    BY <2>1 DEF Job, Idle
  <2> QED
    BY <1>1, <1>2, <2>1, <2>2
<1>8. CASE SubmitComplete(s)
  <2>1. PICK r, m, job :
           /\ job = [Job("complete", "check", reviews[r].opp) EXCEPT !.target = r, !.expect = m]
           /\ Submit(s, job)
    BY <1>8 DEF SubmitComplete
  <2>2. job.kind = "complete" /\ job.pc = "check" /\ job.opp = reviews[r].opp
        /\ job.res = "none"
    BY <2>1 DEF Job, Idle
  <2> QED
    BY <1>1, <1>2, <2>1, <2>2
<1>9. CASE SubmitAssess(s)
  <2>1. PICK o, r, job : /\ job = [Job("assess", "ready", o) EXCEPT !.target = r]
                         /\ Submit(s, job)
    BY <1>9 DEF SubmitAssess
  <2>2. job.kind = "assess" /\ job.pc = "ready" /\ job.opp = o /\ job.res = "none"
    BY <2>1 DEF Job, Idle
  <2> QED
    BY <1>1, <1>2, <2>1, <2>2
<1>10. CASE SubmitLegacy(s)
  <2>1. PICK o, mode, job : /\ job = [Job("legacy", "rank", o) EXCEPT !.mode = mode]
                            /\ Submit(s, job)
    BY <1>10 DEF SubmitLegacy
  <2>2. job.kind = "legacy" /\ job.pc = "rank" /\ job.opp = o /\ job.res = "none"
    BY <2>1 DEF Job, Idle
  <2> QED
    BY <1>1, <1>2, <2>1, <2>2
<1>11. CASE SubmitDossier(s)
  <2>1. PICK o, a, job : /\ job = [Job("dossier", "ready", o) EXCEPT !.target = a]
                         /\ Submit(s, job)
    BY <1>11 DEF SubmitDossier
  <2>2. job.kind = "dossier" /\ job.pc = "ready" /\ job.opp = o /\ job.res = "none"
    BY <2>1 DEF Job, Idle
  <2> QED
    BY <1>1, <1>2, <2>1, <2>2
<1>12. CASE SubmitArchive(s)
  <2>1. PICK o, job : job = Job("archive", "ready", o) /\ Submit(s, job)
    BY <1>12 DEF SubmitArchive
  <2>2. job.kind = "archive" /\ job.pc = "ready" /\ job.opp = o /\ job.res = "none"
    BY <2>1 DEF Job, Idle
  <2> QED
    BY <1>1, <1>2, <2>1, <2>2
<1> QED
  BY <1>3, <1>4, <1>5, <1>6, <1>7, <1>8, <1>9, <1>10, <1>11, <1>12 DEF Arrive
\* Evidence that belongs to an opportunity stays with it, and no revision goes back.
EvidenceStays ==
    \A e \in Evidence :
        /\ evid[e].opp # NoOpp => evid'[e].opp = evid[e].opp
        /\ evid[e].rev <= evid'[e].rev
        /\ evid[e].archived => evid'[e].archived
        /\ evid'[e].opp = NoOpp => evid'[e] = evid[e]

LEMMA StepKeepsEvidence ==
    ASSUME Consistent, Home, [Next]_vars
    PROVE  EvidenceStays
<1>0. \A e \in Evidence : evid[e].rev \in Nat
  BY DEF Consistent, TypeOK, StoreTypeOK, EvidRow
<1>1. CASE evid' = evid
  BY <1>0, <1>1 DEF EvidenceStays
<1>2. ASSUME NEW s \in Slots, EvidenceWrite(s)
      PROVE  EvidenceStays
  <2> PICK e : e = req[s].item
    OBVIOUS
  <2>1. e \in Evidence /\ req[s].opp # NoOpp
    BY <1>2, WriterTypes, StoreAssumption DEF DataWrite
  <2>2. /\ \A d \in Evidence \ {e} : evid'[d] = evid[d]
        /\ evid'[e].opp = req[s].opp
        /\ evid[e].opp \in {NoOpp, req[s].opp}
        /\ evid[e].rev + 1 = evid'[e].rev
        /\ evid[e].archived => evid'[e].archived
    BY <1>2, EvidenceRows
  <2>3. evid[e].rev <= evid'[e].rev
    BY <1>0, <2>1, <2>2
  <2> QED
    BY <1>0, <2>1, <2>2, <2>3 DEF EvidenceStays
<1>3. ASSUME NEW s \in Slots, DataWrite(s), ~EvidenceWrite(s)
      PROVE  evid' = evid
  BY <1>3 DEF DataWrite, LedgerWrite, EditWrite, CloseWrite, CompleteWrite, UpdateOpportunity,
              ArchiveOpportunity, CompleteReview, InsertReview, InsertAssessment,
              InsertDossier, InsertArchive
<1> QED
  BY <1>1, <1>2, <1>3, StepWrites DEF DataKept

\* What a request is after a step of the service.
LEMMA RequestSteps ==
    ASSUME TypeOK, [Next]_vars, NEW t \in Slots
    PROVE  \/ req'[t] = req[t]
           \/ req'[t].pc = "lost" /\ req'[t].res = "none" /\ DataKept
           \/ req[t].pc = "idle" /\ Starts(req'[t]) /\ DataKept
           \/ Proceed(t) /\ Forward(t)
<1>1. UNCHANGED store => DataKept
  BY DEF store, DataKept
<1>2. CASE UNCHANGED vars
  BY <1>2 DEF vars
<1>3. ASSUME NEW s \in Slots, Arrive(s)
      PROVE  req'[t] = req[t] \/ (req[t].pc = "idle" /\ Starts(req'[t]) /\ DataKept)
  <2>1. PICK job : Submit(s, job) /\ Starts(job)
    BY <1>3, ArrivesAsJob
  <2>2. /\ req'[s] = job /\ \A u \in Slots \ {s} : req'[u] = req[u]
        /\ req[s].pc = "idle" /\ DataKept
    BY <1>1, <2>1, BecomeMoves DEF Submit, ReadOnly
  <2> QED
    BY <2>1, <2>2
<1>4. ASSUME NEW s \in Slots, Proceed(s)
      PROVE  req'[t] = req[t] \/ (Proceed(t) /\ Forward(t))
  BY <1>4, ProceedMoves, ProceedForward
<1>5. CASE Crash
  <2>1. DataKept
    BY <1>1, <1>5 DEF Crash
  <2>2. req'[t] = IF t \in InFlight
                  THEN [Idle EXCEPT !.kind = req[t].kind, !.pc = "lost"] ELSE req[t]
    BY <1>5 DEF Crash
  <2>3. /\ [Idle EXCEPT !.kind = req[t].kind, !.pc = "lost"].pc = "lost"
        /\ [Idle EXCEPT !.kind = req[t].kind, !.pc = "lost"].res = "none"
    BY DEF Idle
  <2> QED
    BY <2>1, <2>2, <2>3
<1> QED
  BY <1>2, <1>3, <1>4, <1>5 DEF Next, Finished

LEMMA NextHome ==
    ASSUME Consistent, Home, [Next]_vars
    PROVE  Home'
<1>1. EvidenceStays /\ TypeOK
  BY StepKeepsEvidence DEF Consistent
<1>2. FreshEvidence'
  BY <1>1 DEF EvidenceStays, Home, FreshEvidence
<1>3. ASSUME NEW j, j.item \in Evidence, j.opp \in Opps, evid[j.item].opp = j.opp
      PROVE  evid'[j.item].opp = j.opp
  BY <1>1, <1>3, StoreAssumption DEF EvidenceStays
<1>4. ASSUME NEW t \in Slots, req'[t].pc \in Steps,
             req'[t].kind \in {"updateEvidence", "archiveEvidence"}
      PROVE  evid'[req'[t].item].opp = req'[t].opp
  <2>1. JobRefs(req[t], reviews, assessments, dossiers) /\ AtHome(req[t])
    BY DEF Consistent, RequestRefs, Home
  <2>2. CASE req'[t] = req[t]
    BY <1>3, <1>4, <2>1, <2>2 DEF JobRefs, AtHome
  <2>3. CASE req'[t].pc = "lost"
    BY <1>4, <2>3 DEF Steps
  <2>4. CASE req[t].pc = "idle" /\ Starts(req'[t]) /\ DataKept
    BY <1>4, <2>4 DEF Starts, DataKept
  <2>5. CASE Proceed(t) /\ Forward(t)
    <3>1. req[t].pc \in Steps /\ req'[t].pc # "done"
      BY <1>1, <1>4, <2>5, ProceedMoves DEF Steps
    <3>2. /\ req'[t].kind = req[t].kind /\ req'[t].opp = req[t].opp
          /\ req'[t].item = req[t].item
      BY <2>5, <3>1 DEF Forward, Later, AnswerTo, Sent
    <3> QED
      BY <1>3, <1>4, <2>1, <3>1, <3>2 DEF JobRefs, AtHome
  <2> QED
    BY <1>1, <2>2, <2>3, <2>4, <2>5, RequestSteps
<1> QED
  BY <1>2, <1>4 DEF Home, AtHome

LEMMA InitHome ==
    ASSUME Init
    PROVE  Home
<1>1. FreshEvidence
  <2>1. \A e \in SeededEvidence : SeedOwner(e) \in Opps
    BY SeedFacts DEF SeededEvidence, SeedOwner
  <2> QED
    BY <2>1, StoreAssumption DEF Init, StoreInit, FreshEvidence
<1>2. \A s \in Slots : req[s].pc \notin Steps
  BY IdleTyped DEF Init
<1> QED
  BY <1>1, <1>2 DEF Home, AtHome

-----------------------------------------------------------------------------
(* Closing.                                                                *)

\* What a request may still write.
Grants(j) ==
    IF j.pc \in {"write", "insert"} /\ j.kind \notin {"review", "complete"}
    THEN {j.opp} \cup
         (IF j.kind \in {"updateEvidence", "archiveEvidence"} THEN {j.item} ELSE {})
    ELSE {}

LEMMA AdmittedIsGranted == AdmittedTo = [s \in Slots |-> Grants(req[s])]
  BY DEF AdmittedTo, Admitted, Grants

LEMMA GrantedThen == AdmittedTo' = [s \in Slots |-> Grants(req'[s])]
  BY DEF AdmittedTo, Admitted, Grants

\* An answer keeps what the properties compare.
LEMMA AnsweredFields ==
    ASSUME NEW j, NEW res
    PROVE  /\ Answered(j, res).pc = "done" /\ Answered(j, res).res = res
           /\ Answered(j, res).kind = j.kind /\ Answered(j, res).opp = j.opp
           /\ Answered(j, res).item = j.item /\ Answered(j, res).expect = j.expect
  BY DEF Answered, Idle

\* A request whose handler has looked at the archived flags and not yet
\* written had them false.
LEMMA AdmissionLooks ==
    ASSUME Consistent, NEW s \in Slots, Proceed(s), Grants(req'[s]) # {}
    PROVE  /\ Grants(req[s]) = {} /\ ~Archived(s)
           /\ req[s].kind \in {"updateEvidence", "archiveEvidence"} =>
                 ~evid[req[s].item].archived
<1>1. /\ req'[s].pc \in {"write", "insert"} /\ req'[s].kind \notin {"review", "complete"}
      /\ req'[s].kind = req[s].kind
  BY ProceedMoves DEF Grants, Consistent
<1>2. \A res : Reply(s, res) => req'[s].pc = "done"
  BY BecomeMoves, AnsweredFields DEF Reply, Consistent
<1>3. \A pc : Moves(s, pc) => req'[s].pc = pc
  BY BecomeMoves DEF Moves, Consistent
<1>4. \A pc : Goto(s, pc) => req'[s].pc = pc
  BY <1>3, PcMoves DEF Goto, Consistent
<1>5. \A pc, n : /\ Become(s, [req[s] EXCEPT !.pc = pc, !.id = n]) => req'[s].pc = pc
                 /\ Become(s, [req[s] EXCEPT !.pc = pc, !.sup = n]) => req'[s].pc = pc
                 /\ Become(s, [req[s] EXCEPT !.pc = pc, !.prov = n]) => req'[s].pc = pc
  BY <1>3, IdMoves, SupMoves, ProvMoves DEF Consistent
<1>6. CASE EditCheck(s) \/ CloseCheck(s)
  BY <1>1, <1>2, <1>4, <1>6 DEF EditCheck, CloseCheck, At, Grants
<1>7. CASE AddEvidenceCheck(s) \/ UpdateEvidenceCheck(s) \/ ArchiveEvidenceCheck(s)
  BY <1>1, <1>2, <1>4, <1>7
     DEF AddEvidenceCheck, UpdateEvidenceCheck, ArchiveEvidenceCheck, At, Grants
<1>8. CASE EditWrite(s) \/ CloseWrite(s) \/ AddEvidenceInsert(s)
           \/ UpdateEvidenceWrite(s) \/ ArchiveEvidenceWrite(s)
  BY <1>1, <1>2, <1>8
     DEF EditWrite, CloseWrite, AddEvidenceInsert, UpdateEvidenceWrite, ArchiveEvidenceWrite
<1>9. CASE ReviewInputs(s) \/ ReviewAdmit(s) \/ ReviewInsert(s)
           \/ CompleteCheck(s) \/ CompleteWrite(s)
  BY <1>1, <1>9
     DEF ReviewInputs, ReviewAdmit, ReviewInsert, CompleteCheck, CompleteWrite, At
<1>10. CASE AssessReady(s) \/ AssessInputs(s)
  BY <1>1, <1>2, <1>5, <1>10 DEF AssessReady, AssessInputs
<1>11. CASE AssessRank(s) \/ LegacyRank(s)
  BY <1>1, <1>2, <1>5, <1>11 DEF AssessRank, LegacyRank
<1>12. CASE AssessAdmit(s)
  BY <1>1, <1>2, <1>5, <1>12 DEF AssessAdmit, Grants
<1>13. CASE AssessInsert(s) \/ DossierInsert(s)
  BY <1>1, <1>2, <1>13 DEF AssessInsert, DossierInsert
<1>14. CASE DossierReady(s) \/ DossierFind(s) \/ DossierStage(s)
  BY <1>1, <1>2, <1>4, <1>5, <1>14 DEF DossierReady, DossierFind, DossierStage
<1>15. CASE DossierRank(s)
  BY <1>1, <1>2, <1>5, <1>15 DEF DossierRank, At, Grants
<1>16. CASE ArchiveReady(s) \/ ArchiveLink(s) \/ ArchiveTidy(s)
  BY <1>1, <1>2, <1>4, <1>5, <1>16 DEF ArchiveReady, ArchiveLink, ArchiveTidy
<1>17. CASE ArchiveStage(s)
  BY <1>1, <1>3, <1>17, IdProvMoves DEF ArchiveStage, Consistent
<1>18. CASE ArchiveAdmit(s)
  BY <1>1, <1>4, <1>18 DEF ArchiveAdmit, At, Grants
<1>19. CASE ArchiveInsert(s) \/ ArchiveConfirm(s) \/ ArchiveUnlink(s)
  BY <1>1, <1>2, <1>4, <1>19 DEF ArchiveInsert, ArchiveConfirm, ArchiveUnlink
<1> QED
  BY <1>6, <1>7, <1>8, <1>9, <1>10, <1>11, <1>12, <1>13, <1>14, <1>15, <1>16, <1>17,
     <1>18, <1>19 DEF Proceed

\* Whoever writes is at the end of what it was granted.
LEMMA WriteIsLast ==
    ASSUME Consistent, NEW s \in Slots, Proceed(s), DataWrite(s)
    PROVE  Grants(req'[s]) = {}
<1>1. \A res : Reply(s, res) => req'[s].pc = "done"
  BY BecomeMoves, AnsweredFields DEF Reply, Consistent
<1>2. Goto(s, "confirm") => req'[s].pc = "confirm"
  BY BecomeMoves, PcMoves DEF Goto, Moves, Consistent
<1>3. DataWrite(s) => Grants(req[s]) # {} \/ req[s].kind \in {"review", "complete"}
  BY DEF DataWrite, EvidenceWrite, LedgerWrite, EditWrite, CloseWrite, AddEvidenceInsert,
         UpdateEvidenceWrite, ArchiveEvidenceWrite, CompleteWrite, ReviewInsert,
         AssessInsert, DossierInsert, ArchiveInsert, At, Grants
<1>4. req'[s].kind = req[s].kind
  BY ProceedMoves DEF Consistent
<1> QED
  BY <1>3, <1>4, AdmissionLooks DEF Grants

\* The tables decide what is closed, on file and attested.
LEMMA ClosingKept ==
    ASSUME opp' = opp, evid' = evid, assessments' = assessments, dossiers' = dossiers,
           archives' = archives
    PROVE  Closed' = Closed /\ OnFile' = OnFile /\ AttestedOf' = AttestedOf
  BY DEF Closed, OnFile, AttestedOf, OfOpp

LEMMA UntouchedOnFile ==
    ASSUME NEW x \in Opps, Untouched(x)
    PROVE  OnFile'[x] = OnFile[x] /\ AttestedOf'[x] = AttestedOf[x]
<1>1. /\ {y \in Evidence : evid'[y].opp = x} = {y \in Evidence : evid[y].opp = x}
      /\ \A e \in {y \in Evidence : evid[y].opp = x} : evid'[e] = evid[e]
  BY DEF Untouched
<1>2. [e \in {y \in Evidence : evid'[y].opp = x} |-> evid'[e]]
        = [e \in {y \in Evidence : evid[y].opp = x} |-> evid[e]]
  BY <1>1
<1>3. /\ [a \in OfOpp(assessments', x) |-> assessments'[a]]
           = [a \in OfOpp(assessments, x) |-> assessments[a]]
      /\ [d \in OfOpp(dossiers', x) |-> dossiers'[d]]
           = [d \in OfOpp(dossiers, x) |-> dossiers[d]]
  BY DEF Untouched, SameRows
<1>4. OnFile'[x] = OnFile[x]
  BY <1>2, <1>3 DEF OnFile, Untouched
<1>5. {archives'[i].prov : i \in OfOpp(archives', x)}
        = {archives[i].prov : i \in OfOpp(archives, x)}
  BY DEF Untouched, SameRows
<1> QED
  BY <1>4, <1>5 DEF AttestedOf

\* An opportunity has one archive at most.
OneArchive ==
    \A i, j \in DOMAIN archives : archives[i].opp = archives[j].opp => i = j

LEMMA ArchiveRows ==
    ASSUME Consistent, NEW s \in Slots, DataWrite(s)
    PROVE  \/ archives' = archives
           \/ /\ req[s].kind = "archive" /\ OfOpp(archives, req[s].opp) = {}
              /\ DOMAIN archives' = DOMAIN archives \cup {Len(archives) + 1}
              /\ Len(archives) + 1 \notin DOMAIN archives
              /\ \A i \in DOMAIN archives : archives'[i] = archives[i]
              /\ archives'[Len(archives) + 1].opp = req[s].opp
<1>1. CASE ArchiveInsert(s) /\ InsertArchive(NewArchive(s), req[s].id)
  <2> PICK row : row = NewArchive(s)
    OBVIOUS
  <2>1. /\ row \in ArchiveRow /\ archives \in Seq(ArchiveRow)
        /\ row.opp = req[s].opp
    BY <1>1, NewRows DEF ArchiveInsert, Consistent, TypeOK, StoreTypeOK, NewArchive
  <2>2. /\ archives' = Append(archives, row) /\ req[s].kind = "archive"
        /\ OfOpp(archives, req[s].opp) = {}
    <3>1. InsertArchive(row, req[s].id)
      BY <1>1
    <3> QED
      BY <1>1, <2>1, <3>1 DEF InsertArchive, NoCurrentArchive, ArchiveInsert, At
  <2>3. /\ DOMAIN archives' = DOMAIN archives \cup {Len(archives) + 1}
        /\ Len(archives) + 1 \notin DOMAIN archives
        /\ \A i \in DOMAIN archives : archives'[i] = archives[i]
        /\ archives'[Len(archives) + 1] = row
    BY <2>1, <2>2, AppendRow
  <2> QED
    BY <2>1, <2>2, <2>3
<1>2. CASE ~(ArchiveInsert(s) /\ InsertArchive(NewArchive(s), req[s].id))
  BY <1>2 DEF DataWrite, EvidenceWrite, LedgerWrite, EditWrite, CloseWrite,
         UpdateEvidenceWrite, ArchiveEvidenceWrite, CompleteWrite, UpdateOpportunity,
         ArchiveOpportunity, InsertEvidence, UpdateEvidence, ArchiveEvidence,
         CompleteReview, InsertReview, InsertAssessment, InsertDossier
<1> QED
  BY <1>1, <1>2

LEMMA NextOneArchive ==
    ASSUME Consistent, OneArchive, [Next]_vars
    PROVE  OneArchive'
<1>1. CASE archives' = archives
  BY <1>1 DEF OneArchive
<1>2. ASSUME NEW s \in Slots, DataWrite(s), archives' # archives
      PROVE  OneArchive'
  <2>1. /\ OfOpp(archives, req[s].opp) = {}
        /\ DOMAIN archives' = DOMAIN archives \cup {Len(archives) + 1}
        /\ \A i \in DOMAIN archives : archives'[i] = archives[i]
        /\ archives'[Len(archives) + 1].opp = req[s].opp
        /\ Len(archives) + 1 \notin DOMAIN archives
    BY <1>2, ArchiveRows
  <2> QED
    BY <2>1 DEF OneArchive, OfOpp
<1> QED
  BY <1>1, <1>2, StepWrites DEF DataKept

\* Rows are numbered from one.
LEMMA RowTypes ==
    ASSUME Consistent
    PROVE  /\ 0 \notin DOMAIN reviews /\ 0 \notin DOMAIN assessments
           /\ 0 \notin DOMAIN dossiers
           /\ \A i \in DOMAIN archives : archives[i].opp \in Opps
<1>1. /\ reviews \in Seq(ReviewRow) /\ assessments \in Seq(AssessmentRow)
      /\ dossiers \in Seq(DossierRow) /\ archives \in Seq(ArchiveRow)
  BY DEF Consistent, TypeOK, StoreTypeOK
<1>2. \A i \in DOMAIN archives : archives[i] \in ArchiveRow
  BY <1>1
<1> QED
  BY <1>1, <1>2, LenProperties DEF ArchiveRow

LEMMA RowTypesThen ==
    ASSUME Consistent'
    PROVE  \A i \in DOMAIN archives' : archives'[i].opp \in Opps
<1>1. archives' \in Seq(ArchiveRow)
  BY DEF Consistent, TypeOK, StoreTypeOK
<1>2. \A i \in DOMAIN archives' : archives'[i] \in ArchiveRow
  BY <1>1
<1> QED
  BY <1>2 DEF ArchiveRow

\* A write of a request is a write of Closure.
LEMMA WriteCloses ==
    ASSUME Consistent, Consistent', Home, OneArchive', NEW s \in Slots, [Next]_vars,
           Proceed(s), DataWrite(s)
    PROVE  Closing!Write(s) \/ UNCHANGED Closing!vars
<1> PICK o \in Opps : o = req[s].opp
  BY WriterTypes
<1>1. /\ \A t \in Slots \ {s} : req'[t] = req[t]
      /\ Grants(req'[s]) = {} /\ EvidenceStays /\ req[s].pc \in {"write", "insert"}
      /\ \A x \in Opps \ {o} : Untouched(x)
  BY ProceedMoves, WriteIsLast, StepKeepsEvidence, WriterTypes, WritesAtHome DEF Consistent
<1>2. AdmittedTo' = [AdmittedTo EXCEPT ![s] = {}]
  BY <1>1, AdmittedIsGranted, GrantedThen
<1>3. CASE req[s].kind \in {"review", "complete"}
  <2>1. UNCHANGED <<opp, evid, assessments, dossiers, archives>>
    BY <1>3 DEF DataWrite, EvidenceWrite, LedgerWrite, EditWrite, CloseWrite,
                AddEvidenceInsert, UpdateEvidenceWrite, ArchiveEvidenceWrite, CompleteWrite,
                ReviewInsert, AssessInsert, DossierInsert, ArchiveInsert, CompleteReview,
                InsertReview, At
  <2>2. AdmittedTo' = AdmittedTo
    BY <1>2, <1>3, AdmittedIsGranted DEF Grants
  <2> QED
    BY <2>1, <2>2, ClosingKept DEF Closing!vars
<1>4. CASE req[s].kind \notin {"review", "complete"}
  <2>1. /\ o \in AdmittedTo[s]
        /\ req[s].kind \in {"updateEvidence", "archiveEvidence"} => req[s].item \in AdmittedTo[s]
    BY <1>1, <1>4, AdmittedIsGranted DEF Grants
  <2>2. Closed \subseteq Closed'
    BY <1>1, OpportunityRows DEF Closed, EvidenceStays
  <2>3. ASSUME NEW x \in Closed \ AdmittedTo[s]
        PROVE  OnFile'[x] = OnFile[x]
    <3>1. CASE x \in Opps
      BY <1>1, <2>1, <3>1, UntouchedOnFile
    <3>2. CASE x \in Evidence
      <4>1. x \notin Opps /\ evid[x].archived
        BY <3>2, StoreAssumption DEF Closed
      <4>2. evid'[x] = evid[x]
        <5>1. CASE ~EvidenceWrite(s)
          BY <5>1 DEF DataWrite, LedgerWrite, EditWrite, CloseWrite, CompleteWrite,
                      UpdateOpportunity, ArchiveOpportunity, CompleteReview, InsertReview,
                      InsertAssessment, InsertDossier, InsertArchive
        <5>2. CASE EvidenceWrite(s)
          <6>1. /\ \A e \in Evidence \ {req[s].item} : evid'[e] = evid[e]
                /\ req[s].kind = "addEvidence" => evid[req[s].item].opp = NoOpp
            BY <5>2, EvidenceRows
          <6>2. req[s].kind \in {"addEvidence", "updateEvidence", "archiveEvidence"}
            BY <5>2 DEF EvidenceWrite, AddEvidenceInsert, UpdateEvidenceWrite,
                        ArchiveEvidenceWrite, At
          <6>3. req[s].kind = "addEvidence" => x # req[s].item
            BY <3>2, <4>1, <6>1 DEF Home, FreshEvidence
          <6> QED
            BY <2>1, <2>3, <3>2, <6>1, <6>2, <6>3
        <5> QED
          BY <5>1, <5>2
      <4> QED
        BY <3>2, <4>1, <4>2 DEF OnFile
    <3> QED
      BY <3>1, <3>2 DEF Closed
  <2>4. ASSUME NEW x \in Opps \cup Evidence, AttestedOf'[x] # AttestedOf[x]
        PROVE  AttestedOf[x] = {} /\ x \in AdmittedTo[s] \cap Closed'
    <3>1. archives' # archives
      BY <2>4 DEF AttestedOf, OfOpp
    <3>2. x \in Opps
      <4>1. \A e \in Evidence : OfOpp(archives, e) = {} /\ OfOpp(archives, e)' = {}
        BY StoreAssumption, RowTypes, RowTypesThen DEF OfOpp
      <4> QED
        BY <2>4, <4>1 DEF AttestedOf
    <3>3. x = o
      BY <1>1, <2>4, <3>2, UntouchedOnFile
    <3>4. req[s].kind = "archive" /\ OfOpp(archives, o) = {}
      BY <3>1, ArchiveRows
    <3>5. opp'[o].archived
      BY <3>4, OpportunityRows
    <3> QED
      BY <2>1, <3>3, <3>4, <3>5 DEF AttestedOf, Closed
  <2>5. \A x \in Opps \cup Evidence : \A one, other \in AttestedOf'[x] : one = other
    BY DEF AttestedOf, OneArchive, OfOpp
  <2> QED
    BY <1>2, <2>2, <2>3, <2>4, <2>5 DEF Closing!Write
<1> QED
  BY <1>3, <1>4

LEMMA NoGrant ==
    ASSUME NEW j, j.pc \notin {"write", "insert"}
    PROVE  Grants(j) = {}
  BY DEF Grants

\* A read of a handler admits it to records that are open, or brings it no
\* further.
LEMMA ReadCloses ==
    ASSUME Consistent, OneArchive, NEW s \in Slots, Proceed(s), DataKept
    PROVE  Closing!Next
<1>1. /\ Closed' = Closed /\ OnFile' = OnFile /\ AttestedOf' = AttestedOf
      /\ \A t \in Slots \ {s} : req'[t] = req[t]
      /\ req[s].pc \in Steps /\ JobRefs(req[s], reviews, assessments, dossiers)
  BY ClosingKept, ProceedMoves DEF DataKept, Consistent, RequestRefs
<1>2. AdmittedTo' = [AdmittedTo EXCEPT ![s] = Grants(req'[s])]
  BY <1>1, AdmittedIsGranted, GrantedThen
<1>3. CASE Grants(req'[s]) = {}
  <2>1. \A x \in Opps \cup Evidence : \A one, other \in AttestedOf'[x] : one = other
    BY <1>1 DEF AttestedOf, OneArchive, OfOpp
  <2> QED
    BY <1>1, <1>2, <1>3, <2>1 DEF Closing!Next, Closing!Write
<1>4. CASE Grants(req'[s]) # {}
  <2>1. /\ Grants(req[s]) = {} /\ ~opp[req[s].opp].archived
        /\ req[s].kind \in {"updateEvidence", "archiveEvidence"} =>
              ~evid[req[s].item].archived
    BY <1>4, AdmissionLooks DEF Archived
  <2>2. /\ req'[s].kind = req[s].kind /\ req'[s].opp = req[s].opp
        /\ req'[s].item = req[s].item
    BY ProceedForward DEF Consistent, Forward, Later, AnswerTo, Sent
  <2>3. /\ req[s].opp \in Opps
        /\ req[s].kind \in {"updateEvidence", "archiveEvidence"} => req[s].item \in Evidence
    BY <1>1 DEF JobRefs
  <2>4. /\ req[s].opp \notin Closed
        /\ req[s].kind \in {"updateEvidence", "archiveEvidence"} => req[s].item \notin Closed
    BY <2>1, <2>3, StoreAssumption DEF Closed
  <2>5. Grants(req'[s]) \in SUBSET ((Opps \cup Evidence) \ Closed)
    BY <2>2, <2>3, <2>4 DEF Grants
  <2>6. AdmittedTo[s] = {}
    BY <2>1, AdmittedIsGranted
  <2> QED
    BY <1>1, <1>2, <2>5, <2>6 DEF Closing!Next, Closing!Admit
<1> QED
  BY <1>3, <1>4

LEMMA StepCloses ==
    ASSUME Consistent, Consistent', Home, OneArchive, OneArchive', [Next]_vars
    PROVE  [Closing!Next]_(Closing!vars)
<1>1. CASE UNCHANGED vars
  <2>1. req' = req /\ DataKept
    BY <1>1 DEF vars, store, DataKept
  <2> QED
    BY <2>1, ClosingKept DEF DataKept, Closing!vars, AdmittedTo, Admitted
<1>2. ASSUME NEW s \in Slots, Arrive(s)
      PROVE  UNCHANGED Closing!vars
  <2>1. DataKept
    BY <1>2, ArriveReads DEF ReadOnly, store, DataKept
  <2>2. /\ req[s].pc = "idle" /\ req'[s].pc \in FirstSteps
        /\ \A t \in Slots \ {s} : req'[t] = req[t]
    BY <1>2, ArriveMoves DEF Consistent
  <2>3. Grants(req[s]) = {} /\ Grants(req'[s]) = {}
    BY <2>2, NoGrant DEF FirstSteps
  <2>4. AdmittedTo' = AdmittedTo
    BY <2>2, <2>3, AdmittedIsGranted, GrantedThen
  <2> QED
    BY <2>1, <2>4, ClosingKept DEF DataKept, Closing!vars
<1>3. CASE Crash
  <2>1. DataKept
    BY <1>3 DEF Crash, store, DataKept
  <2>2. ASSUME NEW t \in Slots
        PROVE  Grants(req'[t]) = {}
    <3>1. req'[t] = IF t \in InFlight
                    THEN [Idle EXCEPT !.kind = req[t].kind, !.pc = "lost"] ELSE req[t]
      BY <1>3 DEF Crash
    <3>2. [Idle EXCEPT !.kind = req[t].kind, !.pc = "lost"].pc = "lost"
      BY DEF Idle
    <3>3. req'[t].pc \notin {"write", "insert"}
      BY <3>1, <3>2 DEF InFlight, Steps
    <3> QED
      BY <3>3, NoGrant
  <2>3. AdmittedTo' = Closing!Nothing
    BY <2>2, GrantedThen DEF Closing!Nothing
  <2> QED
    BY <2>1, <2>3, ClosingKept DEF DataKept, Closing!Next, Closing!Abandon
<1>4. ASSUME NEW s \in Slots, Proceed(s)
      PROVE  [Closing!Next]_(Closing!vars)
  <2>1. CASE DataKept
    BY <1>4, <2>1, ReadCloses
  <2>2. CASE DataWrite(s)
    BY <1>4, <2>2, WriteCloses DEF Closing!Next
  <2> QED
    BY <1>4, <2>1, <2>2, ProceedData
<1> QED
  BY <1>1, <1>2, <1>3, <1>4 DEF Next, Finished

LEMMA InitOpen ==
    ASSUME Init
    PROVE  Closing!Init /\ OneArchive
<1>1. /\ \A o \in Opps : ~opp[o].archived
      /\ \A e \in Evidence : ~evid[e].archived
      /\ archives = <<>>
      /\ req = [s \in Slots |-> Idle]
  BY DEF Init, StoreInit
<1>2. Closed = {}
  BY <1>1 DEF Closed
<1>3. \A i : i \notin DOMAIN archives
  BY <1>1
<1>4. AttestedOf = [x \in Opps \cup Evidence |-> {}]
  <2>1. \A x \in Opps \cup Evidence : OfOpp(archives, x) = {}
    BY <1>3 DEF OfOpp
  <2> QED
    BY <2>1 DEF AttestedOf
<1>5. AdmittedTo = Closing!Nothing
  <2>1. Grants(Idle) = {}
    BY NoGrant DEF Idle
  <2> QED
    BY <1>1, <2>1, AdmittedIsGranted DEF Closing!Nothing
<1> QED
  BY <1>2, <1>3, <1>4, <1>5 DEF Closing!Init, OneArchive

LEMMA InitCloses == Init => Consistent /\ Home /\ OneArchive /\ Closing!Init
  BY InitConsistent, InitHome, InitOpen

LEMMA NextCloses ==
    Consistent /\ Home /\ OneArchive /\ [Next]_vars =>
        Consistent' /\ Home' /\ OneArchive' /\ [Closing!Next]_(Closing!vars)
  BY NextConsistent, NextHome, NextOneArchive, StepCloses

\* However requests overlap, closing keeps its promise: what is closed changes
\* only by the one write of each request that looked at the archived flags
\* while it was open, and is attested to once (repository.py create_archive,
\* archive_opportunity and the guards of the other writes).
THEOREM ClosureImplemented == Spec => ImplementsClosure
  BY InitCloses, NextCloses, PTL DEF Spec, ImplementsClosure, Closing!Spec

\* What no handler is about to write and is closed is final: every request that
\* looks at the archived flags later finds them set.
THEOREM ClosedIsSettled == Spec => Closing!ClosedSettles
<1>1. [Closing!Next]_(Closing!vars) =>
         [\A r \in Closed :
             /\ r \in Closed'
             /\ Closing!Pending(r)' => Closing!Pending(r)
             /\ ~Closing!Pending(r) => OnFile'[r] = OnFile[r]]_(Closing!vars)
  <2> SUFFICES ASSUME Closing!Next, NEW r \in Closed
               PROVE  /\ r \in Closed'
                      /\ Closing!Pending(r)' => Closing!Pending(r)
                      /\ ~Closing!Pending(r) => OnFile'[r] = OnFile[r]
    OBVIOUS
  <2>0. DOMAIN AdmittedTo = Slots
    BY DEF AdmittedTo
  <2>1. CASE Closing!Abandon
    BY <2>1 DEF Closing!Abandon, Closing!Nothing, Closing!Pending
  <2>2. ASSUME NEW s \in Slots, Closing!Admit(s)
        PROVE  /\ r \in Closed' /\ OnFile'[r] = OnFile[r]
               /\ Closing!Pending(r)' => Closing!Pending(r)
    BY <2>0, <2>2 DEF Closing!Admit, Closing!Pending
  <2>3. ASSUME NEW s \in Slots, Closing!Write(s)
        PROVE  /\ r \in Closed'
               /\ Closing!Pending(r)' => Closing!Pending(r)
               /\ ~Closing!Pending(r) => OnFile'[r] = OnFile[r]
    BY <2>0, <2>3 DEF Closing!Write, Closing!Pending
  <2> QED
    BY <2>1, <2>2, <2>3 DEF Closing!Next
<1> QED
  BY <1>1, InitCloses, NextCloses, PTL DEF Spec, Closing!ClosedSettles

\* However archive requests race, an opportunity is archived once, it is closed
\* by then, and what its archive attests to never changes.
THEOREM AttestedOnceOnly == Spec => []Closing!AttestedOnce
<1>1. Closing!Init => Closing!AttestedOnce
  BY DEF Closing!Init, Closing!AttestedOnce
<1>2. Closing!AttestedOnce /\ [Closing!Next]_(Closing!vars) => Closing!AttestedOnce'
  <2> SUFFICES ASSUME Closing!AttestedOnce, Closing!Next \/ UNCHANGED Closing!vars
               PROVE  Closing!AttestedOnce'
    OBVIOUS
  <2>1. CASE AttestedOf' = AttestedOf /\ Closed' = Closed
    BY <2>1 DEF Closing!AttestedOnce
  <2>2. ASSUME NEW s \in Slots, Closing!Write(s)
        PROVE  Closing!AttestedOnce'
    BY <2>2 DEF Closing!AttestedOnce, Closing!Write
  <2> QED
    BY <2>1, <2>2 DEF Closing!Next, Closing!Abandon, Closing!Admit, Closing!vars
<1> QED
  BY <1>1, <1>2, InitCloses, NextCloses, PTL DEF Spec

-----------------------------------------------------------------------------
(* Requests that met.                                                      *)

MetOnce ==
    /\ Meeting \subseteq met
    /\ met \subseteq Slots \X Slots
    /\ \A s, t \in Slots : <<s, t>> \in met => <<t, s>> \in met

LEMMA Meet ==
    ASSUME MetOnce, NEW s \in Slots, NEW t \in Slots, s # t, req[s].pc \in Steps,
           req[t].pc \in Steps, req[s].opp = req[t].opp
    PROVE  <<s, t>> \in met /\ <<t, s>> \in met
  BY DEF MetOnce, Meeting, Together, InFlight

LEMMA InitMet == OInit => MetOnce
<1> SUFFICES ASSUME OInit
             PROVE  MetOnce
  OBVIOUS
<1>1. \A s \in Slots : req[s].pc \notin Steps
  BY IdleTyped DEF OInit, Init
<1> QED
  BY <1>1 DEF OInit, MetOnce, Meeting, Together, InFlight

LEMMA NextMet ==
    ASSUME MetOnce, [ONext]_ovars
    PROVE  MetOnce' /\ met \subseteq met' /\ [Next]_vars
<1>1. CASE UNCHANGED ovars
  BY <1>1 DEF ovars, vars, MetOnce, Meeting, Together, InFlight
<1>2. CASE ONext
  <2>1. \A s, t \in Slots : <<s, t>> \in Meeting' => <<t, s>> \in Meeting'
    BY DEF Meeting, Together
  <2>2. Meeting' \subseteq Slots \X Slots
    BY DEF Meeting
  <2> QED
    BY <1>2, <2>1, <2>2 DEF ONext, MetOnce
<1> QED
  BY <1>1, <1>2

-----------------------------------------------------------------------------
(* Requests that compare.                                                  *)

\* The revision the If-Match of a request is about.
RevIn(O, E, j) == IF j.kind = "edit" THEN O[j.opp].rev ELSE E[j.item].rev

\* A conditional request concerns what exists, expects a revision that was
\* reached, and has passed it when it succeeded.
Comparing(j) ==
    j.kind \in {"edit", "updateEvidence"} =>
        /\ j.res = "ok" => j.pc = "done"
        /\ j.pc \in Steps \/ j.res = "ok" =>
              /\ j.opp \in Opps
              /\ j.kind = "updateEvidence" => j.item \in Evidence
              /\ j.expect \in Nat
              /\ j.expect <= RevIn(opp, evid, j)
        /\ j.res = "ok" /\ j.expect # 0 => j.expect < RevIn(opp, evid, j)

\* Two requests with the same If-Match on the same record.
Rivals(j, k) ==
    /\ j.kind = k.kind /\ j.kind \in {"edit", "updateEvidence"}
    /\ j.opp = k.opp /\ j.item = k.item
    /\ j.expect # 0 /\ j.expect = k.expect

Compared ==
    /\ \A s \in Slots : Comparing(req[s])
    /\ \A s, t \in Slots :
          /\ s # t /\ Rivals(req[s], req[t]) /\ req[t].res = "ok"
          /\ req[s].pc = "write" \/ req[s].res = "ok"
          => <<s, t>> \in met

LEMMA RevisionsGrow ==
    ASSUME Consistent, Home, [Next]_vars
    PROVE  /\ \A o \in Opps : opp[o].rev <= opp'[o].rev
           /\ \A o \in Opps : opp[o].rev \in Nat /\ opp'[o].rev \in Nat
           /\ \A e \in Evidence : evid[e].rev <= evid'[e].rev
           /\ \A e \in Evidence : evid[e].rev \in Nat /\ evid'[e].rev \in Nat
<1>1. /\ \A o \in Opps : opp[o].rev \in Nat
      /\ \A e \in Evidence : evid[e].rev \in Nat
  BY DEF Consistent, TypeOK, StoreTypeOK, OppRow, EvidRow
<1>2. Consistent'
  BY NextConsistent
<1>3. /\ \A o \in Opps : opp'[o].rev \in Nat
      /\ \A e \in Evidence : evid'[e].rev \in Nat
  BY <1>2 DEF Consistent, TypeOK, StoreTypeOK, OppRow, EvidRow
<1>4. ASSUME NEW o \in Opps
      PROVE  opp[o].rev <= opp'[o].rev
  <2>1. CASE opp' = opp
    BY <1>1, <2>1
  <2>2. ASSUME NEW s \in Slots, DataWrite(s)
        PROVE  opp[o].rev <= opp'[o].rev
    BY <1>1, <2>2, OpportunityRows
  <2> QED
    BY <2>1, <2>2, StepWrites DEF DataKept
<1> QED
  BY <1>1, <1>3, <1>4, StepKeepsEvidence DEF EvidenceStays

\* The steps of a conditional request.
LEMMA ConditionalSteps ==
    ASSUME Consistent, Home, NEW s \in Slots, Proceed(s),
           req[s].kind \in {"edit", "updateEvidence"}
    PROVE  /\ \/ /\ req[s].pc = "check" /\ req'[s].pc = "write" /\ DataKept
                 /\ req'[s].res = req[s].res
                 /\ req[s].expect # 0 => req[s].expect = RevIn(opp, evid, req[s])
              \/ req'[s].pc = "done" /\ req'[s].res = "refused" /\ DataKept
              \/ /\ req[s].pc = "write" /\ req'[s].pc = "done" /\ req'[s].res = "ok"
                 /\ RevIn(opp, evid, req[s]) < RevIn(opp', evid', req[s])
           /\ req'[s].kind = req[s].kind /\ req'[s].opp = req[s].opp
           /\ req'[s].item = req[s].item /\ req'[s].expect = req[s].expect
<1>1. /\ req'[s].kind = req[s].kind /\ req'[s].opp = req[s].opp
      /\ req'[s].item = req[s].item /\ req'[s].expect = req[s].expect
  BY ProceedForward DEF Consistent, Forward, Later, AnswerTo, Sent
<1>2. Reply(s, "refused") => req'[s].pc = "done" /\ req'[s].res = "refused"
  BY BecomeMoves, AnsweredFields DEF Reply, Consistent
<1>3. Reply(s, "ok") => req'[s].pc = "done" /\ req'[s].res = "ok"
  BY BecomeMoves, AnsweredFields DEF Reply, Consistent
<1>4. Goto(s, "write") => req'[s].pc = "write" /\ req'[s].res = req[s].res
  <2>1. req[s] \in Request
    BY DEF Consistent, TypeOK
  <2>2. /\ [req[s] EXCEPT !.pc = "write"].pc = "write"
        /\ [req[s] EXCEPT !.pc = "write"].res = req[s].res
    BY <2>1 DEF Request
  <2> QED
    BY <2>2, BecomeMoves DEF Goto, Consistent
<1>5. ReadOnly => DataKept
  BY DEF ReadOnly, store, DataKept
<1>6. CASE EditCheck(s)
  <2>1. ~Conflict(req[s].expect, opp[req[s].opp].rev) =>
           (req[s].expect # 0 => req[s].expect = opp[req[s].opp].rev)
    BY DEF Conflict
  <2>2. /\ req[s].pc = "check" /\ req[s].kind = "edit" /\ DataKept
        /\ \/ Reply(s, "refused")
           \/ Goto(s, "write") /\ ~Conflict(req[s].expect, opp[req[s].opp].rev)
    BY <1>5, <1>6 DEF EditCheck, At
  <2> QED
    BY <1>1, <1>2, <1>4, <2>1, <2>2 DEF RevIn
<1>7. CASE UpdateEvidenceCheck(s)
  <2>1. ~Conflict(req[s].expect, evid[req[s].item].rev) =>
           (req[s].expect # 0 => req[s].expect = evid[req[s].item].rev)
    BY DEF Conflict
  <2>2. /\ req[s].pc = "check" /\ req[s].kind = "updateEvidence" /\ DataKept
        /\ \/ Reply(s, "refused")
           \/ Goto(s, "write") /\ ~Conflict(req[s].expect, evid[req[s].item].rev)
    BY <1>5, <1>7 DEF UpdateEvidenceCheck, At
  <2> QED
    BY <1>1, <1>2, <1>4, <2>1, <2>2 DEF RevIn
<1>8. CASE EditWrite(s)
  <2>1. DataWrite(s) /\ req[s].kind = "edit" /\ req[s].pc = "write" /\ Reply(s, "ok")
    BY <1>8 DEF DataWrite, EditWrite, At
  <2> QED
    BY <1>1, <1>3, <2>1, OpportunityRows DEF RevIn
<1>9. CASE UpdateEvidenceWrite(s)
  <2>1. /\ EvidenceWrite(s) /\ req[s].kind = "updateEvidence" /\ req[s].pc = "write"
        /\ Reply(s, "ok")
    BY <1>9 DEF EvidenceWrite, UpdateEvidenceWrite, At
  <2>2. req[s].item \in Evidence
    BY <2>1, WriterTypes DEF DataWrite
  <2>3. evid[req[s].item].rev \in Nat
    BY <2>2 DEF Consistent, TypeOK, StoreTypeOK, EvidRow
  <2>4. evid[req[s].item].rev + 1 = evid'[req[s].item].rev
    BY <2>1, EvidenceRows
  <2> QED
    BY <1>1, <1>3, <2>1, <2>3, <2>4 DEF RevIn
<1>10. EditCheck(s) \/ EditWrite(s) \/ UpdateEvidenceCheck(s) \/ UpdateEvidenceWrite(s)
  BY DEF Proceed, At, CloseCheck, CloseWrite, AddEvidenceCheck, AddEvidenceInsert,
         ArchiveEvidenceCheck, ArchiveEvidenceWrite, ReviewInputs, ReviewAdmit, ReviewInsert,
         CompleteCheck, CompleteWrite, AssessReady, AssessInputs, AssessRank, LegacyRank,
         AssessAdmit, AssessInsert, DossierReady, DossierFind, DossierStage, DossierRank,
         DossierInsert, ArchiveReady, ArchiveStage, ArchiveLink, ArchiveTidy, ArchiveAdmit,
         ArchiveInsert, ArchiveConfirm, ArchiveUnlink
<1> QED
  BY <1>6, <1>7, <1>8, <1>9, <1>10

LEMMA ComparingGoesOn ==
    ASSUME Consistent, Home, [Next]_vars, NEW s \in Slots, Comparing(req[s])
    PROVE  Comparing(req[s])'
<1>1. TypeOK /\ Consistent'
  BY NextConsistent DEF Consistent
<1> PICK j, k : j = req[s] /\ k = req'[s]
  OBVIOUS
<1>2. k \in Request /\ JobRefs(k, reviews', assessments', dossiers')
  BY <1>1 DEF Consistent, TypeOK, RequestRefs
<1>3. SUFFICES ASSUME k.kind \in {"edit", "updateEvidence"}
               PROVE  /\ k.res = "ok" => k.pc = "done"
                      /\ k.pc \in Steps \/ k.res = "ok" =>
                            /\ k.opp \in Opps
                            /\ k.kind = "updateEvidence" => k.item \in Evidence
                            /\ k.expect \in Nat
                            /\ k.expect <= RevIn(opp', evid', k)
                      /\ k.res = "ok" /\ k.expect # 0 => k.expect < RevIn(opp', evid', k)
  BY DEF Comparing
<1>4. k.expect \in Nat
  BY <1>2 DEF Request
<1>5. k.pc \in Steps => k.opp \in Opps /\ (k.kind = "updateEvidence" => k.item \in Evidence)
  BY <1>2 DEF JobRefs
<1>6. ASSUME NEW i, i.kind \in {"edit", "updateEvidence"}, i.opp \in Opps,
             i.kind = "updateEvidence" => i.item \in Evidence
      PROVE  /\ RevIn(opp, evid, i) \in Nat /\ RevIn(opp', evid', i) \in Nat
             /\ RevIn(opp, evid, i) <= RevIn(opp', evid', i)
  BY <1>6, RevisionsGrow DEF RevIn
<1>7. CASE k = j
  BY <1>3, <1>6, <1>7 DEF Comparing
<1>8. CASE k.pc = "lost" /\ k.res = "none"
  BY <1>8 DEF Steps
<1>9. CASE j.pc = "idle" /\ Starts(k) /\ DataKept
  <2>1. k.res = "none" /\ k.pc \in Steps /\ k.expect \in Expected(RevIn(opp, evid, k))
    BY <1>3, <1>9 DEF Starts, FirstSteps, Steps, RevIn
  <2>2. k.expect <= RevIn(opp', evid', k)
    BY <1>3, <1>5, <1>6, <1>9, <2>1 DEF Expected, DataKept
  <2> QED
    BY <1>4, <1>5, <2>1, <2>2
<1>10. CASE Proceed(s)
  <2>1. /\ \/ /\ j.pc = "check" /\ k.pc = "write" /\ k.res = j.res
           \/ k.pc = "done" /\ k.res = "refused"
           \/ /\ j.pc = "write" /\ k.pc = "done" /\ k.res = "ok"
              /\ RevIn(opp, evid, j) < RevIn(opp', evid', j)
        /\ k.kind = j.kind /\ k.opp = j.opp /\ k.item = j.item /\ k.expect = j.expect
    <3>1. j.kind = k.kind
      BY <1>1, <1>10, ProceedMoves
    <3> QED
      BY <1>3, <1>10, <3>1, ConditionalSteps
  <2>2. RevIn(opp', evid', k) = RevIn(opp', evid', j)
    BY <2>1 DEF RevIn
  <2>3. j.pc \in Steps
    BY <1>1, <1>10, ProceedMoves
  <2>4. /\ j.opp \in Opps /\ (j.kind = "updateEvidence" => j.item \in Evidence)
        /\ j.expect \in Nat /\ j.expect <= RevIn(opp, evid, j)
        /\ j.res = "ok" => j.pc = "done"
    BY <1>3, <2>1, <2>3 DEF Comparing
  <2>5. /\ RevIn(opp, evid, j) \in Nat /\ RevIn(opp', evid', j) \in Nat
        /\ RevIn(opp, evid, j) <= RevIn(opp', evid', j)
    BY <1>3, <1>6, <2>1, <2>4
  <2> HIDE DEF RevIn
  <2> QED
    BY <1>4, <2>1, <2>2, <2>4, <2>5, Words DEF Steps
<1> QED
  BY <1>1, <1>7, <1>8, <1>9, <1>10, RequestSteps

LEMMA NextCompared ==
    ASSUME Consistent, Home, MetOnce, Compared, [ONext]_ovars
    PROVE  Compared'
<1>1. TypeOK /\ [Next]_vars /\ met \subseteq met'
  BY NextMet DEF Consistent
<1>2. ASSUME NEW s \in Slots
      PROVE  Comparing(req[s])'
  BY <1>1, <1>2, ComparingGoesOn DEF Compared
<1>3. ASSUME NEW s \in Slots, NEW t \in Slots, s # t, Rivals(req'[s], req'[t]),
             req'[t].res = "ok", req'[s].pc = "write" \/ req'[s].res = "ok"
      PROVE  <<s, t>> \in met
  <2>0. Comparing(req[s]) /\ Comparing(req[t])
    BY DEF Compared
  <2>1. CASE req'[s] = req[s] /\ req'[t] = req[t]
    BY <1>3, <2>1 DEF Compared
  <2>2. CASE Proceed(t)
    <3>1. req'[s] = req[s] /\ req[t].pc \in Steps /\ req'[t].kind = req[t].kind
      BY <1>1, <1>3, <2>2, ProceedMoves
    <3>2. req[t].kind \in {"edit", "updateEvidence"}
      BY <1>3, <3>1 DEF Rivals
    <3>3. /\ req'[t].opp = req[t].opp /\ req'[t].item = req[t].item
          /\ req'[t].expect = req[t].expect
          /\ req[t].pc = "write" \/ req'[t].res = req[t].res
      BY <1>3, <2>2, <3>2, ConditionalSteps
    <3>4. req[t].pc = "write"
      BY <1>3, <2>0, <3>1, <3>2, <3>3, Words DEF Comparing, Steps
    <3>5. Rivals(req[t], req[s]) /\ req[s].opp = req[t].opp
      BY <1>3, <3>1, <3>3 DEF Rivals
    <3>6. CASE req[s].pc = "write"
      BY <1>3, <3>1, <3>5, <3>6, Meet DEF Steps
    <3>7. CASE req[s].res = "ok"
      BY <1>3, <3>4, <3>5, <3>7 DEF Compared, MetOnce
    <3> QED
      BY <1>3, <3>1, <3>6, <3>7
  <2>3. CASE Proceed(s)
    <3>1. req'[t] = req[t] /\ req[s].pc \in Steps /\ req'[s].kind = req[s].kind
      BY <1>1, <1>3, <2>3, ProceedMoves
    <3>2. req[s].kind \in {"edit", "updateEvidence"}
      BY <1>3, <3>1 DEF Rivals
    <3>3. /\ req'[s].opp = req[s].opp /\ req'[s].item = req[s].item
          /\ req'[s].expect = req[s].expect
          /\ \/ req[s].expect # 0 => req[s].expect = RevIn(opp, evid, req[s])
             \/ req'[s].pc = "done" /\ req'[s].res = "refused"
             \/ req[s].pc = "write"
      BY <2>3, <3>2, ConditionalSteps
    <3>4. Rivals(req[s], req[t]) /\ req[t].res = "ok" /\ req[s].expect = req[t].expect
          /\ req[s].expect # 0 /\ RevIn(opp, evid, req[s]) = RevIn(opp, evid, req[t])
      BY <1>3, <3>1, <3>3 DEF Rivals, RevIn
    <3>5. req[s].pc = "write"
      <4>1. req[t].expect < RevIn(opp, evid, req[t]) /\ req[t].expect \in Nat
        BY <2>0, <3>4 DEF Comparing, Rivals
      <4>2. RevIn(opp, evid, req[t]) \in Nat
        <5>1. /\ req[t].opp \in Opps
              /\ req[t].kind = "updateEvidence" => req[t].item \in Evidence
          BY <2>0, <3>4 DEF Comparing, Rivals
        <5> QED
          BY <1>1, <3>4, <5>1, RevisionsGrow DEF RevIn, Rivals
      <4>3. req[s].expect # RevIn(opp, evid, req[s])
        BY <3>4, <4>1, <4>2
      <4> QED
        BY <1>3, <3>3, <3>4, <4>3
    <3> QED
      BY <1>3, <3>4, <3>5 DEF Compared
  <2>4. CASE req'[s].res = "none" /\ req'[s].pc \notin {"write"}
    BY <1>3, <2>4
  <2>5. /\ req'[s] = req[s] \/ (req'[s].res = "none" /\ req'[s].pc \notin {"write"}) \/ Proceed(s)
        /\ req'[t] = req[t] \/ req'[t].res = "none" \/ Proceed(t)
    BY <1>1, <1>3, RequestSteps DEF Starts, FirstSteps
  <2> QED
    BY <1>3, <2>1, <2>2, <2>3, <2>4, <2>5
<1> QED
  BY <1>1, <1>2, <1>3 DEF Compared

LEMMA InitCompared == OInit => Compared
<1>1. Idle.kind = "none"
  BY DEF Idle
<1> QED
  BY <1>1 DEF OInit, Init, Compared, Comparing, Rivals

\* Two requests that name the same revision of the same record in If-Match do
\* not both succeed unless they met: whatever any others do at the same time,
\* the later of two that did not meet reads a revision that moved on.
THEOREM ConditionalWritesExclude == OSpec => []ConditionalWritesExclusive
<1> DEFINE Inv == Consistent /\ Home /\ MetOnce /\ Compared
<1>1. OInit => Inv
  BY InitConsistent, InitHome, InitMet, InitCompared DEF OInit
<1>2. Inv /\ [ONext]_ovars => Inv'
  BY NextMet, NextConsistent, NextHome, NextCompared
<1>3. Inv => ConditionalWritesExclusive
  BY DEF Compared, Rivals, ConditionalWritesExclusive
<1> HIDE DEF Inv
<1> QED
  BY <1>1, <1>2, <1>3, PTL DEF OSpec

-----------------------------------------------------------------------------
(* Reviews that were superseded.                                           *)

\* A request that completed a review was answered; a superseded review is
\* closed; a request that is about to complete one has met the request that
\* superseded it.
Won(j) == j.kind = "complete" /\ j.res = "ok" => j.pc = "done"

Finals ==
    /\ SupersededIsFinal
    /\ \A s \in Slots : Won(req[s])
    /\ \A r, j \in DOMAIN reviews :
          reviews[j].sup = r => reviews[r].status \in {"Superseded", "Completed"}
    /\ \A j \in DOMAIN reviews, t \in Slots :
          At(t, "complete", "write") /\ reviews[j].sup = req[t].target =>
              <<reviews[j].by, t>> \in met

\* The steps of a request that completes a review.
LEMMA CompletingSteps ==
    ASSUME Consistent, NEW s \in Slots, Proceed(s), req[s].kind = "complete"
    PROVE  \/ /\ req'[s].pc = "write" /\ req'[s].target = req[s].target /\ DataKept
              /\ req'[s].res = req[s].res
              /\ reviews[req[s].target].status \in OpenStatuses
           \/ req'[s].pc = "done" /\ DataKept
           \/ /\ CompleteWrite(s)
              /\ req'[s].pc = "done" /\ req'[s].res = "ok" /\ req'[s].kind = "complete"
<1>1. \A res : Reply(s, res) =>
         req'[s].pc = "done" /\ req'[s].res = res /\ req'[s].kind = "complete"
  BY BecomeMoves, AnsweredFields DEF Reply, Consistent
<1>2. Goto(s, "write") => /\ req'[s].pc = "write" /\ req'[s].res = req[s].res
                          /\ req'[s].target = req[s].target
  <2>1. req[s] \in Request
    BY DEF Consistent, TypeOK
  <2>2. /\ [req[s] EXCEPT !.pc = "write"].pc = "write"
        /\ [req[s] EXCEPT !.pc = "write"].res = req[s].res
        /\ [req[s] EXCEPT !.pc = "write"].target = req[s].target
    BY <2>1 DEF Request
  <2> QED
    BY <2>2, BecomeMoves DEF Goto, Consistent
<1>3. ReadOnly => DataKept
  BY DEF ReadOnly, store, DataKept
<1>4. CASE CompleteCheck(s)
  <2>1. \/ Reply(s, "refused") \/ Reply(s, "ok")
        \/ Goto(s, "write") /\ reviews[req[s].target].status \in OpenStatuses
    BY <1>4 DEF CompleteCheck
  <2> QED
    BY <1>1, <1>2, <1>3, <1>4, <2>1 DEF CompleteCheck
<1>5. CASE CompleteWrite(s)
  BY <1>1, <1>5 DEF CompleteWrite
<1>6. CompleteCheck(s) \/ CompleteWrite(s)
  BY DEF Proceed, At, EditCheck, EditWrite, CloseCheck, CloseWrite, AddEvidenceCheck,
         AddEvidenceInsert, UpdateEvidenceCheck, UpdateEvidenceWrite,
         ArchiveEvidenceCheck, ArchiveEvidenceWrite, ReviewInputs, ReviewAdmit, ReviewInsert,
         AssessReady, AssessInputs, AssessRank, LegacyRank, AssessAdmit, AssessInsert,
         DossierReady, DossierFind, DossierStage, DossierRank, DossierInsert,
         ArchiveReady, ArchiveStage, ArchiveLink, ArchiveTidy, ArchiveAdmit,
         ArchiveInsert, ArchiveConfirm, ArchiveUnlink
<1> QED
  BY <1>4, <1>5, <1>6

\* The reviews after one is completed.
LEMMA ReviewCompleted ==
    ASSUME Consistent, NEW s \in Slots, CompleteWrite(s)
    PROVE  /\ DOMAIN reviews' = DOMAIN reviews
           /\ \A r \in DOMAIN reviews :
                 /\ reviews'[r].sup = reviews[r].sup /\ reviews'[r].by = reviews[r].by
                 /\ r # req[s].target => reviews'[r].status = reviews[r].status
                 /\ r = req[s].target => reviews'[r].status = "Completed"
<1>1. reviews \in Seq(ReviewRow) /\ CompleteReview(req[s].target)
  BY DEF Consistent, TypeOK, StoreTypeOK, CompleteWrite
<1>2. Extends(reviews, reviews') /\ DOMAIN reviews' = DOMAIN reviews
  BY <1>1, CompleteReviewExtends DEF CompleteReview
<1>3. ASSUME NEW r \in DOMAIN reviews, r = req[s].target
      PROVE  reviews'[r].status = "Completed"
  <2>1. /\ reviews[r] \in ReviewRow
        /\ reviews'[r] = [reviews[r] EXCEPT !.status = "Completed", !.rev = @ + 1]
    BY <1>1, <1>3 DEF CompleteReview
  <2> QED
    BY <2>1 DEF ReviewRow
<1> QED
  BY <1>1, <1>2, <1>3 DEF Extends, Derivation, CompleteReview

\* The reviews after one is inserted.
LEMMA ReviewInserted ==
    ASSUME Consistent, NEW s \in Slots, ReviewInsert(s), InsertReview(NewReview(s), req[s].id)
    PROVE  LET n == Len(reviews) + 1
           IN  /\ DOMAIN reviews' = DOMAIN reviews \cup {n} /\ n \notin DOMAIN reviews
               /\ n # 0
               /\ \A r \in DOMAIN reviews :
                     /\ reviews'[r].sup = reviews[r].sup /\ reviews'[r].by = reviews[r].by
                     /\ r # req[s].target => reviews'[r].status = reviews[r].status
                     /\ r = req[s].target => reviews'[r].status = "Superseded"
               /\ reviews'[n].sup = req[s].target /\ reviews'[n].by = s
<1> PICK row : row = NewReview(s)
  OBVIOUS
<1> PICK older : older = ClosedBy(row)
  OBVIOUS
<1>1. /\ reviews \in Seq(ReviewRow) /\ row \in ReviewRow /\ row.sup = req[s].target
      /\ row.by = s
  BY NewRows DEF Consistent, TypeOK, StoreTypeOK, ReviewInsert, NewReview
<1>2. Extends(reviews, reviews')
  BY <1>1, InsertReviewExtends
<1>3. /\ older \in Seq(ReviewRow) /\ Len(older) = Len(reviews) /\ Len(reviews) \in Nat
      /\ DOMAIN older = DOMAIN reviews /\ DOMAIN reviews = 1..Len(reviews)
  BY <1>1, ClosedByKeepsRows, LenProperties
<1>4. reviews' = Append(older, row)
  BY DEF InsertReview
<1>5. /\ DOMAIN reviews' = 1..(Len(reviews) + 1)
      /\ \A r \in DOMAIN reviews : reviews'[r] = older[r]
      /\ reviews'[Len(reviews) + 1] = row
  BY <1>1, <1>3, <1>4, AppendRow
<1>6. ASSUME NEW r \in DOMAIN reviews
      PROVE  /\ r # req[s].target => older[r].status = reviews[r].status
             /\ r = req[s].target => older[r].status = "Superseded"
  <2>1. reviews[r] \in ReviewRow
    BY <1>1
  <2>2. /\ r # req[s].target => older[r] = reviews[r]
        /\ r = req[s].target =>
              older[r] = [reviews[r] EXCEPT !.status = "Superseded", !.rev = @ + 1]
    BY <1>1 DEF ClosedBy
  <2> QED
    BY <2>1, <2>2 DEF ReviewRow
<1> QED
  BY <1>1, <1>2, <1>3, <1>5, <1>6 DEF Extends, Derivation

\* Successors are of reviews on file.
LEMMA SuccessorTypes ==
    ASSUME Consistent, NEW j \in DOMAIN reviews
    PROVE  reviews[j].sup # 0 => reviews[j].sup \in DOMAIN reviews
  BY DEF Consistent, ReferentialIntegrity, ReviewRefs, Superseded, OneOf, OfOpp

\* Answered requests stay as they are.
LEMMA WinnersStay ==
    ASSUME TypeOK, [Next]_vars, NEW t \in Slots, Won(req[t])
    PROVE  /\ req[t].kind = "complete" /\ req[t].res = "ok" => req'[t] = req[t]
<1>1. req[t].pc = "done" => ~Proceed(t) /\ ~Arrive(t)
  BY ProceedMoves, ArriveMoves, Words DEF Steps
<1> QED
  BY <1>1, NextMoves, Words DEF Won, Steps

LEMMA NextWon ==
    ASSUME Consistent, [Next]_vars, NEW t \in Slots, Won(req[t])
    PROVE  Won(req'[t])
<1>1. TypeOK
  BY DEF Consistent
<1>2. CASE Proceed(t)
  <2>1. req[t].pc \in Steps /\ req'[t].kind = req[t].kind
    BY <1>1, <1>2, ProceedMoves
  <2> QED
    BY <1>2, <2>1, CompletingSteps DEF Won, Steps
<1> QED
  BY <1>1, <1>2, RequestSteps DEF Won, Starts

\* Who comes to write the completion of a review found it open.
LEMMA CompletionStarts ==
    ASSUME Consistent, [Next]_vars, NEW t \in Slots, At(t, "complete", "write")',
           ~At(t, "complete", "write")
    PROVE  /\ DataKept /\ reviews[req'[t].target].status \in OpenStatuses
<1>1. TypeOK
  BY DEF Consistent
<1>2. Proceed(t)
  BY <1>1, RequestSteps, Words DEF At, Starts, FirstSteps
<1>3. req[t].kind = "complete"
  BY <1>1, <1>2, ProceedMoves DEF At
<1> QED
  BY <1>2, <1>3, CompletingSteps DEF At

LEMMA NextFinals ==
    ASSUME Consistent, MetOnce, Finals, [ONext]_ovars
    PROVE  Finals'
<1>1. TypeOK /\ [Next]_vars /\ met \subseteq met'
  BY NextMet DEF Consistent
<1>2. /\ \A t \in Slots : Won(req'[t])
      /\ \A t \in Slots :
            req[t].kind = "complete" /\ req[t].res = "ok" => req'[t] = req[t]
  BY <1>1, NextWon, WinnersStay DEF Finals
<1>3. ASSUME NEW r, NEW by,
             \E t \in Slots :
                req[t].kind = "complete" /\ req[t].res = "ok" /\ <<by, t>> \in met
      PROVE  \E t \in Slots :
                req'[t].kind = "complete" /\ req'[t].res = "ok" /\ <<by, t>> \in met'
  BY <1>1, <1>2, <1>3
<1>4. CASE reviews' = reviews
  <2>1. SupersededIsFinal'
    BY <1>3, <1>4 DEF Finals, SupersededIsFinal
  <2>2. ASSUME NEW j \in DOMAIN reviews, NEW t \in Slots, At(t, "complete", "write")',
               reviews[j].sup = req'[t].target
        PROVE  <<reviews[j].by, t>> \in met'
    <3>1. CASE At(t, "complete", "write")
      <4>1. req'[t].target = req[t].target
        <5>1. CASE Proceed(t)
          BY <1>1, <2>2, <3>1, <5>1, CompletingSteps DEF At, OpenStatuses, CompleteWrite
        <5>2. CASE ~Proceed(t)
          BY <1>1, <2>2, <3>1, <5>2, RequestSteps, Words DEF At
        <5> QED
          BY <5>1, <5>2
      <4> QED
        BY <1>1, <2>2, <3>1, <4>1 DEF Finals
    <3>2. CASE ~At(t, "complete", "write")
      <4>1. reviews[req'[t].target].status \in OpenStatuses
        BY <1>1, <2>2, <3>2, CompletionStarts
      <4>2. req'[t].target \in DOMAIN reviews
        <5>1. Consistent'
          BY <1>1, NextConsistent
        <5>2. OneOf(reviews', req'[t].opp, req'[t].target)
          BY <2>2, <5>1, Words DEF Consistent, RequestRefs, JobRefs, At
        <5> QED
          BY <1>4, <5>2 DEF OneOf, OfOpp
      <4> QED
        BY <2>2, <4>1, <4>2 DEF Finals, OpenStatuses
    <3> QED
      BY <3>1, <3>2
  <2> QED
    BY <1>2, <1>4, <2>1, <2>2 DEF Finals
<1>5. ASSUME NEW s \in Slots, Proceed(s), CompleteWrite(s)
      PROVE  Finals'
  <2>0. /\ At(s, "complete", "write") /\ s \in Slots /\ Reply(s, "ok")
        /\ \A t \in Slots \ {s} : req'[t] = req[t]
        /\ req'[s].pc = "done" /\ req'[s].res = "ok" /\ req'[s].kind = "complete"
    BY <1>1, <1>5, ProceedMoves, BecomeMoves, AnsweredFields DEF CompleteWrite, At, Reply
  <2>1. /\ DOMAIN reviews' = DOMAIN reviews
        /\ \A r \in DOMAIN reviews :
              /\ reviews'[r].sup = reviews[r].sup /\ reviews'[r].by = reviews[r].by
              /\ r # req[s].target => reviews'[r].status = reviews[r].status
              /\ r = req[s].target => reviews'[r].status = "Completed"
    BY <1>5, ReviewCompleted
  <2>2. SupersededIsFinal'
    <3> SUFFICES ASSUME NEW r \in DOMAIN reviews, NEW j \in DOMAIN reviews,
                        reviews[j].sup = r, reviews'[r].status # "Superseded"
                 PROVE  \E t \in Slots :
                           /\ req'[t].kind = "complete" /\ req'[t].res = "ok"
                           /\ <<reviews[j].by, t>> \in met'
      BY <2>1 DEF SupersededIsFinal
    <3>1. CASE r = req[s].target
      BY <1>1, <2>0, <3>1 DEF Finals
    <3>2. CASE r # req[s].target
      <4>1. \E t \in Slots :
               req[t].kind = "complete" /\ req[t].res = "ok" /\ <<reviews[j].by, t>> \in met
        BY <2>1, <3>2 DEF Finals, SupersededIsFinal
      <4> QED
        BY <1>3, <4>1
    <3> QED
      BY <3>1, <3>2
  <2>3. \A r, j \in DOMAIN reviews' :
           reviews'[j].sup = r => reviews'[r].status \in {"Superseded", "Completed"}
    BY <2>1 DEF Finals
  <2>4. ASSUME NEW j \in DOMAIN reviews', NEW t \in Slots, At(t, "complete", "write")',
               reviews'[j].sup = req'[t].target
        PROVE  <<reviews'[j].by, t>> \in met'
    BY <1>1, <2>0, <2>1, <2>4 DEF Finals, At
  <2> QED
    BY <1>2, <2>2, <2>3, <2>4 DEF Finals
<1>6. ASSUME NEW s \in Slots, Proceed(s), ReviewInsert(s),
             InsertReview(NewReview(s), req[s].id)
      PROVE  Finals'
  <2> PICK n : n = Len(reviews) + 1
    OBVIOUS
  <2>0. /\ At(s, "review", "insert")
        /\ \A t \in Slots \ {s} : req'[t] = req[t]
        /\ req'[s].kind = "review"
    BY <1>1, <1>6, ProceedMoves DEF ReviewInsert, At
  <2>1. /\ DOMAIN reviews' = DOMAIN reviews \cup {n} /\ n \notin DOMAIN reviews /\ n # 0
        /\ \A r \in DOMAIN reviews :
              /\ reviews'[r].sup = reviews[r].sup /\ reviews'[r].by = reviews[r].by
              /\ r # req[s].target => reviews'[r].status = reviews[r].status
              /\ r = req[s].target => reviews'[r].status = "Superseded"
        /\ reviews'[n].sup = req[s].target /\ reviews'[n].by = s
    BY <1>6, ReviewInserted
  <2>2. req[s].target = 0 \/ OneOf(reviews, req[s].opp, req[s].target)
    BY <2>0, Words DEF Consistent, RequestRefs, JobRefs, At
  <2>3. /\ req[s].target # n
        /\ \A j \in DOMAIN reviews : reviews[j].sup # n
    BY <2>1, <2>2, SuccessorTypes DEF OneOf, OfOpp
  <2>4. SupersededIsFinal'
    <3> SUFFICES ASSUME NEW r \in DOMAIN reviews', NEW j \in DOMAIN reviews',
                        reviews'[j].sup = r, reviews'[r].status # "Superseded"
                 PROVE  \E t \in Slots :
                           /\ req'[t].kind = "complete" /\ req'[t].res = "ok"
                           /\ <<reviews'[j].by, t>> \in met'
      BY DEF SupersededIsFinal
    <3>1. r \in DOMAIN reviews /\ j \in DOMAIN reviews /\ r # req[s].target
      BY <2>1, <2>3
    <3>2. \E t \in Slots :
             req[t].kind = "complete" /\ req[t].res = "ok" /\ <<reviews[j].by, t>> \in met
      <4>1. reviews[j].sup = r /\ reviews[r].status # "Superseded"
        BY <2>1, <3>1
      <4> QED
        BY <3>1, <4>1 DEF Finals, SupersededIsFinal
    <3>3. reviews'[j].by = reviews[j].by
      BY <2>1, <3>1
    <3> QED
      BY <1>3, <3>2, <3>3
  <2>5. \A r, j \in DOMAIN reviews' :
           reviews'[j].sup = r => reviews'[r].status \in {"Superseded", "Completed"}
    <3> SUFFICES ASSUME NEW r \in DOMAIN reviews', NEW j \in DOMAIN reviews',
                        reviews'[j].sup = r
                 PROVE  reviews'[r].status \in {"Superseded", "Completed"}
      OBVIOUS
    <3>1. r \in DOMAIN reviews /\ (j = n => r = req[s].target)
      BY <2>1, <2>3
    <3> QED
      BY <2>1, <3>1 DEF Finals
  <2>6. ASSUME NEW j \in DOMAIN reviews', NEW t \in Slots, At(t, "complete", "write")',
               reviews'[j].sup = req'[t].target
        PROVE  <<reviews'[j].by, t>> \in met'
    <3>1. t # s /\ req'[t] = req[t] /\ At(t, "complete", "write")
      BY <2>0, <2>6 DEF At
    <3>2. CASE j \in DOMAIN reviews
      BY <1>1, <2>1, <2>6, <3>1, <3>2 DEF Finals
    <3>3. CASE j = n
      <4>1. OneOf(reviews, req[t].opp, req[t].target) /\ req[t].target = req[s].target
        BY <2>1, <2>6, <3>1, <3>3, Words DEF Consistent, RequestRefs, JobRefs, At
      <4>2. req[s].target # 0
        BY <4>1, RowTypes DEF OneOf, OfOpp
      <4>3. req[s].opp = req[t].opp
        BY <2>2, <4>1, <4>2 DEF OneOf, OfOpp
      <4> QED
        BY <1>1, <2>0, <2>1, <3>1, <3>3, <4>3, Meet, Words DEF At
    <3> QED
      BY <2>1, <3>2, <3>3
  <2> QED
    BY <1>2, <2>4, <2>5, <2>6 DEF Finals
<1>7. ASSUME NEW s \in Slots, DataWrite(s)
      PROVE  \/ reviews' = reviews \/ CompleteWrite(s)
             \/ ReviewInsert(s) /\ InsertReview(NewReview(s), req[s].id)
  BY <1>7 DEF DataWrite, EvidenceWrite, LedgerWrite, EditWrite, CloseWrite, InsertEvidence,
              UpdateEvidenceWrite, ArchiveEvidenceWrite, UpdateOpportunity,
              ArchiveOpportunity, UpdateEvidence, ArchiveEvidence, InsertAssessment,
              InsertDossier, InsertArchive
<1> QED
  BY <1>1, <1>4, <1>5, <1>6, <1>7, StepWrites DEF DataKept

LEMMA InitFinals == OInit => Finals
<1> SUFFICES ASSUME OInit
             PROVE  Finals
  OBVIOUS
<1>1. Consistent
  BY InitConsistent DEF OInit
<1>2. /\ \A r \in DOMAIN reviews : reviews[r].sup = 0
      /\ \A s \in Slots : req[s] = Idle
  BY DEF OInit, Init, StoreInit
<1>3. 0 \notin DOMAIN reviews
  BY <1>1, RowTypes
<1>4. Idle.kind = "none"
  BY DEF Idle
<1> QED
  BY <1>2, <1>3, <1>4 DEF Finals, SupersededIsFinal, Won, At

\* A review that a rerun superseded is active again only when a request that
\* completed it was in flight together with the rerun (complete_knowledge_review
\* checks the status on one connection and updates on another): whatever else
\* overlaps, two requests that follow one another do not do this.
THEOREM SupersededStaysFinal == OSpec => []SupersededIsFinal
<1> DEFINE Inv == Consistent /\ MetOnce /\ Finals
<1>1. OInit => Inv
  BY InitConsistent, InitMet, InitFinals DEF OInit
<1>2. Inv /\ [ONext]_ovars => Inv'
  BY NextMet, NextConsistent, NextFinals
<1>3. Inv => SupersededIsFinal
  BY DEF Finals
<1> HIDE DEF Inv
<1> QED
  BY <1>1, <1>2, <1>3, PTL DEF OSpec

-----------------------------------------------------------------------------
(* What is current of an opportunity that a step leaves alone.             *)

LEMMA TraceKept ==
    ASSUME NEW x \in Opps, Untouched(x)
    PROVE  Trace(x)' = Trace(x)
<1>1. /\ {e \in Evidence : evid'[e].opp = x /\ ~evid'[e].archived}
           = {e \in Evidence : evid[e].opp = x /\ ~evid[e].archived}
      /\ \A e \in {y \in Evidence : evid[y].opp = x /\ ~evid[y].archived} : evid'[e] = evid[e]
  BY DEF Untouched
<1> QED
  BY <1>1 DEF Trace

\* The rows of an opportunity, and those they refer to.
LEMMA RowsOf ==
    ASSUME Consistent, NEW x
    PROVE  /\ \A a \in OfOpp(assessments, x) :
                 assessments[a].kind = "spatial" =>
                     assessments[a].prov.review \in OfOpp(reviews, x)
           /\ \A d \in OfOpp(dossiers, x) :
                 /\ dossiers[d].prov.assess \in OfOpp(assessments, x)
                 /\ dossiers[d].prov.review \in OfOpp(reviews, x)
           /\ \A a \in DOMAIN assessments :
                 assessments[a].sup \in OfOpp(assessments, x) => assessments[a].opp = x
           /\ \A d \in DOMAIN dossiers :
                 dossiers[d].sup \in OfOpp(dossiers, x) => dossiers[d].opp = x
<1>1. 0 \notin DOMAIN assessments /\ 0 \notin DOMAIN dossiers
  BY RowTypes
<1> QED
  BY <1>1 DEF Consistent, ReferentialIntegrity, AssessmentRefs, DossierRefs, Superseded,
              OneOf, OfOpp

LEMMA SuccessorsKept ==
    ASSUME Consistent, Consistent', NEW x \in Opps, Untouched(x)
    PROVE  /\ \A a \in OfOpp(assessments, x) :
                 HasSuccessor(assessments, a)' <=> HasSuccessor(assessments, a)
           /\ \A d \in OfOpp(dossiers, x) :
                 HasSuccessor(dossiers, d)' <=> HasSuccessor(dossiers, d)
<1>1. /\ OfOpp(assessments', x) = OfOpp(assessments, x)
      /\ \A a \in OfOpp(assessments, x) : assessments'[a] = assessments[a]
      /\ OfOpp(dossiers', x) = OfOpp(dossiers, x)
      /\ \A d \in OfOpp(dossiers, x) : dossiers'[d] = dossiers[d]
  BY DEF Untouched, SameRows
<1>2. /\ \A a \in DOMAIN assessments' :
            assessments'[a].sup \in OfOpp(assessments', x) => assessments'[a].opp = x
      /\ \A d \in DOMAIN dossiers' :
            dossiers'[d].sup \in OfOpp(dossiers', x) => dossiers'[d].opp = x
  <2>1. 0 \notin DOMAIN assessments' /\ 0 \notin DOMAIN dossiers'
    <3>1. assessments' \in Seq(AssessmentRow) /\ dossiers' \in Seq(DossierRow)
      BY DEF Consistent, TypeOK, StoreTypeOK
    <3> QED
      BY <3>1, LenProperties
  <2> QED
    BY <2>1 DEF Consistent, ReferentialIntegrity, AssessmentRefs, DossierRefs, Superseded,
                OneOf, OfOpp
<1>3. ASSUME NEW a \in OfOpp(assessments, x)
      PROVE  HasSuccessor(assessments, a)' <=> HasSuccessor(assessments, a)
  <2>1. \A j \in DOMAIN assessments : assessments[j].sup = a => j \in OfOpp(assessments, x)
    BY <1>3, RowsOf DEF OfOpp
  <2>2. \A j \in DOMAIN assessments' : assessments'[j].sup = a => j \in OfOpp(assessments, x)
    BY <1>1, <1>2, <1>3 DEF OfOpp
  <2>3. \A j \in OfOpp(assessments, x) : j \in DOMAIN assessments /\ j \in DOMAIN assessments'
    BY <1>1 DEF OfOpp
  <2> QED
    BY <1>1, <2>1, <2>2, <2>3 DEF HasSuccessor
<1>4. ASSUME NEW d \in OfOpp(dossiers, x)
      PROVE  HasSuccessor(dossiers, d)' <=> HasSuccessor(dossiers, d)
  <2>1. \A j \in DOMAIN dossiers : dossiers[j].sup = d => j \in OfOpp(dossiers, x)
    BY <1>4, RowsOf DEF OfOpp
  <2>2. \A j \in DOMAIN dossiers' : dossiers'[j].sup = d => j \in OfOpp(dossiers, x)
    BY <1>1, <1>2, <1>4 DEF OfOpp
  <2>3. \A j \in OfOpp(dossiers, x) : j \in DOMAIN dossiers /\ j \in DOMAIN dossiers'
    BY <1>1 DEF OfOpp
  <2> QED
    BY <1>1, <2>1, <2>2, <2>3 DEF HasSuccessor
<1> QED
  BY <1>3, <1>4

\* What is current is decided by the records of the opportunity.
LEMMA EligibleKept ==
    ASSUME Consistent, Consistent', NEW x \in Opps, Untouched(x)
    PROVE  /\ \A p : Matches(p, x)' <=> Matches(p, x)
           /\ \A r \in OfOpp(reviews, x) :
                 reviews'[r] = reviews[r] /\ (ReviewEligible(r)' <=> ReviewEligible(r))
           /\ \A a \in OfOpp(assessments, x) :
                 /\ assessments'[a] = assessments[a]
                 /\ AssessmentEligible(a)' <=> AssessmentEligible(a)
           /\ CurrentAssessments(x)' = CurrentAssessments(x)
<1>1. /\ \A r \in OfOpp(reviews, x) : reviews'[r] = reviews[r] /\ reviews[r].opp = x
      /\ \A a \in OfOpp(assessments, x) :
            assessments'[a] = assessments[a] /\ assessments[a].opp = x
      /\ OfOpp(assessments', x) = OfOpp(assessments, x)
      /\ opp'[x] = opp[x]
  BY DEF Untouched, SameRows, OfOpp
<1>2. Trace(x)' = Trace(x)
  BY TraceKept
<1>3. \A p : Matches(p, x)' <=> Matches(p, x)
  BY <1>1, <1>2 DEF Matches
<1>4. \A r \in OfOpp(reviews, x) : ReviewEligible(r)' <=> ReviewEligible(r)
  BY <1>1, <1>3 DEF ReviewEligible, ReviewStale
<1>5. ASSUME NEW a \in OfOpp(assessments, x)
      PROVE  AssessmentEligible(a)' <=> AssessmentEligible(a)
  <2>1. HasSuccessor(assessments, a)' <=> HasSuccessor(assessments, a)
    BY <1>5, SuccessorsKept
  <2>2. assessments'[a] = assessments[a] /\ assessments[a].opp = x
    BY <1>1, <1>5
  <2>3. CASE assessments[a].kind = "spatial"
    <3>1. assessments[a].prov.review \in OfOpp(reviews, x)
      BY <1>5, <2>3, RowsOf
    <3> QED
      BY <1>1, <1>3, <1>4, <2>1, <2>2, <3>1 DEF AssessmentEligible
  <2>4. CASE assessments[a].kind # "spatial"
    BY <2>2, <2>4 DEF AssessmentEligible
  <2> QED
    BY <2>3, <2>4
<1>6. CurrentAssessments(x)' = CurrentAssessments(x)
  BY <1>1, <1>5 DEF CurrentAssessments
<1> QED
  BY <1>1, <1>3, <1>4, <1>5, <1>6

-----------------------------------------------------------------------------
(* Assessments that were made alone.                                       *)

\* An assessment that can be current: nothing superseded it, and its review is
\* as it was used.
Live(a) ==
    LET row == assessments[a]
    IN  /\ row.kind = "spatial"
        /\ reviews[row.prov.review].status = "Completed"
        /\ reviews[row.prov.review].rev = row.prov.reviewRev
        /\ ~HasSuccessor(assessments, a)

SameInputs(row, other) ==
    /\ row.opp = other.opp
    /\ row.prov.rev = other.prov.rev /\ row.prov.trace = other.prov.trace

\* An assessment is of the state its review is of.
FromReview(row) ==
    LET q == reviews[row.prov.review]
    IN  /\ q.prov.rev = row.prov.rev /\ q.prov.trace = row.prov.trace
        /\ row.prov.reviewRev <= q.rev

\* What a request for an assessment knows, if it met no other.
Judging(j) ==
    j.kind = "assess" =>
        /\ j.pc \in {"inputs", "rank", "admit", "insert"} =>
              /\ ReviewEligible(j.prov.review)
              /\ j.prov.reviewRev = reviews[j.prov.review].rev
        /\ j.pc \in {"rank", "admit", "insert"} => Matches(j.prov, j.opp)
        /\ j.pc \in {"admit", "insert"} /\ MadeAlone(j.opp) =>
              CurrentAssessments(j.opp) \subseteq {j.sup}

LoneJudging == \A s \in Slots, j \in Request : req[s] = j /\ Alone(s) => Judging(j)

FromReviews ==
    \A a \in DOMAIN assessments :
        assessments[a].kind = "spatial" /\ Alone(assessments[a].by) => FromReview(assessments[a])

OneLive ==
    \A a, b \in DOMAIN assessments :
        MadeAlone(assessments[a].opp) /\ Live(a) /\ Live(b)
            /\ SameInputs(assessments[a], assessments[b]) => a = b

Judged == LoneJudging /\ FromReviews /\ OneLive

\* An assessment that is current is live, and of the present inputs.
LEMMA CurrentIsLive ==
    ASSUME NEW o, NEW a \in CurrentAssessments(o)
    PROVE  /\ a \in DOMAIN assessments /\ assessments[a].opp = o /\ Live(a)
           /\ Matches(assessments[a].prov, o)
  BY DEF CurrentAssessments, OfOpp, AssessmentEligible, ReviewEligible, Live

LEMMA AtMostOneCurrent ==
    ASSUME OneLive, NEW o, MadeAlone(o)
    PROVE  \A a, b \in CurrentAssessments(o) : a = b
  BY CurrentIsLive DEF OneLive, SameInputs, Matches

\* The newest of at most one is that one.
LEMMA NewestOfOne ==
    ASSUME NEW ids, ids \subseteq Nat, \A a, b \in ids : a = b
    PROVE  ids \subseteq {Newest(ids)}
<1>1. ASSUME NEW a \in ids
      PROVE  IsNewest(a, ids)
  BY <1>1 DEF IsNewest
<1> QED
  BY <1>1 DEF Newest, IsNewest

LEMMA NewestIsTheCurrent ==
    ASSUME Consistent, OneLive, NEW o, MadeAlone(o)
    PROVE  CurrentAssessments(o) \subseteq {Newest(CurrentAssessments(o))}
<1>1. CurrentAssessments(o) \subseteq Nat
  BY ReadTypes DEF CurrentAssessments, OfOpp
<1>2. \A a, b \in CurrentAssessments(o) : a = b
  BY AtMostOneCurrent
<1> QED
  BY <1>1, <1>2, NewestOfOne

\* A live assessment of the present inputs, made alone, is current.
LEMMA LiveIsCurrent ==
    ASSUME Consistent, FromReviews, NEW a \in DOMAIN assessments, Live(a),
           Alone(assessments[a].by), Matches(assessments[a].prov, assessments[a].opp)
    PROVE  a \in CurrentAssessments(assessments[a].opp)
<1> PICK row, r : row = assessments[a] /\ r = row.prov.review
  OBVIOUS
<1>1. /\ row.kind = "spatial" /\ reviews[r].status = "Completed"
      /\ ~HasSuccessor(assessments, a)
  BY DEF Live
<1>2. /\ reviews[r].prov.rev = row.prov.rev /\ reviews[r].prov.trace = row.prov.trace
      /\ reviews[r].rev = row.prov.reviewRev
  BY <1>1 DEF FromReviews, FromReview, Live
<1>3. reviews[r].opp = row.opp
  BY <1>1, RowsOf DEF OfOpp
<1>4. ReviewEligible(r)
  BY <1>1, <1>2, <1>3 DEF ReviewEligible, ReviewStale, Matches
<1> QED
  BY <1>1, <1>2, <1>4 DEF CurrentAssessments, OfOpp, AssessmentEligible

\* What a handler changes of what it remembers.
LEMMA ProvenanceFields ==
    ASSUME NEW q \in Provenance, NEW r, NEW o
    PROVE  /\ ReviewUsed(q, r).review = r
           /\ ReviewUsed(q, r).reviewRev = reviews[r].rev
           /\ ReviewUsed(q, r).rev = q.rev /\ ReviewUsed(q, r).trace = q.trace
           /\ ReviewUsed(q, r).assess = q.assess /\ ReviewUsed(q, r).dossier = q.dossier
           /\ Reread(q, o).rev = opp[o].rev /\ Reread(q, o).trace = Trace(o)
           /\ Reread(q, o).review = q.review /\ Reread(q, o).reviewRev = q.reviewRev
  BY DEF Provenance, ReviewUsed, Reread

\* The reads of a request for an assessment.
LEMMA JudgingReads ==
    ASSUME Consistent, OneLive, NEW s \in Slots, Proceed(s), NEW j \in Request, req[s] = j,
           j.kind = "assess", Judging(j), NEW k, req'[s] = k
    PROVE  Judging(k)
<1>1. \A res : Reply(s, res) => k.pc = "done"
  BY BecomeMoves, AnsweredFields DEF Reply, Consistent
<1>2. \A job : Become(s, job) => job = k
  BY BecomeMoves DEF Consistent
<1>3. j.prov \in Provenance
  BY DEF Request
<1>4. k.pc = "done" => Judging(k)
  BY DEF Judging
<1>5. CASE AssessReady(s) /\ k.pc # "done"
  <2>1. PICK r, p : /\ p = ReviewUsed(j.prov, r) /\ ReviewEligible(r)
                    /\ Become(s, [j EXCEPT !.pc = "inputs", !.prov = p])
    BY <1>1, <1>5 DEF AssessReady
  <2>2. k.pc = "inputs" /\ k.prov = p
    BY <1>2, <2>1 DEF Request
  <2> QED
    BY <1>3, <2>1, <2>2, ProvenanceFields DEF Judging
<1>6. CASE AssessInputs(s) /\ k.pc # "done"
  <2>1. PICK p : /\ p = Reread(j.prov, j.opp) /\ j.pc = "inputs"
                 /\ Become(s, [j EXCEPT !.pc = "rank", !.prov = p])
    BY <1>1, <1>6 DEF AssessInputs, At
  <2>2. k.pc = "rank" /\ k.prov = p /\ k.opp = j.opp
    BY <1>2, <2>1 DEF Request
  <2>3. /\ p.review = j.prov.review /\ p.reviewRev = j.prov.reviewRev
        /\ Matches(p, j.opp)
    BY <1>3, <2>1, ProvenanceFields DEF Matches
  <2>4. /\ ReviewEligible(p.review) /\ p.reviewRev = reviews[p.review].rev
    BY <2>1, <2>3 DEF Judging
  <2> QED
    BY <2>2, <2>3, <2>4 DEF Judging
<1>7. CASE AssessRank(s)
  <2>1. PICK a : /\ a = Newest(CurrentAssessments(j.opp)) /\ j.pc = "rank"
                 /\ Become(s, [j EXCEPT !.pc = "admit", !.sup = a])
    BY <1>7 DEF AssessRank, At
  <2>2. k.pc = "admit" /\ k.prov = j.prov /\ k.opp = j.opp /\ k.sup = a
    BY <1>2, <2>1 DEF Request
  <2>3. MadeAlone(j.opp) => CurrentAssessments(j.opp) \subseteq {a}
    BY <2>1, NewestIsTheCurrent
  <2> QED
    BY <2>1, <2>2, <2>3 DEF Judging
<1>8. CASE AssessAdmit(s) /\ k.pc # "done"
  <2>1. PICK id : j.pc = "admit" /\ Become(s, [j EXCEPT !.pc = "insert", !.id = id])
    BY <1>1, <1>8 DEF AssessAdmit
  <2>2. k.pc = "insert" /\ k.prov = j.prov /\ k.opp = j.opp /\ k.sup = j.sup
    BY <1>2, <2>1 DEF Request
  <2> QED
    BY <2>1, <2>2 DEF Judging
<1>9. CASE AssessInsert(s)
  BY <1>1, <1>4, <1>9 DEF AssessInsert
<1>10. AssessReady(s) \/ AssessInputs(s) \/ AssessRank(s) \/ AssessAdmit(s) \/ AssessInsert(s)
  BY DEF Proceed, At, EditCheck, EditWrite, CloseCheck, CloseWrite, AddEvidenceCheck,
         AddEvidenceInsert, UpdateEvidenceCheck, UpdateEvidenceWrite,
         ArchiveEvidenceCheck, ArchiveEvidenceWrite, ReviewInputs, ReviewAdmit,
         ReviewInsert, CompleteCheck, CompleteWrite, LegacyRank,
         DossierReady, DossierFind, DossierStage, DossierRank, DossierInsert,
         ArchiveReady, ArchiveStage, ArchiveLink, ArchiveTidy, ArchiveAdmit,
         ArchiveInsert, ArchiveConfirm, ArchiveUnlink
<1> QED
  BY <1>4, <1>5, <1>6, <1>7, <1>8, <1>9, <1>10

\* Who was alone was so before, and so were the authors of the assessments.
LEMMA AloneBefore ==
    ASSUME met \subseteq met', NEW s, Alone(s)'
    PROVE  Alone(s)
  BY DEF Alone

LEMMA MadeAloneBefore ==
    ASSUME met \subseteq met',
           \A a \in DOMAIN assessments :
              a \in DOMAIN assessments' /\ assessments'[a] = assessments[a],
           NEW o, MadeAlone(o)'
    PROVE  MadeAlone(o)
<1> SUFFICES ASSUME NEW a \in OfOpp(assessments, o), assessments[a].kind = "spatial"
             PROVE  Alone(assessments[a].by)
  BY DEF MadeAlone
<1> PICK by : by = assessments[a].by
  OBVIOUS
<1>1. Alone(by)'
  BY DEF MadeAlone, OfOpp, Alone
<1> QED
  BY <1>1, AloneBefore

\* The steps that write an assessment or a review.
LEMMA AssessmentWriters ==
    ASSUME NEW s, DataWrite(s)
    PROVE  \/ assessments' = assessments
           \/ /\ AssessInsert(s) /\ InsertAssessment(NewAssessment(s), req[s].id)
              /\ UNCHANGED <<evid, reviews>>
  BY DEF DataWrite, EvidenceWrite, LedgerWrite, EditWrite, CloseWrite, InsertEvidence,
         UpdateEvidenceWrite, ArchiveEvidenceWrite, UpdateOpportunity, ArchiveOpportunity,
         UpdateEvidence, ArchiveEvidence, CompleteWrite, CompleteReview, InsertReview,
         InsertAssessment, InsertDossier, InsertArchive

LEMMA ReviewWriters ==
    ASSUME NEW s, DataWrite(s)
    PROVE  \/ reviews' = reviews \/ CompleteWrite(s)
           \/ ReviewInsert(s) /\ InsertReview(NewReview(s), req[s].id)
  BY DEF DataWrite, EvidenceWrite, LedgerWrite, EditWrite, CloseWrite, InsertEvidence,
         UpdateEvidenceWrite, ArchiveEvidenceWrite, UpdateOpportunity, ArchiveOpportunity,
         UpdateEvidence, ArchiveEvidence, InsertAssessment, InsertDossier, InsertArchive

\* What a new assessment is.
LEMMA AssessmentInserted ==
    ASSUME Consistent, NEW s \in Slots, AssessInsert(s),
           InsertAssessment(NewAssessment(s), req[s].id)
    PROVE  \E n :
              /\ DOMAIN assessments' = DOMAIN assessments \cup {n}
              /\ n \notin DOMAIN assessments
              /\ \A a \in DOMAIN assessments : assessments'[a] = assessments[a]
              /\ assessments'[n].opp = req[s].opp /\ assessments'[n].by = s
              /\ assessments'[n].prov = req[s].prov /\ assessments'[n].sup = req[s].sup
              /\ assessments'[n].kind = "spatial" => req[s].kind = "assess"
<1> PICK row : row = NewAssessment(s)
  OBVIOUS
<1>1. /\ row.opp = req[s].opp /\ row.by = s /\ row.prov = req[s].prov
      /\ row.sup = req[s].sup
      /\ row.kind = "spatial" => req[s].kind = "assess"
  BY DEF NewAssessment
<1>2. row \in AssessmentRow /\ assessments \in Seq(AssessmentRow)
  BY NewRows DEF Consistent, TypeOK, StoreTypeOK
<1>3. assessments' = Append(assessments, row)
  BY DEF InsertAssessment
<1>4. /\ DOMAIN assessments = 1..Len(assessments) /\ Len(assessments) \in Nat
      /\ DOMAIN assessments' = 1..(Len(assessments) + 1)
      /\ \A a \in DOMAIN assessments : assessments'[a] = assessments[a]
      /\ assessments'[Len(assessments) + 1] = row
  BY <1>2, <1>3, AppendRow
<1> PICK n : n = Len(assessments) + 1
  OBVIOUS
<1>5. DOMAIN assessments' = DOMAIN assessments \cup {n} /\ n \notin DOMAIN assessments
  BY <1>4
<1>6. assessments'[n] = row
  BY <1>4
<1> QED
  BY <1>1, <1>4, <1>5, <1>6

LEMMA AssessmentsStay ==
    ASSUME Consistent, [Next]_vars
    PROVE  \A a \in DOMAIN assessments :
              a \in DOMAIN assessments' /\ assessments'[a] = assessments[a]
<1>1. ASSUME NEW s \in Slots, DataWrite(s)
      PROVE  \A a \in DOMAIN assessments :
                a \in DOMAIN assessments' /\ assessments'[a] = assessments[a]
  BY <1>1, AssessmentWriters, AssessmentInserted
<1> QED
  BY <1>1, StepWrites DEF DataKept

\* A review keeps what it was derived from, and a new status is a new revision.
LEMMA ReviewsMove ==
    ASSUME Consistent, [Next]_vars
    PROVE  \A r \in DOMAIN reviews :
              /\ r \in DOMAIN reviews'
              /\ reviews'[r].opp = reviews[r].opp /\ reviews'[r].prov = reviews[r].prov
              /\ \/ reviews'[r] = reviews[r]
                 \/ reviews'[r].rev = reviews[r].rev + 1
<1>0. /\ reviews \in Seq(ReviewRow) /\ DOMAIN reviews = 1..Len(reviews)
      /\ \A r \in DOMAIN reviews : reviews[r] \in ReviewRow
  BY LenProperties DEF Consistent, TypeOK, StoreTypeOK
<1>1. \A r \in DOMAIN reviews :
         /\ r \in DOMAIN reviews'
         /\ reviews'[r].opp = reviews[r].opp /\ reviews'[r].prov = reviews[r].prov
  <2>1. Extends(reviews, reviews') /\ Consistent'
    BY NextGrows, NextConsistent DEF LedgerGrows
  <2>2. reviews' \in Seq(ReviewRow)
    BY <2>1 DEF Consistent, TypeOK, StoreTypeOK
  <2>3. DOMAIN reviews' = 1..Len(reviews') /\ Len(reviews') \in Nat /\ Len(reviews) \in Nat
    BY <1>0, <2>2, LenProperties
  <2> QED
    BY <1>0, <2>1, <2>3 DEF Extends, Derivation
<1>2. ASSUME NEW s \in Slots, CompleteWrite(s), NEW r \in DOMAIN reviews
      PROVE  reviews'[r] = reviews[r] \/ reviews'[r].rev = reviews[r].rev + 1
  <2>1. \/ reviews'[r] = reviews[r]
        \/ reviews'[r] = [reviews[r] EXCEPT !.status = "Completed", !.rev = @ + 1]
    BY <1>2 DEF CompleteWrite, CompleteReview
  <2>2. reviews[r] \in ReviewRow
    BY <1>0, <1>2
  <2> QED
    BY <2>1, <2>2 DEF ReviewRow
<1>3. ASSUME NEW s \in Slots, ReviewInsert(s), InsertReview(NewReview(s), req[s].id),
             NEW r \in DOMAIN reviews
      PROVE  reviews'[r] = reviews[r] \/ reviews'[r].rev = reviews[r].rev + 1
  <2> PICK row : row = NewReview(s)
    OBVIOUS
  <2> PICK older : older = ClosedBy(row)
    OBVIOUS
  <2>1. row \in ReviewRow
    BY <1>3, NewRows DEF ReviewInsert
  <2>2. /\ older \in Seq(ReviewRow) /\ Len(older) = Len(reviews)
        /\ DOMAIN older = DOMAIN reviews
    BY <1>0, <2>1, ClosedByKeepsRows, LenProperties
  <2>3. reviews' = Append(older, row)
    BY <1>3 DEF InsertReview
  <2>4. reviews'[r] = older[r]
    BY <1>3, <2>1, <2>2, <2>3, AppendRow
  <2>5. \/ older[r] = reviews[r]
        \/ older[r] = [reviews[r] EXCEPT !.status = "Superseded", !.rev = @ + 1]
    BY <1>3 DEF ClosedBy
  <2>6. reviews[r] \in ReviewRow
    BY <1>0, <1>3
  <2> QED
    BY <2>4, <2>5, <2>6 DEF ReviewRow
<1>4. ASSUME NEW r \in DOMAIN reviews
      PROVE  reviews'[r] = reviews[r] \/ reviews'[r].rev = reviews[r].rev + 1
  <2>1. CASE reviews' = reviews
    BY <2>1
  <2>2. CASE reviews' # reviews
    <3>1. PICK s \in Slots : DataWrite(s)
      BY <2>2, StepWrites DEF DataKept
    <3> QED
      BY <1>2, <1>3, <1>4, <2>2, <3>1, ReviewWriters
  <2> QED
    BY <2>1, <2>2
<1> QED
  BY <1>1, <1>4

\* What a request knows is kept by the steps that write no table, and by those
\* that leave its opportunity alone.
LEMMA JudgingSame ==
    ASSUME DataKept, met \subseteq met', NEW j, Judging(j)
    PROVE  Judging(j)'
<1>1. \A r : ReviewEligible(r)' <=> ReviewEligible(r)
  BY DEF DataKept, ReviewEligible, ReviewStale, Matches, Trace
<1>2. \A p, o : Matches(p, o)' <=> Matches(p, o)
  BY DEF DataKept, Matches, Trace
<1>3. \A o : CurrentAssessments(o)' = CurrentAssessments(o)
  BY DEF DataKept, CurrentAssessments, OfOpp, AssessmentEligible, ReviewEligible,
         ReviewStale, Matches, Trace, HasSuccessor
<1>4. MadeAlone(j.opp)' => MadeAlone(j.opp)
  BY MadeAloneBefore DEF DataKept
<1>5. reviews' = reviews
  BY DEF DataKept
<1> QED
  BY <1>1, <1>2, <1>3, <1>4, <1>5 DEF Judging

LEMMA JudgingKept ==
    ASSUME Consistent, Consistent', met \subseteq met',
           \A a \in DOMAIN assessments :
              a \in DOMAIN assessments' /\ assessments'[a] = assessments[a],
           NEW j, j.opp \in Opps, Untouched(j.opp),
           j.pc \in {"inputs", "rank", "admit", "insert"} => OneOf(reviews, j.opp, j.prov.review),
           j.kind = "assess", Judging(j)
    PROVE  Judging(j)'
<1> PICK o : o = j.opp
  OBVIOUS
<1>1. /\ \A p : Matches(p, o)' <=> Matches(p, o)
      /\ \A r \in OfOpp(reviews, o) :
            reviews'[r] = reviews[r] /\ (ReviewEligible(r)' <=> ReviewEligible(r))
      /\ CurrentAssessments(o)' = CurrentAssessments(o)
  BY EligibleKept
<1>2. j.pc \in {"inputs", "rank", "admit", "insert"} => j.prov.review \in OfOpp(reviews, o)
  BY DEF OneOf
<1>3. MadeAlone(o)' => MadeAlone(o)
  BY MadeAloneBefore
<1> QED
  BY <1>1, <1>2, <1>3 DEF Judging

\* Revisions of reviews grow, so a live assessment was live before.
LEMMA FromReviewStays ==
    ASSUME Consistent, [Next]_vars, NEW a \in DOMAIN assessments, NEW row,
           row = assessments[a], row.kind = "spatial", FromReview(row)
    PROVE  FromReview(row)'
<1> PICK r : r = row.prov.review
  OBVIOUS
<1>1. r \in DOMAIN reviews
  BY RowsOf DEF OfOpp
<1>2. reviews'[r].prov = reviews[r].prov /\ reviews[r].rev \in Nat
      /\ (reviews'[r] = reviews[r] \/ reviews'[r].rev = reviews[r].rev + 1)
  BY <1>1, ReviewsMove, ReadTypes
<1>3. row.prov.reviewRev \in Nat
  BY ReadTypes DEF AssessmentRow, Provenance
<1>4. row.prov.reviewRev <= reviews[r].rev
  BY DEF FromReview
<1>5. row.prov.reviewRev <= reviews'[r].rev
  BY <1>2, <1>3, <1>4
<1> QED
  BY <1>2, <1>5 DEF FromReview

LEMMA LiveBefore ==
    ASSUME Consistent, [Next]_vars, NEW a \in DOMAIN assessments, NEW row,
           row = assessments[a], FromReview(row), Live(a)'
    PROVE  Live(a)
<1> PICK r : r = row.prov.review
  OBVIOUS
<1>0. /\ a \in DOMAIN assessments' /\ assessments'[a] = row
      /\ \A b \in DOMAIN assessments :
            b \in DOMAIN assessments' /\ assessments'[b] = assessments[b]
  BY AssessmentsStay
<1>1. /\ row.kind = "spatial" /\ reviews'[r].status = "Completed"
      /\ reviews'[r].rev = row.prov.reviewRev /\ ~HasSuccessor(assessments, a)'
  BY <1>0 DEF Live
<1>2. r \in DOMAIN reviews
  BY <1>1, RowsOf DEF OfOpp
<1>3. reviews'[r] = reviews[r] \/ reviews'[r].rev = reviews[r].rev + 1
  BY <1>2, ReviewsMove
<1>4. reviews[r].rev \in Nat /\ row.prov.reviewRev <= reviews[r].rev
  BY <1>2, ReadTypes DEF FromReview
<1>5. reviews'[r] = reviews[r]
  BY <1>1, <1>3, <1>4
<1>6. ~HasSuccessor(assessments, a)
  BY <1>0, <1>1 DEF HasSuccessor
<1> QED
  BY <1>1, <1>5, <1>6 DEF Live

\* What requests know after a step.
LEMMA NextLoneJudging ==
    ASSUME Consistent, Home, MetOnce, Judged, [ONext]_ovars
    PROVE  LoneJudging'
<1>1. TypeOK /\ Consistent' /\ [Next]_vars /\ met \subseteq met'
  BY NextMet, NextConsistent DEF Consistent
<1>2. \A a \in DOMAIN assessments :
         a \in DOMAIN assessments' /\ assessments'[a] = assessments[a]
  BY <1>1, AssessmentsStay
<1> SUFFICES ASSUME NEW s \in Slots, NEW k \in Request, req'[s] = k, Alone(s)',
                    k.kind = "assess", k.pc \in {"inputs", "rank", "admit", "insert"}
             PROVE  Judging(k)'
  BY DEF LoneJudging, Judging
<1> PICK j \in Request : req[s] = j
  BY <1>1 DEF TypeOK
<1>3. Judging(j)
  BY <1>1, AloneBefore DEF Judged, LoneJudging
<1>4. CASE Proceed(s)
  <2>1. j.kind = "assess"
    BY <1>1, <1>4, ProceedMoves
  <2>2. Judging(k)
    BY <1>3, <1>4, <2>1, JudgingReads DEF Judged
  <2>3. ~DataWrite(s)
    <3>1. \A res : Reply(s, res) => k.pc = "done"
      BY BecomeMoves, AnsweredFields DEF Reply, Consistent
    <3> QED
      BY <2>1, <3>1 DEF DataWrite, EvidenceWrite, LedgerWrite, EditWrite, CloseWrite,
                        AddEvidenceInsert, UpdateEvidenceWrite, ArchiveEvidenceWrite,
                        CompleteWrite, ReviewInsert, AssessInsert, DossierInsert,
                        ArchiveInsert, At
  <2> QED
    BY <1>1, <1>4, <2>2, <2>3, ProceedData, JudgingSame
<1>5. CASE ~Proceed(s)
  <2>1. k = j
    BY <1>1, <1>5, RequestSteps DEF Starts
  <2>2. CASE DataKept
    BY <1>1, <1>3, <2>1, <2>2, JudgingSame
  <2>3. ASSUME NEW u \in Slots, Proceed(u), DataWrite(u)
        PROVE  Judging(k)'
    <3>1. u # s /\ req[u].pc \in Steps /\ j.pc \in Steps
      BY <1>1, <1>5, <2>1, <2>3, ProceedMoves, Words DEF Steps
    <3>2. Alone(s)
      BY <1>1, AloneBefore
    <3>3. j.opp # req[u].opp
      BY <3>1, <3>2, Meet DEF Alone
    <3>4. j.opp \in Opps /\ OneOf(reviews, j.opp, j.prov.review)
      BY <2>1, <3>1 DEF Consistent, RequestRefs, JobRefs
    <3>5. Untouched(j.opp)
      BY <2>3, <3>3, <3>4, WritesAtHome
    <3> QED
      BY <1>1, <1>2, <1>3, <2>1, <3>4, <3>5, JudgingKept
  <2> QED
    BY <1>1, <2>2, <2>3, StepWrites
<1> QED
  BY <1>4, <1>5

\* The assessments after one was inserted.
LEMMA InsertJudges ==
    ASSUME Consistent, MetOnce, Judged, [Next]_vars, met \subseteq met', NEW s \in Slots,
           AssessInsert(s), InsertAssessment(NewAssessment(s), req[s].id),
           reviews' = reviews
    PROVE  FromReviews' /\ OneLive'
<1> PICK n : /\ DOMAIN assessments' = DOMAIN assessments \cup {n}
             /\ n \notin DOMAIN assessments
             /\ \A a \in DOMAIN assessments : assessments'[a] = assessments[a]
             /\ assessments'[n].opp = req[s].opp /\ assessments'[n].by = s
             /\ assessments'[n].prov = req[s].prov /\ assessments'[n].sup = req[s].sup
             /\ assessments'[n].kind = "spatial" => req[s].kind = "assess"
  BY AssessmentInserted
<1> PICK j \in Request : j = req[s]
  BY DEF Consistent, TypeOK
<1> PICK row : row = assessments'[n]
  OBVIOUS
<1>1. row.kind = "spatial" /\ Alone(s)' =>
         /\ j.kind = "assess" /\ j.pc = "insert" /\ Judging(j)
         /\ OneOf(reviews, j.opp, j.prov.review)
  <2>1. Alone(s)' => Judging(j)
    BY AloneBefore DEF Judged, LoneJudging
  <2>2. j.pc = "insert"
    BY DEF AssessInsert
  <2>3. j.kind = "assess" => OneOf(reviews, j.opp, j.prov.review)
    BY <2>2, Words DEF Consistent, RequestRefs, JobRefs
  <2> QED
    BY <2>1, <2>2, <2>3
<1>2. \A a \in DOMAIN assessments : \A by :
         Alone(by)' /\ by = assessments[a].by /\ assessments[a].kind = "spatial" =>
             FromReview(assessments[a])
  BY AloneBefore DEF Judged, FromReviews
<1>3. FromReviews'
  <2> SUFFICES ASSUME NEW a \in DOMAIN assessments', assessments'[a].kind = "spatial",
                      NEW by, by = assessments'[a].by, Alone(by)',
                      NEW used, used = assessments'[a]
               PROVE  FromReview(used)'
    BY DEF FromReviews, FromReview, Alone
  <2>1. CASE a \in DOMAIN assessments
    BY <1>2, <2>1, FromReviewStays
  <2>2. CASE a = n
    <3>1. /\ ReviewEligible(j.prov.review) /\ Matches(j.prov, j.opp)
          /\ j.prov.reviewRev = reviews[j.prov.review].rev
          /\ reviews[j.prov.review].opp = j.opp
      BY <1>1, <2>2 DEF Judging, OneOf, OfOpp
    <3>2. j.prov.review \in DOMAIN reviews
      BY <1>1, <2>2 DEF OneOf, OfOpp
    <3>3. reviews[j.prov.review].rev <= reviews[j.prov.review].rev
      BY <3>2, ReadTypes
    <3> QED
      BY <2>2, <3>1, <3>3 DEF FromReview, ReviewEligible, ReviewStale, Matches
  <2> QED
    BY <2>1, <2>2
<1>4. OneLive'
  <2> SUFFICES ASSUME NEW a \in DOMAIN assessments', NEW b \in DOMAIN assessments',
                      NEW o, o = assessments'[a].opp, MadeAlone(o)', Live(a)', Live(b)',
                      SameInputs(assessments'[a], assessments'[b])
               PROVE  a = b
    BY DEF OneLive, SameInputs
  <2>1. /\ assessments'[b].opp = o
        /\ assessments'[a].kind = "spatial" /\ assessments'[b].kind = "spatial"
    BY DEF SameInputs, Live
  <2>2. ASSUME NEW c \in DOMAIN assessments', assessments'[c].opp = o,
               assessments'[c].kind = "spatial", NEW by, by = assessments'[c].by
        PROVE  Alone(by)'
    BY <2>2 DEF MadeAlone, OfOpp, Alone
  <2>3. MadeAlone(o)
    <3>1. \A c \in DOMAIN assessments :
             c \in DOMAIN assessments' /\ assessments'[c] = assessments[c]
      OBVIOUS
    <3> QED
      BY <3>1, MadeAloneBefore
  <2>4. ASSUME NEW c \in DOMAIN assessments, assessments'[c].opp = o,
               assessments'[c].kind = "spatial", Live(c)'
        PROVE  Live(c) /\ Alone(assessments[c].by)
    <3> PICK by : by = assessments[c].by
      OBVIOUS
    <3>1. Alone(by)' /\ assessments[c].kind = "spatial"
      BY <2>2, <2>4
    <3>2. FromReview(assessments[c])
      BY <1>2, <3>1
    <3> QED
      BY <2>4, <3>1, <3>2, LiveBefore, AloneBefore
  <2>5. ASSUME NEW c \in DOMAIN assessments, assessments'[c].opp = o,
               assessments'[c].kind = "spatial", Live(c)', Live(n)',
               row.opp = o, row.kind = "spatial", SameInputs(assessments[c], row)
        PROVE  FALSE
    <3>1. Alone(s)'
      BY <2>2, <2>5
    <3>2. /\ j.opp = o /\ Matches(j.prov, o)
          /\ CurrentAssessments(o) \subseteq {j.sup}
      BY <1>1, <2>3, <2>5, <3>1 DEF Judging
    <3>3. Live(c) /\ Alone(assessments[c].by) /\ assessments[c].opp = o
      BY <2>4, <2>5
    <3>4. Matches(assessments[c].prov, o)
      BY <2>5, <3>2 DEF Matches, SameInputs
    <3>5. c \in CurrentAssessments(o)
      BY <3>3, <3>4, LiveIsCurrent DEF Judged
    <3>6. HasSuccessor(assessments, c)'
      BY <3>2, <3>5 DEF HasSuccessor
    <3> QED
      BY <2>5, <3>6 DEF Live
  <2>6. CASE a \in DOMAIN assessments /\ b \in DOMAIN assessments
    <3>1. Live(a) /\ Live(b)
      BY <2>1, <2>4, <2>6
    <3> QED
      BY <2>3, <2>6, <3>1 DEF Judged, OneLive
  <2>7. SameInputs(assessments'[b], assessments'[a])
    BY DEF SameInputs
  <2> QED
    BY <2>1, <2>5, <2>6, <2>7
<1> QED
  BY <1>3, <1>4

\* Otherwise the assessments stay, and only their reviews move on.
LEMMA ReviewsJudge ==
    ASSUME Consistent, Judged, [Next]_vars, met \subseteq met', assessments' = assessments
    PROVE  FromReviews' /\ OneLive'
<1>1. ASSUME NEW a \in DOMAIN assessments, NEW by, by = assessments[a].by, Alone(by)',
             assessments[a].kind = "spatial"
      PROVE  FromReview(assessments[a]) /\ FromReview(assessments[a])'
  <2>1. FromReview(assessments[a])
    BY <1>1, AloneBefore DEF Judged, FromReviews
  <2> QED
    BY <1>1, <2>1, FromReviewStays
<1>2. FromReviews'
  BY <1>1 DEF FromReviews
<1>3. OneLive'
  <2> SUFFICES ASSUME NEW a \in DOMAIN assessments, NEW b \in DOMAIN assessments,
                      NEW o, o = assessments[a].opp, MadeAlone(o)', Live(a)', Live(b)',
                      SameInputs(assessments[a], assessments[b])
               PROVE  a = b
    BY DEF OneLive, SameInputs
  <2>1. MadeAlone(o)
    BY MadeAloneBefore
  <2>2. ASSUME NEW c \in DOMAIN assessments, assessments[c].opp = o, Live(c)'
        PROVE  Live(c)
    <3> PICK by : by = assessments[c].by
      OBVIOUS
    <3>1. assessments[c].kind = "spatial"
      BY <2>2 DEF Live
    <3>2. Alone(by)'
      BY <2>2, <3>1 DEF MadeAlone, OfOpp, Alone
    <3> QED
      BY <1>1, <2>2, <3>1, <3>2, LiveBefore
  <2>3. Live(a) /\ Live(b)
    BY <2>2 DEF SameInputs
  <2> QED
    BY <2>1, <2>3 DEF Judged, OneLive
<1> QED
  BY <1>2, <1>3

LEMMA NextJudged ==
    ASSUME Consistent, Home, MetOnce, Judged, [ONext]_ovars
    PROVE  Judged'
<1>1. [Next]_vars /\ met \subseteq met'
  BY NextMet
<1>2. LoneJudging'
  BY NextLoneJudging
<1>3. FromReviews' /\ OneLive'
  <2>1. CASE assessments' = assessments
    BY <1>1, <2>1, ReviewsJudge
  <2>2. ASSUME NEW s \in Slots, DataWrite(s), assessments' # assessments
        PROVE  FromReviews' /\ OneLive'
    BY <1>1, <2>2, AssessmentWriters, InsertJudges
  <2> QED
    BY <1>1, <2>1, <2>2, StepWrites DEF DataKept
<1> QED
  BY <1>2, <1>3 DEF Judged

LEMMA InitJudged == OInit => Judged
<1> SUFFICES ASSUME OInit
             PROVE  Judged
  OBVIOUS
<1>1. \A s \in Slots : req[s].kind = "none"
  BY DEF OInit, Init, Idle
<1>2. LoneJudging
  BY <1>1 DEF LoneJudging, Judging
<1>3. ASSUME NEW a \in DOMAIN assessments
      PROVE  /\ a \in 1..Len(Seed) /\ assessments[a].opp = Seed[a][1]
             /\ FromReview(assessments[a])
  <2>1. /\ a \in 1..Len(Seed) /\ assessments[a].opp = Seed[a][1]
        /\ assessments[a].prov.rev = 1 /\ assessments[a].prov.trace = SeedTrace(a)
        /\ assessments[a].prov.review = a /\ assessments[a].prov.reviewRev = 1
    BY <1>3 DEF OInit, Init, StoreInit, NoProvenance
  <2>2. /\ reviews[a].prov.rev = 1 /\ reviews[a].prov.trace = SeedTrace(a)
        /\ reviews[a].rev = 1
    BY <2>1 DEF OInit, Init, StoreInit, NoProvenance
  <2> QED
    BY <2>1, <2>2 DEF FromReview
<1>4. \A i, j \in 1..Len(Seed) : Seed[i][1] = Seed[j][1] => i = j
  BY SeedFacts, StoreAssumption
<1> QED
  BY <1>2, <1>3, <1>4 DEF Judged, FromReviews, OneLive, SameInputs

\* An opportunity whose assessments were each made while no other request of it
\* was in flight has at most one current assessment, whatever else overlaps
\* (create_assessment supersedes the one it found current, and a review that
\* moved on never comes back to the revision an assessment used).
THEOREM CurrentAssessmentIsUnique == OSpec => []OneCurrentAssessment
<1> DEFINE Inv == Consistent /\ Home /\ MetOnce /\ Judged
<1>1. OInit => Inv
  BY InitConsistent, InitHome, InitMet, InitJudged DEF OInit
<1>2. Inv /\ [ONext]_ovars => Inv'
  BY NextMet, NextConsistent, NextHome, NextJudged
<1>3. Inv => OneCurrentAssessment
  BY AtMostOneCurrent DEF Judged, OneCurrentAssessment
<1> HIDE DEF Inv
<1> QED
  BY <1>1, <1>2, <1>3, PTL DEF OSpec

-----------------------------------------------------------------------------
(* Archives that were made alone.                                          *)

\* A dossier that is current, and the chain it stands for.
CurrentChain(p, o) ==
    /\ Matches(p, o)
    /\ DossierEligible(p.dossier)
    /\ dossiers[p.dossier].prov.assess = p.assess
    /\ dossiers[p.dossier].prov.rev = p.rev
    /\ assessments[p.assess].prov.review = p.review

\* What a step may not do to an opportunity for a chain with review r to stay
\* current.
Frozen(o, r) ==
    /\ opp'[o].rev = opp[o].rev /\ opp'[o].stamp = opp[o].stamp
    /\ \A e \in Evidence : evid[e].opp = o \/ evid'[e].opp = o => evid'[e] = evid[e]
    /\ reviews'[r] = reviews[r]
    /\ OfOpp(assessments', o) = OfOpp(assessments, o)
    /\ \A a \in OfOpp(assessments, o) : assessments'[a] = assessments[a]
    /\ OfOpp(dossiers', o) = OfOpp(dossiers, o)
    /\ \A d \in OfOpp(dossiers, o) : dossiers'[d] = dossiers[d]

\* What a request for an archive knows, if it met no other.
Archiving(j) ==
    j.kind = "archive" =>
        /\ j.pc \in {"stage", "link", "tidy", "admit", "insert"} => CurrentChain(j.prov, j.opp)
        /\ j.pc \in {"link", "tidy", "admit", "insert"} =>
              j.prov.reviewRev = reviews[j.prov.review].rev

\* A request in flight that leaves the chain with review r alone.
Harmless(j, r) == j.pc \in {"write", "insert"} => j.kind = "complete" /\ j.target # r

Stands(row) ==
    /\ opp[row.opp].archived
    /\ CurrentChain(row.prov, row.opp)
    /\ row.prov.reviewRev = reviews[row.prov.review].rev
    /\ \A t \in Slots : req[t].opp = row.opp => Harmless(req[t], row.prov.review)

LoneArchiving == \A s \in Slots, j \in Request : req[s] = j /\ Alone(s) => Archiving(j)

ArchivesStand == \A i \in DOMAIN archives : Alone(archives[i].by) => Stands(archives[i])

Standing == LoneArchiving /\ ArchivesStand

\* A row of an opportunity gets no successor but from that opportunity.
LEMMA NoNewSuccessor ==
    ASSUME NEW o, NEW old, NEW new, NEW i \in OfOpp(old, o), i # 0,
           OfOpp(new, o) = OfOpp(old, o), \A k \in OfOpp(old, o) : new[k] = old[k],
           \A k \in DOMAIN new : Superseded(new, new[k])
    PROVE  HasSuccessor(new, i) => HasSuccessor(old, i)
<1> SUFFICES ASSUME NEW k \in DOMAIN new, new[k].sup = i
             PROVE  HasSuccessor(old, i)
  BY DEF HasSuccessor
<1>1. i \in OfOpp(new, new[k].opp)
  BY DEF Superseded, OneOf
<1>2. k \in OfOpp(new, o)
  BY <1>1 DEF OfOpp
<1> QED
  BY <1>2 DEF HasSuccessor, OfOpp

LEMMA MatchesKept ==
    ASSUME NEW o, NEW r, Frozen(o, r), NEW p
    PROVE  Matches(p, o)' <=> Matches(p, o)
<1>1. Trace(o)' = Trace(o)
  BY DEF Frozen, Trace
<1> QED
  BY <1>1 DEF Frozen, Matches

LEMMA AssessmentKept ==
    ASSUME Consistent, Consistent', NEW o, NEW a \in OfOpp(assessments, o),
           NEW r, r = assessments[a].prov.review, Frozen(o, r), AssessmentEligible(a)
    PROVE  AssessmentEligible(a)' /\ assessments'[a] = assessments[a]
<1> PICK row : row = assessments[a]
  OBVIOUS
<1>1. /\ a \in DOMAIN assessments /\ row.opp = o /\ assessments'[a] = row
      /\ row.kind = "spatial" /\ ~HasSuccessor(assessments, a)
  BY DEF OfOpp, Frozen, AssessmentEligible
<1>2. r \in OfOpp(reviews, o)
  BY <1>1, RowsOf
<1>3. /\ reviews[r].status = "Completed" /\ Matches(reviews[r].prov, reviews[r].opp)
      /\ reviews[r].rev = row.prov.reviewRev /\ Matches(row.prov, o)
  BY <1>1 DEF AssessmentEligible, ReviewEligible, ReviewStale
<1>4. reviews'[r] = reviews[r] /\ reviews[r].opp = o
  BY <1>2 DEF Frozen, OfOpp
<1>5. Matches(reviews[r].prov, o)' /\ Matches(row.prov, o)'
  BY <1>3, <1>4, MatchesKept
<1>6. ReviewEligible(r)'
  BY <1>3, <1>4, <1>5 DEF ReviewEligible, ReviewStale
<1>7. a # 0
  BY <1>1, RowTypes
<1>8. \A k \in DOMAIN assessments' : Superseded(assessments', assessments'[k])
  BY DEF Consistent, ReferentialIntegrity, AssessmentRefs
<1>9. ~HasSuccessor(assessments', a)
  <2>1. /\ OfOpp(assessments', o) = OfOpp(assessments, o)
        /\ \A k \in OfOpp(assessments, o) : assessments'[k] = assessments[k]
    BY DEF Frozen
  <2> QED
    BY <1>1, <1>7, <1>8, <2>1, NoNewSuccessor
<1>10. HasSuccessor(assessments, a)' <=> HasSuccessor(assessments', a)
  BY DEF HasSuccessor
<1> QED
  BY <1>1, <1>3, <1>4, <1>5, <1>6, <1>9, <1>10 DEF AssessmentEligible

LEMMA DossierKept ==
    ASSUME Consistent, Consistent', NEW o, NEW d \in OfOpp(dossiers, o), NEW a, NEW r,
           a = dossiers[d].prov.assess, r = assessments[a].prov.review, Frozen(o, r),
           DossierEligible(d)
    PROVE  /\ DossierEligible(d)' /\ dossiers'[d] = dossiers[d]
           /\ assessments'[a] = assessments[a]
<1> PICK row : row = dossiers[d]
  OBVIOUS
<1>1. /\ d \in DOMAIN dossiers /\ row.opp = o /\ dossiers'[d] = row
      /\ ~HasSuccessor(dossiers, d) /\ AssessmentEligible(a) /\ Snapshot(o, a) = row.prov
  BY DEF OfOpp, Frozen, DossierEligible
<1>2. a \in OfOpp(assessments, o)
  BY <1>1, RowsOf
<1>3. AssessmentEligible(a)' /\ assessments'[a] = assessments[a]
  BY <1>1, <1>2, AssessmentKept
<1>5. reviews'[r] = reviews[r]
  BY DEF Frozen
<1>6. Trace(o)' = Trace(o) /\ opp'[o].rev = opp[o].rev /\ opp'[o].stamp = opp[o].stamp
  BY DEF Frozen, Trace
<1>7. Snapshot(o, a)' = row.prov
  BY <1>1, <1>3, <1>5, <1>6 DEF Snapshot
<1>8. d # 0
  BY <1>1, RowTypes
<1>9. \A k \in DOMAIN dossiers' : Superseded(dossiers', dossiers'[k])
  BY DEF Consistent, ReferentialIntegrity, DossierRefs
<1>10. ~HasSuccessor(dossiers', d)
  <2>1. /\ OfOpp(dossiers', o) = OfOpp(dossiers, o)
        /\ \A k \in OfOpp(dossiers, o) : dossiers'[k] = dossiers[k]
    BY DEF Frozen
  <2> QED
    BY <1>1, <1>8, <1>9, <2>1, NoNewSuccessor
<1>11. HasSuccessor(dossiers, d)' <=> HasSuccessor(dossiers', d)
  BY DEF HasSuccessor
<1> QED
  BY <1>1, <1>3, <1>7, <1>10, <1>11 DEF DossierEligible

LEMMA ChainKept ==
    ASSUME Consistent, Consistent', NEW o, NEW p, Frozen(o, p.review),
           p.dossier \in OfOpp(dossiers, o), CurrentChain(p, o)
    PROVE  CurrentChain(p, o)' /\ reviews'[p.review] = reviews[p.review]
<1>1. /\ Matches(p, o) /\ DossierEligible(p.dossier)
      /\ dossiers[p.dossier].prov.assess = p.assess
      /\ dossiers[p.dossier].prov.rev = p.rev
      /\ assessments[p.assess].prov.review = p.review
  BY DEF CurrentChain
<1>2. /\ DossierEligible(p.dossier)' /\ dossiers'[p.dossier] = dossiers[p.dossier]
      /\ assessments'[p.assess] = assessments[p.assess]
  BY <1>1, DossierKept
<1>3. Matches(p, o)'
  BY <1>1, MatchesKept
<1> QED
  BY <1>1, <1>2, <1>3 DEF CurrentChain, Frozen

LEMMA UntouchedFrozen ==
    ASSUME NEW o, NEW r \in OfOpp(reviews, o), Untouched(o)
    PROVE  Frozen(o, r)
  BY DEF Untouched, Frozen, SameRows

LEMMA ReadyChain ==
    ASSUME NEW o, NEW r, NEW a, NEW d \in CurrentDossiers(o),
           assessments[a].prov.review = r, dossiers[d].prov.assess = a
    PROVE  CurrentChain(Chain(o, r, a, d), o)
<1>1. /\ DossierEligible(d) /\ dossiers[d].opp = o
  BY DEF CurrentDossiers, OfOpp
<1>2. Snapshot(o, a) = dossiers[d].prov
  BY <1>1 DEF DossierEligible
<1>3. dossiers[d].prov.rev = opp[o].rev
  BY <1>2 DEF Snapshot
<1> QED
  BY <1>1, <1>3 DEF CurrentChain, Chain, Matches

LEMMA SameChain ==
    ASSUME NEW p, NEW q, NEW o, CurrentChain(p, o), q.rev = p.rev, q.trace = p.trace,
           q.review = p.review, q.assess = p.assess, q.dossier = p.dossier
    PROVE  CurrentChain(q, o)
  BY DEF CurrentChain, Matches

\* Where a handler goes.
LEMMA NextPcs ==
    ASSUME Consistent, NEW s \in Slots
    PROVE  /\ \A pc : Goto(s, pc) => req'[s].pc = pc
           /\ \A pc, p : Become(s, [req[s] EXCEPT !.pc = pc, !.prov = p]) => req'[s].pc = pc
           /\ \A res : Reply(s, res) => req'[s].pc = "done"
<1>1. \A pc : Moves(s, pc) => req'[s].pc = pc
  BY BecomeMoves DEF Moves, Consistent
<1>2. \A pc : Goto(s, pc) => req'[s].pc = pc
  BY <1>1, PcMoves DEF Goto, Consistent
<1>3. \A pc, p : Become(s, [req[s] EXCEPT !.pc = pc, !.prov = p]) => req'[s].pc = pc
  BY <1>1, ProvMoves DEF Consistent
<1>4. \A res : Reply(s, res) => req'[s].pc = "done"
  BY BecomeMoves, AnsweredFields DEF Reply, Consistent
<1> QED
  BY <1>2, <1>3, <1>4

\* The reads of a request for an archive, and its steps in the file system.
LEMMA ArchivingReads ==
    ASSUME Consistent, NEW s \in Slots, Proceed(s), NEW j \in Request, req[s] = j,
           j.kind = "archive", Archiving(j), NEW k, req'[s] = k
    PROVE  Archiving(k)
<1>1. \A res : Reply(s, res) => k.pc = "done"
  BY BecomeMoves, AnsweredFields DEF Reply, Consistent
<1>2. \A job : Become(s, job) => job = k
  BY BecomeMoves DEF Consistent
<1>3. j.prov \in Provenance
  BY DEF Request
<1>4. k.pc \in {"done", "confirm", "unlink"} => Archiving(k)
  BY DEF Archiving
<1>5. \A pc : Goto(s, pc) => k.pc = pc /\ k.prov = j.prov /\ k.opp = j.opp
  BY <1>2 DEF Goto, Request
<1>6. CASE ArchiveReady(s) /\ k.pc # "done"
  <2> PICK o, r, a, d : /\ o = j.opp /\ r = Newest(CurrentReviews(o))
                        /\ a = Newest(CurrentAssessments(o))
                        /\ d = Newest(CurrentDossiers(o))
    OBVIOUS
  <2> PICK p : p = Chain(o, r, a, d)
    OBVIOUS
  <2>1. /\ Become(s, [j EXCEPT !.pc = "stage", !.prov = p])
        /\ d # 0 /\ assessments[a].prov.review = r /\ dossiers[d].prov.assess = a
    BY <1>1, <1>6 DEF ArchiveReady
  <2>2. k.pc = "stage" /\ k.prov = p /\ k.opp = o
    BY <1>2, <2>1 DEF Request
  <2>3. d \in CurrentDossiers(o)
    BY <2>1, NewestIsOneOf
  <2>4. CurrentChain(p, o)
    BY <2>1, <2>3, ReadyChain
  <2> QED
    BY <2>2, <2>4 DEF Archiving
<1>7. CASE ArchiveStage(s)
  <2> PICK id, p : id = NextId(archives) /\ p = ReviewUsed(j.prov, j.prov.review)
    OBVIOUS
  <2>1. Become(s, [j EXCEPT !.pc = "link", !.id = id, !.prov = p]) /\ j.pc = "stage"
    BY <1>7 DEF ArchiveStage, At
  <2>2. k.pc = "link" /\ k.prov = p /\ k.opp = j.opp
    BY <1>2, <2>1 DEF Request
  <2>3. /\ p.rev = j.prov.rev /\ p.trace = j.prov.trace /\ p.review = j.prov.review
        /\ p.assess = j.prov.assess /\ p.dossier = j.prov.dossier
        /\ p.reviewRev = reviews[p.review].rev
    BY <1>3, ProvenanceFields
  <2>4. CurrentChain(p, j.opp)
    BY <2>1, <2>3, SameChain DEF Archiving
  <2> QED
    BY <2>2, <2>3, <2>4 DEF Archiving
<1>8. CASE ArchiveLink(s) /\ k.pc # "done"
  BY <1>1, <1>5, <1>8 DEF ArchiveLink, At, Archiving
<1>9. CASE ArchiveTidy(s) /\ k.pc # "done"
  BY <1>1, <1>5, <1>9 DEF ArchiveTidy, At, Archiving
<1>10. CASE ArchiveAdmit(s)
  BY <1>5, <1>10 DEF ArchiveAdmit, At, Archiving
<1>11. CASE ArchiveInsert(s) \/ ArchiveConfirm(s) \/ ArchiveUnlink(s)
  BY <1>1, <1>4, <1>5, <1>11 DEF ArchiveInsert, ArchiveConfirm, ArchiveUnlink
<1>12. \/ ArchiveReady(s) \/ ArchiveStage(s) \/ ArchiveLink(s) \/ ArchiveTidy(s)
       \/ ArchiveAdmit(s) \/ ArchiveInsert(s) \/ ArchiveConfirm(s) \/ ArchiveUnlink(s)
  BY DEF Proceed, At, EditCheck, EditWrite, CloseCheck, CloseWrite, AddEvidenceCheck,
         AddEvidenceInsert, UpdateEvidenceCheck, UpdateEvidenceWrite,
         ArchiveEvidenceCheck, ArchiveEvidenceWrite, ReviewInputs, ReviewAdmit,
         ReviewInsert, CompleteCheck, CompleteWrite, AssessReady, AssessInputs, AssessRank,
         LegacyRank, AssessAdmit, AssessInsert,
         DossierReady, DossierFind, DossierStage, DossierRank, DossierInsert
<1> QED
  BY <1>4, <1>6, <1>7, <1>8, <1>9, <1>10, <1>11, <1>12

\* What a request knows is kept by the steps that write no table, and by those
\* that leave its opportunity alone.
LEMMA ChainSame ==
    ASSUME DataKept, NEW p, NEW o
    PROVE  CurrentChain(p, o)' <=> CurrentChain(p, o)
  BY DEF DataKept, CurrentChain, DossierEligible, Snapshot, AssessmentEligible,
         ReviewEligible, ReviewStale, Matches, Trace, HasSuccessor

LEMMA ArchivingSame ==
    ASSUME DataKept, NEW j, Archiving(j)
    PROVE  Archiving(j)'
<1>1. CurrentChain(j.prov, j.opp)' <=> CurrentChain(j.prov, j.opp)
  BY ChainSame
<1> QED
  BY <1>1 DEF Archiving, DataKept

LEMMA ArchivingKept ==
    ASSUME Consistent, Consistent', NEW j, j.opp \in Opps, Untouched(j.opp),
           j.kind = "archive",
           j.pc \in {"stage", "link", "tidy", "admit", "insert"} =>
               /\ OneOf(reviews, j.opp, j.prov.review)
               /\ OneOf(dossiers, j.opp, j.prov.dossier),
           Archiving(j)
    PROVE  Archiving(j)'
<1> SUFFICES ASSUME j.pc \in {"stage", "link", "tidy", "admit", "insert"}
             PROVE  Archiving(j)'
  BY DEF Archiving
<1> PICK p : p = j.prov
  OBVIOUS
<1>1. /\ CurrentChain(p, j.opp) /\ p.dossier \in OfOpp(dossiers, j.opp)
      /\ p.review \in OfOpp(reviews, j.opp)
  BY DEF Archiving, OneOf
<1>2. Frozen(j.opp, p.review)
  BY <1>1, UntouchedFrozen
<1>3. CurrentChain(p, j.opp)' /\ reviews'[p.review] = reviews[p.review]
  BY <1>1, <1>2, ChainKept
<1> QED
  BY <1>3 DEF Archiving

LEMMA NextLoneArchiving ==
    ASSUME Consistent, Home, MetOnce, Standing, [ONext]_ovars
    PROVE  LoneArchiving'
<1>1. TypeOK /\ Consistent' /\ [Next]_vars /\ met \subseteq met'
  BY NextMet, NextConsistent DEF Consistent
<1> SUFFICES ASSUME NEW s \in Slots, NEW k \in Request, req'[s] = k, Alone(s)',
                    k.kind = "archive",
                    k.pc \in {"stage", "link", "tidy", "admit", "insert"}
             PROVE  Archiving(k)'
  BY DEF LoneArchiving, Archiving
<1> PICK j \in Request : req[s] = j
  BY <1>1 DEF TypeOK
<1>2. Archiving(j)
  BY <1>1, AloneBefore DEF Standing, LoneArchiving
<1>3. CASE Proceed(s)
  <2>1. j.kind = "archive"
    BY <1>1, <1>3, ProceedMoves
  <2>2. Archiving(k)
    BY <1>2, <1>3, <2>1, ArchivingReads
  <2>3. CASE DataKept
    BY <2>2, <2>3, ArchivingSame
  <2>4. CASE DataWrite(s)
    <3>1. ArchiveInsert(s)
      BY <2>1, <2>4 DEF DataWrite, EvidenceWrite, LedgerWrite, EditWrite, CloseWrite,
                        AddEvidenceInsert, UpdateEvidenceWrite, ArchiveEvidenceWrite,
                        CompleteWrite, ReviewInsert, AssessInsert, DossierInsert, At
    <3>2. \A pc : Goto(s, pc) => k.pc = pc
      BY NextPcs
    <3> QED
      BY <3>1, <3>2 DEF ArchiveInsert
  <2> QED
    BY <1>3, <2>3, <2>4, ProceedData
<1>4. CASE ~Proceed(s)
  <2>1. k = j
    BY <1>1, <1>4, RequestSteps DEF Starts
  <2>2. CASE DataKept
    BY <1>2, <2>1, <2>2, ArchivingSame
  <2>3. ASSUME NEW u \in Slots, Proceed(u), DataWrite(u)
        PROVE  Archiving(k)'
    <3>1. u # s /\ req[u].pc \in Steps /\ j.pc \in Steps
      BY <1>1, <1>4, <2>1, <2>3, ProceedMoves, Words DEF Steps
    <3>2. Alone(s)
      BY <1>1, AloneBefore
    <3>3. j.opp # req[u].opp
      BY <3>1, <3>2, Meet DEF Alone
    <3>4. /\ j.opp \in Opps /\ OneOf(reviews, j.opp, j.prov.review)
          /\ OneOf(dossiers, j.opp, j.prov.dossier)
      BY <2>1, <3>1 DEF Consistent, RequestRefs, JobRefs
    <3>5. Untouched(j.opp)
      BY <2>3, <3>3, <3>4, WritesAtHome
    <3> QED
      BY <1>1, <1>2, <2>1, <3>4, <3>5, ArchivingKept
  <2> QED
    BY <1>1, <2>2, <2>3, StepWrites
<1> QED
  BY <1>3, <1>4

\* Of requests about an archived opportunity, only those that complete a review
\* come to write.
LEMMA LateSteps ==
    ASSUME Consistent, NEW s \in Slots, Proceed(s), Archived(s),
           req'[s].pc \in {"write", "insert"}
    PROVE  /\ req'[s].kind = "complete" /\ req'[s].target = req[s].target
           /\ reviews[req[s].target].status \in OpenStatuses
<1>1. req'[s].kind = req[s].kind
  BY ProceedMoves DEF Consistent
<1>2. CASE req[s].kind = "complete"
  BY <1>1, <1>2, CompletingSteps
<1>3. CASE req[s].kind = "review"
  <2>1. \A res : Reply(s, res) => req'[s].pc = "done"
    BY NextPcs
  <2>2. \A p : Become(s, [req[s] EXCEPT !.pc = "admit", !.prov = p]) => req'[s].pc = "admit"
    BY NextPcs
  <2>3. ReviewInputs(s) \/ ReviewAdmit(s) \/ ReviewInsert(s)
    BY <1>3 DEF Proceed, At, EditCheck, EditWrite, CloseCheck, CloseWrite, AddEvidenceCheck,
         AddEvidenceInsert, UpdateEvidenceCheck, UpdateEvidenceWrite,
         ArchiveEvidenceCheck, ArchiveEvidenceWrite, CompleteCheck, CompleteWrite,
         AssessReady, AssessInputs, AssessRank, LegacyRank, AssessAdmit, AssessInsert,
         DossierReady, DossierFind, DossierStage, DossierRank, DossierInsert,
         ArchiveReady, ArchiveStage, ArchiveLink, ArchiveTidy, ArchiveAdmit,
         ArchiveInsert, ArchiveConfirm, ArchiveUnlink
  <2> QED
    BY <2>1, <2>2, <2>3 DEF ReviewInputs, ReviewAdmit, ReviewInsert
<1>4. CASE req[s].kind \notin {"complete", "review"}
  BY <1>1, <1>4, AdmissionLooks DEF Grants
<1> QED
  BY <1>2, <1>3, <1>4

LEMMA HarmlessSteps ==
    ASSUME Consistent, [Next]_vars, NEW o, opp[o].archived, NEW r,
           reviews[r].status = "Completed", NEW t \in Slots,
           req[t].opp = o => Harmless(req[t], r), req'[t].opp = o
    PROVE  Harmless(req'[t], r)
<1> SUFFICES ASSUME req'[t].pc \in {"write", "insert"}
             PROVE  Harmless(req'[t], r)
  BY DEF Harmless
<1>1. req'[t] = req[t] \/ (Proceed(t) /\ Forward(t))
  BY RequestSteps DEF Starts, FirstSteps, Consistent
<1>2. CASE Proceed(t) /\ Forward(t)
  <2>1. req[t].opp = o
    BY <1>2 DEF Forward, Later, AnswerTo, Sent
  <2>2. /\ req'[t].kind = "complete" /\ req'[t].target = req[t].target
        /\ reviews[req[t].target].status \in OpenStatuses
    BY <1>2, <2>1, LateSteps DEF Archived
  <2> QED
    BY <2>2 DEF Harmless, OpenStatuses
<1> QED
  BY <1>1, <1>2

LEMMA StandsKept ==
    ASSUME Consistent, Home, [Next]_vars, NEW row, row.opp \in Opps,
           OneOf(reviews, row.opp, row.prov.review),
           OneOf(dossiers, row.opp, row.prov.dossier), Stands(row)
    PROVE  Stands(row)'
<1> PICK o, p, r : o = row.opp /\ p = row.prov /\ r = row.prov.review
  OBVIOUS
<1>1. /\ CurrentChain(p, o) /\ opp[o].archived /\ p.reviewRev = reviews[r].rev
      /\ \A t \in Slots : req[t].opp = o => Harmless(req[t], r)
      /\ p.dossier \in OfOpp(dossiers, o) /\ r \in OfOpp(reviews, o)
  BY DEF Stands, OneOf
<1>2. reviews[r].status = "Completed"
  BY <1>1 DEF CurrentChain, DossierEligible, AssessmentEligible, ReviewEligible
<1>3. \A t \in Slots : req'[t].opp = o => Harmless(req'[t], r)
  BY <1>1, <1>2, HarmlessSteps
<1>4. Frozen(o, r) /\ opp'[o].archived
  <2>1. CASE DataKept
    BY <1>1, <2>1 DEF DataKept, Frozen
  <2>2. ASSUME NEW u \in Slots, DataWrite(u)
        PROVE  Frozen(o, r) /\ opp'[o].archived
    <3>1. CASE req[u].opp # o
      <4>1. Untouched(o)
        BY <2>2, <3>1, WritesAtHome
      <4> QED
        BY <1>1, <4>1, UntouchedFrozen DEF Untouched
    <3>2. CASE req[u].opp = o
      <4>1. Harmless(req[u], r)
        BY <1>1, <3>2
      <4>2. CompleteWrite(u) /\ req[u].target # r
        BY <2>2, <4>1 DEF Harmless, DataWrite, EvidenceWrite, LedgerWrite, EditWrite, CloseWrite,
             AddEvidenceInsert, UpdateEvidenceWrite, ArchiveEvidenceWrite, CompleteWrite,
             ReviewInsert, AssessInsert, DossierInsert, ArchiveInsert, At
      <4>3. /\ UNCHANGED <<opp, evid, assessments, dossiers>>
            /\ reviews'[r] = reviews[r]
        BY <1>1, <4>2 DEF CompleteWrite, CompleteReview, OfOpp
      <4> QED
        BY <1>1, <4>3 DEF Frozen
    <3> QED
      BY <3>1, <3>2
  <2> QED
    BY <2>1, <2>2, StepWrites
<1>5. CurrentChain(p, o)' /\ reviews'[r] = reviews[r]
  <2>1. Frozen(o, p.review)
    BY <1>4
  <2> QED
    BY <1>1, <2>1, ChainKept, NextConsistent
<1> QED
  BY <1>1, <1>3, <1>4, <1>5 DEF Stands

\* What a new archive is.
LEMMA ArchiveInserted ==
    ASSUME Consistent, NEW s \in Slots, ArchiveInsert(s),
           InsertArchive(NewArchive(s), req[s].id)
    PROVE  \E n :
              /\ DOMAIN archives' = DOMAIN archives \cup {n}
              /\ n \notin DOMAIN archives
              /\ \A i \in DOMAIN archives : archives'[i] = archives[i]
              /\ archives'[n].opp = req[s].opp /\ archives'[n].by = s
              /\ archives'[n].prov = req[s].prov
              /\ opp'[req[s].opp].archived
              /\ \A r : Frozen(req[s].opp, r)
<1> PICK row : row = NewArchive(s)
  OBVIOUS
<1>1. row.opp = req[s].opp /\ row.by = s /\ row.prov = req[s].prov
  BY DEF NewArchive
<1>2. row \in ArchiveRow /\ archives \in Seq(ArchiveRow)
  BY NewRows DEF Consistent, TypeOK, StoreTypeOK, ArchiveInsert
<1>3. /\ archives' = Append(archives, row)
      /\ opp' = [opp EXCEPT ![row.opp].archived = TRUE, ![row.opp].state = "Archived"]
      /\ UNCHANGED <<evid, reviews, assessments, dossiers>>
  <2>1. InsertArchive(row, req[s].id)
    OBVIOUS
  <2> QED
    BY <2>1 DEF InsertArchive
<1>4. /\ DOMAIN archives = 1..Len(archives) /\ Len(archives) \in Nat
      /\ DOMAIN archives' = 1..(Len(archives) + 1)
      /\ \A i \in DOMAIN archives : archives'[i] = archives[i]
      /\ archives'[Len(archives) + 1] = row
  BY <1>2, <1>3, AppendRow
<1> PICK n : n = Len(archives) + 1
  OBVIOUS
<1>5. DOMAIN archives' = DOMAIN archives \cup {n} /\ n \notin DOMAIN archives
  BY <1>4
<1>6. archives'[n] = row
  BY <1>4
<1>7. /\ opp'[row.opp].archived
      /\ opp'[row.opp].rev = opp[row.opp].rev /\ opp'[row.opp].stamp = opp[row.opp].stamp
  <2>1. opp \in [Opps -> OppRow] /\ row.opp \in Opps
    BY <1>2 DEF Consistent, TypeOK, StoreTypeOK, ArchiveRow
  <2> QED
    BY <1>3, <2>1 DEF OppRow
<1>8. \A r : Frozen(row.opp, r)
  BY <1>3, <1>7 DEF Frozen
<1> QED
  BY <1>1, <1>4, <1>5, <1>6, <1>7, <1>8

LEMMA NextArchivesStand ==
    ASSUME Consistent, Home, MetOnce, Standing, [ONext]_ovars
    PROVE  ArchivesStand'
<1>1. TypeOK /\ Consistent' /\ [Next]_vars /\ met \subseteq met'
  BY NextMet, NextConsistent DEF Consistent
<1>2. ASSUME NEW i \in DOMAIN archives, NEW row, row = archives[i],
             NEW by, by = row.by, Alone(by)'
      PROVE  Stands(row)'
  <2>1. Stands(row)
    BY <1>1, <1>2, AloneBefore DEF Standing, ArchivesStand
  <2>2. /\ row.opp \in Opps /\ OneOf(reviews, row.opp, row.prov.review)
        /\ OneOf(dossiers, row.opp, row.prov.dossier)
    BY <1>2, RowTypes DEF Consistent, ReferentialIntegrity, ArchiveRefs
  <2> QED
    BY <1>1, <2>1, <2>2, StandsKept
<1>3. CASE archives' = archives
  <2> SUFFICES ASSUME NEW i \in DOMAIN archives, NEW row, row = archives[i],
                      NEW by, by = row.by, Alone(by)'
               PROVE  Stands(row)'
    BY <1>3 DEF ArchivesStand, Alone, Stands
  <2> QED
    BY <1>2
<1>4. ASSUME NEW s \in Slots, Proceed(s), ArchiveInsert(s),
             InsertArchive(NewArchive(s), req[s].id)
      PROVE  ArchivesStand'
  <2> PICK n : /\ DOMAIN archives' = DOMAIN archives \cup {n}
               /\ n \notin DOMAIN archives
               /\ \A i \in DOMAIN archives : archives'[i] = archives[i]
               /\ archives'[n].opp = req[s].opp /\ archives'[n].by = s
               /\ archives'[n].prov = req[s].prov
               /\ opp'[req[s].opp].archived
               /\ \A r : Frozen(req[s].opp, r)
    BY <1>4, ArchiveInserted
  <2> PICK j \in Request : j = req[s]
    BY <1>1 DEF TypeOK
  <2>1. /\ j.kind = "archive" /\ j.pc = "insert"
        /\ OneOf(reviews, j.opp, j.prov.review) /\ OneOf(dossiers, j.opp, j.prov.dossier)
    <3>1. j.kind = "archive" /\ j.pc = "insert"
      BY <1>4 DEF ArchiveInsert, At
    <3> QED
      BY <3>1, Words DEF Consistent, RequestRefs, JobRefs
  <2>2. ASSUME Alone(s)', NEW row, row = archives'[n]
        PROVE  Stands(row)'
    <3>1. Alone(s) /\ Archiving(j)
      BY <1>1, <2>2, AloneBefore DEF Standing, LoneArchiving
    <3>2. CurrentChain(j.prov, j.opp) /\ j.prov.reviewRev = reviews[j.prov.review].rev
      BY <2>1, <3>1 DEF Archiving
    <3>3. CurrentChain(j.prov, j.opp)' /\ reviews'[j.prov.review] = reviews[j.prov.review]
      BY <1>1, <2>1, <3>2, ChainKept DEF OneOf
    <3>4. ASSUME NEW t \in Slots, req'[t].opp = j.opp
          PROVE  req'[t].pc \notin {"write", "insert"}
      <4>1. CASE t = s
        <5>1. \A pc : Goto(s, pc) => req'[s].pc = pc
          BY NextPcs
        <5> QED
          BY <1>4, <4>1, <5>1 DEF ArchiveInsert
      <4>2. CASE t # s
        <5>1. req'[t] = req[t]
          BY <1>1, <1>4, <4>2, ProceedMoves
        <5>2. req[t].pc \notin Steps
          BY <2>1, <3>1, <3>4, <4>2, <5>1, Meet, Words DEF Alone
        <5> QED
          BY <5>1, <5>2 DEF Steps
      <4> QED
        BY <4>1, <4>2
    <3>5. row.opp = j.opp /\ row.prov = j.prov
      BY <2>2
    <3> QED
      BY <3>2, <3>3, <3>4, <3>5 DEF Stands, Harmless
  <2> SUFFICES ASSUME NEW i \in DOMAIN archives', NEW by, by = archives'[i].by, Alone(by)',
                      NEW row, row = archives'[i]
               PROVE  Stands(row)'
    BY DEF ArchivesStand, Alone, Stands
  <2>3. CASE i \in DOMAIN archives
    <3>1. row = archives[i] /\ by = row.by
      BY <2>3
    <3> QED
      BY <1>2, <2>3, <3>1
  <2>4. CASE i = n
    BY <2>2, <2>4
  <2> QED
    BY <2>3, <2>4
<1>5. ASSUME NEW s \in Slots, DataWrite(s), archives' # archives
      PROVE  ArchiveInsert(s) /\ InsertArchive(NewArchive(s), req[s].id)
  BY <1>5 DEF DataWrite, EvidenceWrite, LedgerWrite, EditWrite, CloseWrite,
         UpdateEvidenceWrite, ArchiveEvidenceWrite, CompleteWrite, UpdateOpportunity,
         ArchiveOpportunity, InsertEvidence, UpdateEvidence, ArchiveEvidence,
         CompleteReview, InsertReview, InsertAssessment, InsertDossier
<1> QED
  BY <1>1, <1>3, <1>4, <1>5, StepWrites DEF DataKept

LEMMA InitStanding == OInit => Standing
<1> SUFFICES ASSUME OInit
             PROVE  Standing
  OBVIOUS
<1>1. (\A s \in Slots : req[s].kind = "none") /\ archives = <<>>
  BY DEF OInit, Init, StoreInit, Idle
<1> QED
  BY <1>1 DEF Standing, LoneArchiving, Archiving, ArchivesStand

LEMMA ArchivedChain ==
    ASSUME ArchivesStand
    PROVE  ArchivedChainCurrent
<1> SUFFICES ASSUME NEW i \in DOMAIN archives, Alone(archives[i].by),
                    NEW p, p = archives[i].prov
             PROVE  /\ Matches(p, archives[i].opp) /\ DossierEligible(p.dossier)
                    /\ p.reviewRev = dossiers[p.dossier].prov.reviewRev
                    /\ p.reviewRev = assessments[p.assess].prov.reviewRev
                    /\ p.rev = dossiers[p.dossier].prov.rev
  BY DEF ArchivedChainCurrent
<1>1. CurrentChain(p, archives[i].opp) /\ p.reviewRev = reviews[p.review].rev
  BY DEF ArchivesStand, Stands
<1>2. /\ Matches(p, archives[i].opp) /\ DossierEligible(p.dossier)
      /\ dossiers[p.dossier].prov.assess = p.assess
      /\ dossiers[p.dossier].prov.rev = p.rev
      /\ assessments[p.assess].prov.review = p.review
  BY <1>1 DEF CurrentChain
<1>3. /\ AssessmentEligible(p.assess)
      /\ Snapshot(dossiers[p.dossier].opp, p.assess) = dossiers[p.dossier].prov
  BY <1>2 DEF DossierEligible
<1>4. dossiers[p.dossier].prov.reviewRev = reviews[p.review].rev
  BY <1>2, <1>3 DEF Snapshot
<1>5. assessments[p.assess].prov.reviewRev = reviews[p.review].rev
  BY <1>2, <1>3 DEF AssessmentEligible
<1> QED
  BY <1>1, <1>2, <1>4, <1>5

\* An archive that was made while no other request of its opportunity was in
\* flight names a chain that is current, and stays so for ever, whatever
\* overlaps before and after: the handlers refuse an archived opportunity, but
\* for the completion of a review, and that is not of a completed one.
THEOREM ArchivesStayCurrent == OSpec => []ArchivedChainCurrent
<1> DEFINE Inv == Consistent /\ Home /\ MetOnce /\ Standing
<1>1. OInit => Inv
  BY InitConsistent, InitHome, InitMet, InitStanding DEF OInit
<1>2. Inv /\ [ONext]_ovars => Inv'
  BY NextMet, NextConsistent, NextHome, NextLoneArchiving, NextArchivesStand DEF Standing
<1>3. Inv => ArchivedChainCurrent
  BY ArchivedChain DEF Standing
<1> HIDE DEF Inv
<1> QED
  BY <1>1, <1>2, <1>3, PTL DEF OSpec

=============================================================================
