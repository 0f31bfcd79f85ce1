------------------------------ MODULE Lifecycle ------------------------------
(***************************************************************************)
(* The requests of the AnchorIntel decision service, executed by the       *)
(* threads of its ThreadingHTTPServer against the shared LifecycleStore.   *)
(*                                                                         *)
(* A request is a record in req[s].  Its handler opens a new SQLite        *)
(* connection for every access, and a transaction begins only with the     *)
(* first INSERT or UPDATE, so what a handler read is not protected when it *)
(* writes: each action below is one read, or one write transaction, or one *)
(* file-system call, and requests interleave between them.                 *)
(*                                                                         *)
(* Simplifications of the reads.  A readiness computation, several SELECTs *)
(* in the code, is one step, and so is the reading of an opportunity and   *)
(* of its evidence.  Consecutive reads whose conditions only ever turn     *)
(* from true to false (not archived, not superseded) are one step.  The    *)
(* next archive identifier and the review that goes into the package are   *)
(* one step: the writes that can come between those two reads touch one of *)
(* them only and commute.  "Newest" is the highest identifier; the code    *)
(* sorts on created_at, which differs only for two inserts racing each     *)
(* other.                                                                  *)
(***************************************************************************)
EXTENDS LifecycleStore, FiniteSets

CONSTANTS
    NoEvidence,   \* the evidence of a request that concerns none
    Kinds,        \* the kinds of request of the workload
    Concurrency,  \* how many requests are in flight at most
    FaultPoints,  \* where a database or file access of an archive request may fail
    MaxCrashes    \* how often the process may die

AllKinds ==
    {"edit", "close", "addEvidence", "updateEvidence", "archiveEvidence",
     "review", "complete", "assess", "legacy", "dossier", "archive"}

ASSUME RequestAssumption ==
    /\ NoEvidence \notin Evidence
    /\ Kinds \subseteq AllKinds
    /\ Concurrency \in Nat
    /\ FaultPoints \subseteq {"link", "tidy", "insert", "confirm", "unlink"}
    /\ MaxCrashes \in Nat

VARIABLES
    req,      \* the request of each slot
    crashes   \* how often the process died

vars == <<store, req, crashes>>

Modes == {"none", "Draft", "Completed", "Fails", "run", "revalidate"}
Steps == {"check", "inputs", "ready", "find", "rank", "admit", "stage", "link",
          "tidy", "write", "insert", "confirm", "unlink"}
Results == {"none", "ok", "refused", "error"}

\* Request: the fields a client sends (kind, opp, item, target, expect, mode),
\* what the handler has read so far (prov, sup, id) and its answer (res).
\* expect = 0 is a request without If-Match; target = 0 names no row.
Request ==
    [kind: AllKinds \cup {"none"}, pc: Steps \cup {"idle", "done", "lost"},
     opp: Opps \cup {NoOpp}, item: Evidence \cup {NoEvidence},
     target: Nat, expect: Nat, mode: Modes,
     prov: Provenance, sup: Nat, id: Nat, res: Results]

Idle ==
    [kind |-> "none", pc |-> "idle", opp |-> NoOpp, item |-> NoEvidence,
     target |-> 0, expect |-> 0, mode |-> "none",
     prov |-> NoProvenance, sup |-> 0, id |-> 0, res |-> "none"]

TypeOK ==
    /\ StoreTypeOK
    /\ req \in [Slots -> Request]
    /\ crashes \in Nat

Init ==
    /\ StoreInit
    /\ req = [s \in Slots |-> Idle]
    /\ crashes = 0

InFlight == {s \in Slots : req[s].pc \in Steps}

-----------------------------------------------------------------------------
(* Moves of a request.                                                     *)

At(s, kind, pc) == req[s].kind = kind /\ req[s].pc = pc

Become(s, job) == req' = [req EXCEPT ![s] = job]

Goto(s, pc) == Become(s, [req[s] EXCEPT !.pc = pc])

\* What is kept of an answered request is what the properties compare.
Answered(j, res) ==
    [Idle EXCEPT !.kind = j.kind, !.pc = "done", !.opp = j.opp, !.item = j.item,
                 !.expect = j.expect, !.res = res]

Reply(s, res) == Become(s, Answered(req[s], res))

ReadOnly == UNCHANGED <<store, crashes>>

\* Mutant: If-Match is ignored.
NeverConflict(expect, rev) == FALSE

\* If-Match against the revision just read.
Conflict(expect, rev) == expect # 0 /\ expect # rev

Archived(s) == opp[req[s].opp].archived

-----------------------------------------------------------------------------
(* Arrival of a request: one alternative per route of app.py that writes.  *)

Submit(s, job) ==
    /\ req[s].pc = "idle"
    /\ job.kind \in Kinds
    /\ Cardinality(InFlight) < Concurrency
    /\ Become(s, job)
    /\ ReadOnly

Job(kind, pc, o) == [Idle EXCEPT !.kind = kind, !.pc = pc, !.opp = o]

\* The If-Match of a client: none, or a revision it read, perhaps long ago.
Expected(rev) == 0..rev

SubmitEdit(s) ==
    \E o \in Opps : \E n \in Expected(opp[o].rev) :
        Submit(s, [Job("edit", "check", o) EXCEPT !.expect = n])

SubmitClose(s) == \E o \in Opps : Submit(s, Job("close", "check", o))

SubmitAddEvidence(s) ==
    \E o \in Opps, e \in Evidence :
        Submit(s, [Job("addEvidence", "check", o) EXCEPT !.item = e])

SubmitEvidenceChange(s) ==
    \E kind \in {"updateEvidence", "archiveEvidence"}, e \in Evidence :
        \E n \in Expected(evid[e].rev) :
            /\ evid[e].opp # NoOpp
            /\ Submit(s, [Job(kind, "check", evid[e].opp) EXCEPT
                             !.item = e, !.expect = n])

\* A review is requested afresh, as a draft or complete, or as the successor
\* of an existing one; the module's executor may fail in either case.
SubmitReview(s) ==
    \E o \in Opps, mode \in {"Draft", "Completed", "Fails"} :
        \E r \in OfOpp(reviews, o) \cup {0} :
            /\ mode = "Draft" => r = 0
            /\ Submit(s, [Job("review", "inputs", o) EXCEPT !.mode = mode, !.target = r])

SubmitComplete(s) ==
    \E r \in DOMAIN reviews : \E n \in Expected(reviews[r].rev) :
        Submit(s, [Job("complete", "check", reviews[r].opp) EXCEPT
                      !.target = r, !.expect = n])

SubmitAssess(s) ==
    \E o \in Opps : \E r \in OfOpp(reviews, o) \cup {0} :
        Submit(s, [Job("assess", "ready", o) EXCEPT !.target = r])

SubmitLegacy(s) ==
    \E o \in Opps, mode \in {"run", "revalidate"} :
        Submit(s, [Job("legacy", "rank", o) EXCEPT !.mode = mode])

SubmitDossier(s) ==
    \E o \in Opps : \E a \in OfOpp(assessments, o) \cup {0} :
        Submit(s, [Job("dossier", "ready", o) EXCEPT !.target = a])

SubmitArchive(s) == \E o \in Opps : Submit(s, Job("archive", "ready", o))

Arrive(s) ==
    \/ SubmitEdit(s) \/ SubmitClose(s)
    \/ SubmitAddEvidence(s) \/ SubmitEvidenceChange(s)
    \/ SubmitReview(s) \/ SubmitComplete(s)
    \/ SubmitAssess(s) \/ SubmitLegacy(s)
    \/ SubmitDossier(s) \/ SubmitArchive(s)

-----------------------------------------------------------------------------
(* Opportunities.                                                          *)

EditCheck(s) ==
    /\ At(s, "edit", "check")
    /\ IF Archived(s) \/ Conflict(req[s].expect, opp[req[s].opp].rev)
       THEN Reply(s, "refused")
       ELSE Goto(s, "write")
    /\ ReadOnly

EditWrite(s) ==
    /\ At(s, "edit", "write")
    /\ UpdateOpportunity(req[s].opp)
    /\ Reply(s, "ok")
    /\ UNCHANGED crashes

CloseCheck(s) ==
    /\ At(s, "close", "check")
    /\ IF Archived(s) THEN Reply(s, "ok") ELSE Goto(s, "write")
    /\ ReadOnly

CloseWrite(s) ==
    /\ At(s, "close", "write")
    /\ ArchiveOpportunity(req[s].opp)
    /\ Reply(s, "ok")
    /\ UNCHANGED crashes

-----------------------------------------------------------------------------
(* Evidence.                                                               *)

AddEvidenceCheck(s) ==
    /\ At(s, "addEvidence", "check")
    /\ IF Archived(s) THEN Reply(s, "refused") ELSE Goto(s, "insert")
    /\ ReadOnly

AddEvidenceInsert(s) ==
    /\ At(s, "addEvidence", "insert")
    /\ \/ InsertEvidence(req[s].item, req[s].opp) /\ Reply(s, "ok")
       \/ /\ evid[req[s].item].opp # NoOpp
          /\ Reply(s, "refused")
          /\ UNCHANGED store
    /\ UNCHANGED crashes

\* Mutant: the opportunity's archived flag is not looked at.
UpdateEvidenceCheckOpen(s) ==
    /\ At(s, "updateEvidence", "check")
    /\ IF evid[req[s].item].archived \/ Conflict(req[s].expect, evid[req[s].item].rev)
       THEN Reply(s, "refused")
       ELSE Goto(s, "write")
    /\ ReadOnly

UpdateEvidenceCheck(s) ==
    /\ At(s, "updateEvidence", "check")
    /\ IF \/ Archived(s)
          \/ evid[req[s].item].archived
          \/ Conflict(req[s].expect, evid[req[s].item].rev)
       THEN Reply(s, "refused")
       ELSE Goto(s, "write")
    /\ ReadOnly

UpdateEvidenceWrite(s) ==
    /\ At(s, "updateEvidence", "write")
    /\ UpdateEvidence(req[s].item)
    /\ Reply(s, "ok")
    /\ UNCHANGED crashes

\* Archiving what is archived already answers without a write, but only after
\* the If-Match comparison.
ArchiveEvidenceCheck(s) ==
    /\ At(s, "archiveEvidence", "check")
    /\ IF Archived(s) \/ Conflict(req[s].expect, evid[req[s].item].rev)
       THEN Reply(s, "refused")
       ELSE IF evid[req[s].item].archived THEN Reply(s, "ok") ELSE Goto(s, "write")
    /\ ReadOnly

ArchiveEvidenceWrite(s) ==
    /\ At(s, "archiveEvidence", "write")
    /\ ArchiveEvidence(req[s].item)
    /\ Reply(s, "ok")
    /\ UNCHANGED crashes

-----------------------------------------------------------------------------
(* Knowledge reviews.                                                      *)

\* The revision and the active evidence the handler works with from now on.
Reread(prov, o) == [prov EXCEPT !.rev = opp[o].rev, !.trace = Trace(o)]

ReviewInputs(s) ==
    /\ At(s, "review", "inputs")
    /\ IF Archived(s)
       THEN Reply(s, "refused")
       ELSE Become(s, [req[s] EXCEPT !.pc = "admit", !.prov = Reread(@, req[s].opp)])
    /\ ReadOnly

\* The identifier is read here and used in the INSERT.
ReviewAdmit(s) ==
    /\ At(s, "review", "admit")
    /\ IF \/ Archived(s)
          \/ req[s].target # 0 /\ reviews[req[s].target].status = "Superseded"
       THEN Reply(s, "refused")
       ELSE Become(s, [req[s] EXCEPT !.pc = "insert", !.id = NextId(reviews)])
    /\ ReadOnly

\* A failing executor still leaves a review, in status Incomplete.
NewReview(s) ==
    LET j == req[s]
    IN  [opp |-> j.opp, by |-> s, prov |-> j.prov, sup |-> j.target,
         status |-> IF j.mode = "Fails" THEN "Incomplete" ELSE j.mode,
         rev |-> 1, failed |-> j.mode = "Fails"]

\* Mutant: the identifier is computed by the INSERT itself.
ReviewInsertNext(s) ==
    /\ At(s, "review", "insert")
    /\ InsertReview(NewReview(s), NextId(reviews))
    /\ Reply(s, "ok")
    /\ UNCHANGED crashes

ReviewInsert(s) ==
    /\ At(s, "review", "insert")
    /\ \/ InsertReview(NewReview(s), req[s].id) /\ Reply(s, "ok")
       \/ /\ ~IdFree(reviews, req[s].id)
          /\ Reply(s, "refused")
          /\ UNCHANGED store
    /\ UNCHANGED crashes

\* Mutant: any status but Completed may be completed.
CompleteCheckAny(s) ==
    LET r == req[s].target
    IN  /\ At(s, "complete", "check")
        /\ IF ReviewStale(r) \/ Conflict(req[s].expect, reviews[r].rev)
           THEN Reply(s, "refused")
           ELSE IF reviews[r].status = "Completed" THEN Reply(s, "ok")
           ELSE Goto(s, "write")
        /\ ReadOnly

\* Neither the opportunity's archived flag nor the failure of the module is
\* looked at.
CompleteCheck(s) ==
    LET r == req[s].target
    IN  /\ At(s, "complete", "check")
        /\ IF ReviewStale(r) THEN Reply(s, "refused")
           ELSE IF reviews[r].status = "Completed" THEN Reply(s, "ok")
           ELSE IF \/ reviews[r].status \notin OpenStatuses
                   \/ Conflict(req[s].expect, reviews[r].rev)
           THEN Reply(s, "refused")
           ELSE Goto(s, "write")
        /\ ReadOnly

CompleteWrite(s) ==
    /\ At(s, "complete", "write")
    /\ CompleteReview(req[s].target)
    /\ Reply(s, "ok")
    /\ UNCHANGED crashes

-----------------------------------------------------------------------------
(* Assessments.                                                            *)

ReviewUsed(prov, r) == [prov EXCEPT !.review = r, !.reviewRev = reviews[r].rev]

AssessReady(s) ==
    LET o == req[s].opp
        r == IF req[s].target = 0 THEN DefaultReview(o) ELSE req[s].target
    IN  /\ At(s, "assess", "ready")
        /\ IF ~Archived(s) /\ Trace(o) # {} /\ r # 0 /\ ReviewEligible(r)
           THEN Become(s, [req[s] EXCEPT !.pc = "inputs", !.prov = ReviewUsed(@, r)])
           ELSE Reply(s, "refused")
        /\ ReadOnly

\* The opportunity and the evidence are read again, the review is not.
AssessInputs(s) ==
    /\ At(s, "assess", "inputs")
    /\ IF Archived(s)
       THEN Reply(s, "refused")
       ELSE Become(s, [req[s] EXCEPT !.pc = "rank", !.prov = Reread(@, req[s].opp)])
    /\ ReadOnly

\* Mutant: the new assessment supersedes nothing.
AssessRankNone(s) ==
    /\ At(s, "assess", "rank")
    /\ Become(s, [req[s] EXCEPT !.pc = "admit", !.sup = 0])
    /\ ReadOnly

\* The assessment to supersede is chosen before the identifier is read.
AssessRank(s) ==
    /\ At(s, "assess", "rank")
    /\ Become(s, [req[s] EXCEPT !.pc = "admit",
                                !.sup = Newest(CurrentAssessments(req[s].opp))])
    /\ ReadOnly

\* POST /v1/assessments and /v1/lifecycle/revalidations.  The optional edit of
\* a revalidation is an edit request with If-Match by the same client.
LegacyRank(s) ==
    LET latest == Newest(OfOpp(assessments, req[s].opp))
    IN  /\ At(s, "legacy", "rank")
        /\ IF Archived(s) \/ (req[s].mode = "revalidate" /\ latest = 0)
           THEN Reply(s, "refused")
           ELSE Become(s, [req[s] EXCEPT !.pc = "admit",
                              !.sup = IF req[s].mode = "revalidate" THEN latest ELSE 0])
        /\ ReadOnly

AssessAdmit(s) ==
    /\ req[s].kind \in {"assess", "legacy"} /\ req[s].pc = "admit"
    /\ IF Archived(s)
       THEN Reply(s, "refused")
       ELSE Become(s, [req[s] EXCEPT !.pc = "insert", !.id = NextId(assessments)])
    /\ ReadOnly

NewAssessment(s) ==
    LET j == req[s]
    IN  [opp |-> j.opp, by |-> s, prov |-> j.prov, sup |-> j.sup,
         kind |-> IF j.kind = "assess" THEN "spatial" ELSE "legacy"]

\* A taken identifier is not caught here: the request ends in a server error.
AssessInsert(s) ==
    /\ req[s].kind \in {"assess", "legacy"} /\ req[s].pc = "insert"
    /\ \/ InsertAssessment(NewAssessment(s), req[s].id) /\ Reply(s, "ok")
       \/ /\ ~IdFree(assessments, req[s].id)
          /\ Reply(s, "error")
          /\ UNCHANGED store
    /\ UNCHANGED crashes

-----------------------------------------------------------------------------
(* Dossiers.                                                               *)

DossierReady(s) ==
    LET o == req[s].opp
        a == IF req[s].target = 0 THEN Newest(CurrentAssessments(o)) ELSE req[s].target
    IN  /\ At(s, "dossier", "ready")
        /\ IF ~Archived(s) /\ Trace(o) # {} /\ a # 0 /\ AssessmentEligible(a)
           THEN Become(s, [req[s] EXCEPT !.pc = "find", !.prov = Snapshot(o, a)])
           ELSE Reply(s, "refused")
        /\ ReadOnly

\* A dossier with the same input hash is returned again.
DossierFind(s) ==
    /\ At(s, "dossier", "find")
    /\ IF \E d \in OfOpp(dossiers, req[s].opp) : dossiers[d].prov = req[s].prov
       THEN Reply(s, "ok")
       ELSE Goto(s, "stage")
    /\ ReadOnly

\* The identifier is read before the dossier to supersede is chosen.
DossierStage(s) ==
    /\ At(s, "dossier", "stage")
    /\ Become(s, [req[s] EXCEPT !.pc = "rank", !.id = NextId(dossiers)])
    /\ ReadOnly

DossierRank(s) ==
    /\ At(s, "dossier", "rank")
    /\ IF Archived(s)
       THEN Reply(s, "refused")
       ELSE Become(s, [req[s] EXCEPT !.pc = "insert",
                                     !.sup = Newest(CurrentDossiers(req[s].opp))])
    /\ ReadOnly

NewDossier(s) ==
    [opp |-> req[s].opp, by |-> s, prov |-> req[s].prov, sup |-> req[s].sup]

DossierInsert(s) ==
    /\ At(s, "dossier", "insert")
    /\ \/ InsertDossier(NewDossier(s), req[s].id) /\ Reply(s, "ok")
       \/ /\ ~IdFree(dossiers, req[s].id) \/ ~SnapshotFree(NewDossier(s))
          /\ Reply(s, "refused")
          /\ UNCHANGED store
    /\ UNCHANGED crashes

-----------------------------------------------------------------------------
(* Archives: a package in the file system and a row in the database.       *)

Chain(o, r, a, d) ==
    [rev |-> opp[o].rev, stamp |-> 0, trace |-> Trace(o),
     review |-> r, reviewRev |-> 0, assess |-> a, dossier |-> d]

ArchiveReady(s) ==
    LET o == req[s].opp
        r == Newest(CurrentReviews(o))
        a == Newest(CurrentAssessments(o))
        d == Newest(CurrentDossiers(o))
    IN  /\ At(s, "archive", "ready")
        /\ IF /\ NoCurrentArchive(o) /\ ~Archived(s) /\ Trace(o) # {}
              /\ r # 0 /\ a # 0 /\ d # 0
              /\ assessments[a].prov.review = r
              /\ dossiers[d].prov.assess = a
              /\ dossiers[d].prov.review = r
           THEN Become(s, [req[s] EXCEPT !.pc = "stage", !.prov = Chain(o, r, a, d)])
           ELSE Reply(s, "refused")
        /\ ReadOnly

\* The identifier, which names the package, and the review read again.
ArchiveStage(s) ==
    /\ At(s, "archive", "stage")
    /\ Become(s, [req[s] EXCEPT !.pc = "link", !.id = NextId(archives),
                                !.prov = ReviewUsed(@, req[s].prov.review)])
    /\ ReadOnly

\* The content is written under a temporary name and linked to the name of the
\* package.  Losing the race for it leaves the winner's package alone.
ArchiveLink(s) ==
    /\ At(s, "archive", "link")
    /\ \/ LinkPackage(req[s].id, s) /\ Goto(s, "tidy")
       \/ PackageExists(req[s].id) /\ Reply(s, "refused") /\ UNCHANGED store
       \/ "link" \in FaultPoints /\ Reply(s, "error") /\ UNCHANGED store
    /\ UNCHANGED crashes

\* The temporary name is removed.  Only then does the handler count the
\* package as installed, so a failure here removes nothing.
ArchiveTidy(s) ==
    /\ At(s, "archive", "tidy")
    /\ \/ Goto(s, "admit")
       \/ "tidy" \in FaultPoints /\ Reply(s, "error")
    /\ ReadOnly

\* Mutant: a closed opportunity is refused before the clean-up.
ArchiveAdmitEarly(s) ==
    /\ At(s, "archive", "admit")
    /\ IF Archived(s) THEN Reply(s, "refused") ELSE Goto(s, "insert")
    /\ ReadOnly

ArchiveAdmit(s) ==
    /\ At(s, "archive", "admit")
    /\ Goto(s, IF Archived(s) THEN "unlink" ELSE "insert")
    /\ ReadOnly

NewArchive(s) == [opp |-> req[s].opp, by |-> s, prov |-> req[s].prov]

ArchiveInsert(s) ==
    /\ At(s, "archive", "insert")
    /\ \/ InsertArchive(NewArchive(s), req[s].id) /\ Goto(s, "confirm")
       \/ /\ \/ ~IdFree(archives, req[s].id)
             \/ ~NoCurrentArchive(req[s].opp)
             \/ "insert" \in FaultPoints
          /\ Goto(s, "unlink")
          /\ UNCHANGED store
    /\ UNCHANGED crashes

\* The committed row is read back inside the same try block.
ArchiveConfirm(s) ==
    /\ At(s, "archive", "confirm")
    /\ \/ Reply(s, "ok")
       \/ "confirm" \in FaultPoints /\ Goto(s, "unlink")
    /\ ReadOnly

\* Mutant: only the temporary file is removed.
ArchiveKeepPackage(s) ==
    /\ At(s, "archive", "unlink")
    /\ Reply(s, "refused")
    /\ ReadOnly

ArchiveUnlink(s) ==
    /\ At(s, "archive", "unlink")
    /\ \/ UnlinkPackage(req[s].id) /\ Reply(s, "refused")
       \/ "unlink" \in FaultPoints /\ Reply(s, "error") /\ UNCHANGED store
    /\ UNCHANGED crashes

-----------------------------------------------------------------------------
(* The process.                                                            *)

\* The process dies: every request in flight is lost, the store is what the
\* committed transactions and completed file-system calls made it.
Crash ==
    /\ crashes < MaxCrashes
    /\ InFlight # {}
    /\ crashes' = crashes + 1
    /\ req' = [s \in Slots |->
                 IF s \in InFlight
                 THEN [Idle EXCEPT !.kind = req[s].kind, !.pc = "lost"]
                 ELSE req[s]]
    /\ UNCHANGED store

\* Every request was made and answered, or died.
Quiescent == \A s \in Slots : req[s].pc \in {"done", "lost"}

Finished == Quiescent /\ UNCHANGED vars

Proceed(s) ==
    \/ EditCheck(s) \/ EditWrite(s) \/ CloseCheck(s) \/ CloseWrite(s)
    \/ AddEvidenceCheck(s) \/ AddEvidenceInsert(s)
    \/ UpdateEvidenceCheck(s) \/ UpdateEvidenceWrite(s)
    \/ ArchiveEvidenceCheck(s) \/ ArchiveEvidenceWrite(s)
    \/ ReviewInputs(s) \/ ReviewAdmit(s) \/ ReviewInsert(s)
    \/ CompleteCheck(s) \/ CompleteWrite(s)
    \/ AssessReady(s) \/ AssessInputs(s) \/ AssessRank(s) \/ LegacyRank(s)
    \/ AssessAdmit(s) \/ AssessInsert(s)
    \/ DossierReady(s) \/ DossierFind(s) \/ DossierStage(s) \/ DossierRank(s)
    \/ DossierInsert(s)
    \/ ArchiveReady(s) \/ ArchiveStage(s) \/ ArchiveLink(s) \/ ArchiveTidy(s)
    \/ ArchiveAdmit(s) \/ ArchiveInsert(s) \/ ArchiveConfirm(s) \/ ArchiveUnlink(s)

Next ==
    \/ \E s \in Slots : Arrive(s) \/ Proceed(s)
    \/ Crash
    \/ Finished

Spec == Init /\ [][Next]_vars

\* A handler runs on a thread of its own and waits for nobody: the operating
\* system schedules it, and SQLite's busy timeout bounds its wait for a lock.
Fairness == \A s \in Slots : WF_vars(Proceed(s))

FairSpec == Spec /\ Fairness
=============================================================================
