------------------------------ MODULE Evidence ------------------------------
(***************************************************************************)
(* The AIN-302 evidence lifecycle on its two stores: the write-once JSON   *)
(* files of the evidence store, and the commercial registry behind the     *)
(* adapter.  A clerk is a process that uses the service.  It admits        *)
(* sources, extracts findings, has them reviewed and commits what was      *)
(* approved, passing the objects it was given to the next operation the    *)
(* way EvidenceCommitStage pairs them.                                     *)
(*                                                                         *)
(* One action is one file written, or one registry transaction: between    *)
(* two of them the clerk may meet an error, which leaves it its objects,   *)
(* or die, which does not.  Identifiers are fresh (uuid4), and a finding   *)
(* stands for its own assertion.                                           *)
(***************************************************************************)
EXTENDS CommercialStore, WriteOnce

CONSTANTS
  Clerks,         \* processes that use the service on the same stores
  Sources,        \* source objects a caller can submit
  Findings,       \* finding identifiers
  Reviewers,      \* reviewer authorities
  Url, Content,   \* where a source was found, and the hash of its content
  KnownSubjects,  \* the sources whose organization is in the registry
  Decisions,      \* the decisions a review may take
  MaxReviews,     \* bound: reviews made
  MaxAttempts,    \* bound: commits begun
  MaxFaults       \* bound: errors and deaths

VARIABLES
  db,        \* the commercial registry
  files,     \* the directories of the evidence store
  memory,    \* memory[c]: the objects clerk c holds
  job,       \* job[c]: the operation c is in the middle of
  current,   \* the authorities in effect
  begun,     \* evidence identifiers drawn
  faults     \* errors and deaths met

vars == <<db, files, memory, job, current, begun, faults>>

AllDecisions ==
  {"Approve", "Reject", "Defer", "Dispute", "Reclassify",
   "Request_More_Research"}

ASSUME EvidenceAssumption ==
  /\ Decisions \subseteq AllDecisions
  /\ DOMAIN Url = Sources /\ DOMAIN Content = Sources
  /\ KnownSubjects \subseteq Sources
  /\ \A s \in Sources : Content[s] # Null
  /\ MaxReviews \in Nat /\ MaxAttempts \in Nat /\ MaxFaults \in Nat

StatusAfter(decision) ==
  CASE decision = "Approve" -> "Approved"
    [] decision = "Reject" -> "Rejected"
    [] decision = "Dispute" -> "Disputed"
    [] decision = "Reclassify" -> "Pending_Review"
    [] OTHER -> "Deferred"

Idle == [at |-> "idle"]
Holding == [sources |-> {}, findings |-> {}, reviews |-> {}]

Init ==
  /\ db = EmptyStore
  /\ files = [sources |-> <<>>, findings |-> <<>>, receipts |-> <<>>,
              reviews |-> <<>>, commits |-> <<>>]
  /\ memory = [c \in Clerks |-> Holding]
  /\ job = [c \in Clerks |-> Idle]
  /\ current = Reviewers
  /\ begun = 0
  /\ faults = 0

-----------------------------------------------------------------------------

\* A write may be the last thing its process does.
Cuts == IF faults < MaxFaults THEN BOOLEAN ELSE {FALSE}

\* Clerk c writes a file.  If the write completes it goes on, holding what it
\* holds then; if not, the file is torn and the process with its objects gone.
Save(c, cut, kind, name, body, holds, next) ==
  /\ Writable(files[kind], name, body)
  /\ cut => name \notin DOMAIN files[kind]
  /\ files' = [files EXCEPT
                 ![kind] = Written(@, name, IF cut THEN Torn ELSE body)]
  /\ memory' = [memory EXCEPT ![c] = IF cut THEN Holding ELSE holds]
  /\ job' = [job EXCEPT ![c] = IF cut THEN Idle ELSE next]
  /\ faults' = IF cut THEN faults + 1 ELSE faults

AdmitSource(c, s, cut) ==
  /\ job[c].at = "idle"
  /\ Save(c, cut, "sources", s, "Admitted",
          [memory[c] EXCEPT !.sources = @ \union {s}], Idle)
  /\ UNCHANGED <<db, current, begun>>

RejectSource(c, s, cut) ==
  /\ job[c].at = "idle"
  /\ Save(c, cut, "sources", s, "Rejected", memory[c], Idle)
  /\ UNCHANGED <<db, current, begun>>

\* create_finding writes the finding, then its receipt; the caller gets the
\* finding when both are written.
CreateFinding(c, s, f, cut) ==
  /\ job[c].at = "idle"
  /\ s \in memory[c].sources
  /\ f \notin DOMAIN files.findings
  /\ Save(c, cut, "findings", f, s, memory[c],
          [at |-> "receipt", finding |-> f, source |-> s])
  /\ UNCHANGED <<db, current, begun>>

SaveReceipt(c, cut) ==
  /\ job[c].at = "receipt"
  /\ LET f == job[c].finding
         object == [finding |-> f, source |-> job[c].source,
                    status |-> "Pending_Review"]
     IN Save(c, cut, "receipts", f, job[c].source,
             [memory[c] EXCEPT !.findings = @ \union {object}], Idle)
  /\ UNCHANGED <<db, current, begun>>

\* A finding object of any status may be reviewed by an authority in effect.
\* The review is filed and the caller gets an object with the new status; the
\* finding on file never changes.
Review(c, object, r, decision, cut) ==
  LET id == Cardinality(DOMAIN files.reviews) + 1
      body == [finding |-> object.finding, reviewer |-> r, decision |-> decision]
      reviewed == [object EXCEPT !.status = StatusAfter(decision)]
  IN /\ job[c].at = "idle"
     /\ id <= MaxReviews
     /\ object \in memory[c].findings
     /\ r \in current
     /\ Save(c, cut, "reviews", id, body,
             [memory[c] EXCEPT !.findings = @ \union {reviewed},
                               !.reviews = @ \union {id}], Idle)
     /\ UNCHANGED <<db, current, begun>>

\* An authority expires or is revoked.
Lapse(r) ==
  /\ r \in current
  /\ current' = current \ {r}
  /\ UNCHANGED <<db, files, memory, job, begun, faults>>

-----------------------------------------------------------------------------

Committed(f) ==
  \E id \in Readable(files.commits) : files.commits[id].finding = f

\* The objects that EvidenceCommitStage passes belong together: a finding with
\* its source and a review of it, and the authority that made that review, so
\* that commit_evidence never finds the references of the two to differ.
Paired(c, object, review) ==
  /\ object \in memory[c].findings
  /\ object.source \in memory[c].sources
  /\ review \in memory[c].reviews
  /\ files.reviews[review].finding = object.finding

Begin(c, object, review) ==
  /\ begun' = begun + 1
  /\ job' = [job EXCEPT ![c] =
               [at |-> "find", finding |-> object.finding,
                source |-> object.source, review |-> review,
                evidence |-> begun + 1, row |-> 0, number |-> 0]]
  /\ UNCHANGED <<db, files, memory, current, faults>>

\* Mutant: the review may be of any decision.
BeginCommitOnAnyReview(c, object, review) ==
  /\ job[c].at = "idle"
  /\ begun < MaxAttempts
  /\ Paired(c, object, review)
  /\ object.status = "Approved"
  /\ Searchable(files.commits)
  /\ ~Committed(object.finding)
  /\ Begin(c, object, review)

\* Mutant: a finding committed before is committed again.
BeginCommitAgain(c, object, review) ==
  /\ job[c].at = "idle"
  /\ begun < MaxAttempts
  /\ Paired(c, object, review)
  /\ object.status = "Approved"
  /\ files.reviews[review].decision = "Approve"
  /\ Searchable(files.commits)
  /\ Begin(c, object, review)

\* commit_evidence looks at the objects it is given, not at the files: an
\* approved finding object and an approving review, whose authority may have
\* lapsed since.  A finding that has a commit on file gets that one back.
BeginCommit(c, object, review) ==
  /\ job[c].at = "idle"
  /\ begun < MaxAttempts
  /\ Paired(c, object, review)
  /\ object.status = "Approved"
  /\ files.reviews[review].decision = "Approve"
  /\ Searchable(files.commits)
  /\ ~Committed(object.finding)
  /\ Begin(c, object, review)

\* A step of the commit: a transaction that leaves the objects alone.
Step(c, at, next, store) ==
  /\ job[c].at = at
  /\ db' = store
  /\ job' = [job EXCEPT ![c] = next]
  /\ UNCHANGED <<files, memory, current, begun, faults>>

Matches(c) == SourcesOf(db, Url[job[c].source], Content[job[c].source])

\* The adapter reuses the oldest active source of the same URL and hash, or
\* creates one.
FindSource(c) ==
  Step(c, "find",
       IF Matches(c) = {}
       THEN [job[c] EXCEPT !.at = "source"]
       ELSE [job[c] EXCEPT !.at = "number", !.row = Oldest(Matches(c))], db)

\* create_source, without content and so without a checksum, and its audit
\* entry; then the adapter sets the checksum and searches again.
CreateSource(c) ==
  Step(c, "source",
       [job[c] EXCEPT !.at = "source_audit", !.row = Len(db.sources) + 1],
       InsertSource(db, Url[job[c].source], Null))

AuditSource(c) ==
  Step(c, "source_audit", [job[c] EXCEPT !.at = "checksum"],
       Audited(db, "source.created", job[c].row))

\* Mutant: the checksum is not written.
RecordChecksumLost(c) == Step(c, "checksum", [job[c] EXCEPT !.at = "find_again"], db)

RecordChecksum(c) ==
  Step(c, "checksum", [job[c] EXCEPT !.at = "find_again"],
       SetChecksum(db, job[c].row, Content[job[c].source]))

FindAgain(c) ==
  /\ job[c].at = "find_again"
  /\ Matches(c) # {}
  /\ Step(c, "find_again",
          [job[c] EXCEPT !.at = "number", !.row = Oldest(Matches(c))], db)

\* add_evidence draws its number, inserts the row and its link, which raises
\* and rolls the row back when the subject is not in the registry, and is
\* audited.
DrawNumber(c) ==
  Step(c, "number",
       [job[c] EXCEPT !.at = "evidence", !.number = Issued(db, "evidence")],
       Issue(db, "evidence"))

AddEvidence(c) ==
  /\ Step(c, "evidence", [job[c] EXCEPT !.at = "evidence_audit"],
          InsertEvidence(db, job[c].number, job[c].row, job[c].finding))
  /\ job[c].source \in KnownSubjects

\* Mutant: the row is not rolled back.
SubjectUnknownKept(c) ==
  /\ Step(c, "evidence", Idle,
          InsertEvidence(db, job[c].number, job[c].row, job[c].finding))
  /\ job[c].source \notin KnownSubjects

SubjectUnknown(c) ==
  /\ Step(c, "evidence", Idle, db)
  /\ job[c].source \notin KnownSubjects

AuditEvidence(c) ==
  Step(c, "evidence_audit", [job[c] EXCEPT !.at = "commit"],
       Audited(db, "evidence.created", job[c].number))

SaveCommit(c, cut) ==
  /\ job[c].at = "commit"
  /\ Save(c, cut, "commits", job[c].evidence,
          [finding |-> job[c].finding, source |-> job[c].source,
           review |-> job[c].review, number |-> job[c].number],
          memory[c], Idle)
  /\ UNCHANGED <<db, current, begun>>

CommitStep(c) ==
  \/ FindSource(c)
  \/ CreateSource(c)
  \/ AuditSource(c)
  \/ RecordChecksum(c)
  \/ FindAgain(c)
  \/ DrawNumber(c)
  \/ AddEvidence(c)
  \/ SubjectUnknown(c)
  \/ AuditEvidence(c)
  \/ SaveCommit(c, FALSE)

-----------------------------------------------------------------------------

\* The operation under way raises (a locked database, a full disk): its
\* caller keeps the objects it had.
Raise(c) ==
  /\ job[c].at # "idle"
  /\ faults < MaxFaults
  /\ faults' = faults + 1
  /\ job' = [job EXCEPT ![c] = Idle]
  /\ UNCHANGED <<db, files, memory, current, begun>>

\* The process dies between two writes, and its objects with it.
Die(c) ==
  /\ faults < MaxFaults
  /\ faults' = faults + 1
  /\ job' = [job EXCEPT ![c] = Idle]
  /\ memory' = [memory EXCEPT ![c] = Holding]
  /\ UNCHANGED <<db, files, current, begun>>

Next ==
  \/ \E c \in Clerks :
       \/ \E s \in Sources, cut \in Cuts :
            \/ AdmitSource(c, s, cut)
            \/ RejectSource(c, s, cut)
            \/ \E f \in Findings : CreateFinding(c, s, f, cut)
       \/ \E cut \in Cuts : SaveReceipt(c, cut) \/ SaveCommit(c, cut)
       \/ \E object \in memory[c].findings :
            \/ \E r \in Reviewers, decision \in Decisions, cut \in Cuts :
                 Review(c, object, r, decision, cut)
            \/ \E review \in memory[c].reviews : BeginCommit(c, object, review)
       \/ CommitStep(c)
       \/ Raise(c)
       \/ Die(c)
  \/ \E r \in Reviewers : Lapse(r)

\* The service runs a commit to its end without waiting for anyone.
Fairness == \A c \in Clerks : WF_vars(CommitStep(c))

Spec == Init /\ [][Next]_vars /\ Fairness
=============================================================================
