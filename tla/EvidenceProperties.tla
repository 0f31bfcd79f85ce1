------------------------- MODULE EvidenceProperties -------------------------
(***************************************************************************)
(* What holds of the evidence lifecycle, across its two stores.            *)
(***************************************************************************)
EXTENDS Evidence

CommitSteps ==
  {"find", "source", "source_audit", "checksum", "find_again", "number",
   "evidence", "evidence_audit", "commit"}

Commits == {files.commits[id] : id \in Readable(files.commits)}

\* reconstruct_chain always succeeds on what was committed: the source of a
\* commit is on file as admitted, its finding as extracted from that source,
\* and its review as an approval of that finding, whatever was torn, retried
\* or reviewed again in between (evidence_store.py reconstruct_chain).
ChainReconstructs ==
  \A commit \in Commits :
    /\ commit.source \in DOMAIN files.sources
    /\ files.sources[commit.source] = "Admitted"
    /\ commit.finding \in DOMAIN files.findings
    /\ files.findings[commit.finding] = commit.source
    /\ commit.review \in Readable(files.reviews)
    /\ files.reviews[commit.review].finding = commit.finding
    /\ files.reviews[commit.review].decision = "Approve"

\* The two stores agree on what was committed: the registry holds the row the
\* commit names, asserting its finding, and that row and its source carry the
\* hash and the URL of the commit's source, though the registry source is
\* created without its hash and may be shared with other commits.
CommitsAreBacked ==
  \A commit \in Commits :
    \E row \in DOMAIN db.evidence :
      LET evidence == db.evidence[row]
      IN /\ evidence.number = commit.number
         /\ evidence.assertion = commit.finding
         /\ evidence.hash = Content[commit.source]
         /\ db.sources[evidence.source] =
              [url |-> Url[commit.source], hash |-> Content[commit.source]]

Pending == {job[c].number : c \in {d \in Clerks : job[d].at \in CommitSteps}}

Orphans ==
  {row \in DOMAIN db.evidence :
     /\ db.evidence[row].number \notin Pending
     /\ \A commit \in Commits : commit.number # db.evidence[row].number}

Unhashed ==
  {row \in DOMAIN db.sources :
     /\ db.sources[row].hash = Null
     /\ \A c \in Clerks :
          job[c].at \in {"source_audit", "checksum"} => job[c].row # row}

RowsLeft == ({"evidence"} \X Orphans) \union ({"source"} \X Unhashed)

TornFiles(kinds) ==
  UNION {{kind} \X (DOMAIN files[kind] \ Readable(files[kind])) : kind \in kinds}

\* Each error or death leaves at most one thing behind: an evidence row that
\* no commit names, a registry source without its hash, or a torn file.  Only
\* a commit that is cut short leaves two, its file and the row it would have
\* named: torn commits are counted apart.
FaultsLeaveLittle ==
  /\ Cardinality(RowsLeft \union TornFiles(DOMAIN files \ {"commits"})) <= faults
  /\ Cardinality(TornFiles(DOMAIN files)) <= faults

\* A commit that was begun is made, unless it meets a fault or its subject is
\* not in the registry: nothing it finds in either store stops it.
BegunCommitsAreMade ==
  \A c \in Clerks, f \in Findings, n \in 0..MaxFaults :
    (/\ job[c].at \in CommitSteps
     /\ job[c].finding = f
     /\ job[c].source \in KnownSubjects
     /\ faults = n)
      ~> (Committed(f) \/ faults > n)

-----------------------------------------------------------------------------

\* The lifecycle implements the ledger it promises, with one clerk: entries
\* are the commit files, rows the registry's evidence.
Ledger == INSTANCE EvidenceLedger WITH
  approved <- {f \in Findings : \E id \in Readable(files.reviews) :
                 /\ files.reviews[id].finding = f
                 /\ files.reviews[id].decision = "Approve"},
  rows <- {<<db.evidence[row].number, db.evidence[row].assertion>> :
             row \in DOMAIN db.evidence},
  entries <- {<<commit.number, commit.finding>> : commit \in Commits},
  damaged <- ~Searchable(files.commits)

ImplementsLedger == Ledger!Spec

\* What the README of AIN-302 promises of a retry ("Idempotent evidence
\* retries"), and test_retry_does_not_duplicate_evidence of the registry: a
\* finding has one evidence row, however often its commit is tried.
RetriesDoNotDuplicate ==
  \A one, other \in DOMAIN db.evidence :
    db.evidence[one].assertion = db.evidence[other].assertion => one = other
=============================================================================
