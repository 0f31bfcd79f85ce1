--------------------------- MODULE EvidenceProofs ---------------------------
(***************************************************************************)
(* What was committed can be reconstructed and is backed by the registry,  *)
(* for any number of clerks, findings, faults and attempts.  The first     *)
(* invariant is about the files: they are never replaced, so what a clerk  *)
(* holds, and what its commit was begun with, is on file for good.  The    *)
(* second is about the registry: what a commit knows of its rows at each   *)
(* step stays true while other clerks write theirs.  The third is about    *)
(* both: with one clerk, every step of the lifecycle is one of the ledger  *)
(* or leaves it unchanged.  The fourth is about the numbers of the rows,   *)
(* and counts what errors and deaths leave behind.  The last are about the *)
(* names commits hold and the sources they look up: no store stops them.   *)
(***************************************************************************)
EXTENDS EvidenceProperties, FiniteSetTheorems, WellFoundedInduction, SequenceTheorems,
        TLAPS

Kinds == {"sources", "findings", "receipts", "reviews", "commits"}

FindingFields == {"finding", "source", "status"}

JobFields == {"at", "finding", "source", "review", "evidence", "row", "number"}

OnFile(dir, name, body) == name \in DOMAIN dir /\ dir[name] = body

\* The chain of a commit, or of one under way, is on file.
Linked(F, x) ==
  /\ OnFile(F.sources, x.source, "Admitted")
  /\ OnFile(F.findings, x.finding, x.source)
  /\ x.review \in Readable(F.reviews)
  /\ F.reviews[x.review].finding = x.finding
  /\ F.reviews[x.review].decision = "Approve"

\* What a clerk holds is on file.
Held(F, m) ==
  /\ \A s \in m.sources : s \in Sources /\ OnFile(F.sources, s, "Admitted")
  /\ \A o \in m.findings :
       /\ DOMAIN o = FindingFields
       /\ o.finding \in Findings /\ OnFile(F.findings, o.finding, o.source)
  /\ m.reviews \subseteq Readable(F.reviews)

Working(F, j) ==
  /\ j.at = "receipt" =>
       /\ j.finding \in Findings /\ j.source \in Sources
       /\ OnFile(F.findings, j.finding, j.source)
  /\ j.at \in CommitSteps =>
       /\ DOMAIN j = JobFields
       /\ j.source \in Sources /\ j.finding \in Findings
       /\ Linked(F, j)

Memory == {"sources", "findings", "reviews"}

ChainInv ==
  /\ DOMAIN files = Kinds
  /\ DOMAIN memory = Clerks
  /\ DOMAIN job = Clerks
  /\ \A c \in Clerks : /\ DOMAIN memory[c] = Memory
                       /\ Held(files, memory[c])
                       /\ Working(files, job[c])
  /\ \A id \in Readable(files.commits) : Linked(files, files.commits[id])

-----------------------------------------------------------------------------

Grown(F, G) ==
  \A kind \in Kinds : \A name \in DOMAIN F[kind] : OnFile(G[kind], name, F[kind][name])

\* What is on file stays on file.
LEMMA GrownKeeps ==
  ASSUME NEW F, NEW G, Grown(F, G)
  PROVE  /\ \A x : Linked(F, x) => Linked(G, x)
         /\ \A m : Held(F, m) => Held(G, m)
         /\ \A j : Working(F, j) => Working(G, j)
<1>1. /\ \A name \in DOMAIN F.sources : OnFile(G.sources, name, F.sources[name])
      /\ \A name \in DOMAIN F.findings : OnFile(G.findings, name, F.findings[name])
      /\ \A name \in DOMAIN F.reviews : OnFile(G.reviews, name, F.reviews[name])
  BY DEF Grown, Kinds
<1>2. \A x : Linked(F, x) => Linked(G, x)
  BY <1>1 DEF Linked, OnFile, Readable
<1>3. \A m : Held(F, m) => Held(G, m)
  BY <1>1 DEF Held, OnFile, Readable
<1>4. \A j : Working(F, j) => Working(G, j)
  BY <1>1, <1>2 DEF Working, OnFile
<1> QED  BY <1>2, <1>3, <1>4

\* One file is written, whole or torn; no other is touched.
LEMMA SaveWrites ==
  ASSUME DOMAIN files = Kinds, NEW kind \in Kinds,
         NEW c, NEW cut \in BOOLEAN, NEW name, NEW body, NEW holds, NEW next,
         Save(c, cut, kind, name, body, holds, next)
  PROVE  /\ DOMAIN files' = Kinds
         /\ Grown(files, files')
         /\ ~cut => OnFile(files'[kind], name, body)
         /\ \A other \in Kinds \ {kind} : files'[other] = files[other]
         /\ \A n \in DOMAIN files'[kind] :
              \/ n \in DOMAIN files[kind] /\ files'[kind][n] = files[kind][n]
              \/ files'[kind][n] = IF cut THEN Torn ELSE body
<1> DEFINE new == IF cut THEN Torn ELSE body
<1>1. /\ DOMAIN files' = Kinds
      /\ files'[kind] = Written(files[kind], name, new)
      /\ \A other \in Kinds \ {kind} : files'[other] = files[other]
  BY DEF Save
<1>2. name \in DOMAIN files[kind] => ~cut /\ files[kind][name] = body
  BY DEF Save, Writable
<1>3. /\ DOMAIN files'[kind] = DOMAIN files[kind] \union {name}
      /\ \A n \in DOMAIN files'[kind] :
           files'[kind][n] = IF n = name THEN new ELSE files[kind][n]
  BY <1>1 DEF Written
<1>4. \A n \in DOMAIN files[kind] : OnFile(files'[kind], n, files[kind][n])
  BY <1>2, <1>3 DEF OnFile
<1>5. Grown(files, files')
  BY <1>1, <1>4 DEF Grown, OnFile
<1> QED  BY <1>1, <1>3, <1>5 DEF OnFile

LEMMA SaveKeeps ==
  ASSUME ChainInv, NEW kind \in Kinds,
         NEW c \in Clerks, NEW cut \in BOOLEAN, NEW name, NEW body, NEW holds, NEW next,
         Save(c, cut, kind, name, body, holds, next),
         ~cut => /\ DOMAIN holds = Memory
                 /\ Held(files', holds)
                 /\ Working(files', next)
                 /\ kind = "commits" => Linked(files', body)
  PROVE  ChainInv'
<1>1. /\ DOMAIN files' = Kinds
      /\ \A x : Linked(files, x) => Linked(files', x)
      /\ \A m : Held(files, m) => Held(files', m)
      /\ \A j : Working(files, j) => Working(files', j)
  BY SaveWrites, GrownKeeps DEF ChainInv
<1>2. /\ memory' = [memory EXCEPT ![c] = IF cut THEN Holding ELSE holds]
      /\ job' = [job EXCEPT ![c] = IF cut THEN Idle ELSE next]
  BY DEF Save
<1>3. /\ DOMAIN Holding = Memory /\ Held(files', Holding)
      /\ Working(files', Idle)
  BY DEF Holding, Held, Memory, Working, Idle, CommitSteps
<1>4. /\ DOMAIN memory' = Clerks /\ DOMAIN job' = Clerks
      /\ \A d \in Clerks : /\ DOMAIN memory'[d] = Memory
                           /\ Held(files', memory'[d])
                           /\ Working(files', job'[d])
  BY <1>1, <1>2, <1>3 DEF ChainInv
<1>5. ASSUME NEW id \in Readable(files'.commits)
      PROVE  Linked(files', files'.commits[id])
  <2>1. CASE kind = "commits"
    <3>1. \/ id \in DOMAIN files.commits /\ files'.commits[id] = files.commits[id]
          \/ files'.commits[id] = IF cut THEN Torn ELSE body
      BY <2>1, SaveWrites DEF ChainInv, Readable
    <3>2. files'.commits[id] # Torn
      BY DEF Readable
    <3> QED  BY <1>1, <2>1, <3>1, <3>2 DEF ChainInv, Readable
  <2>2. CASE kind # "commits"
    <3>1. files'.commits = files.commits
      BY <2>2, SaveWrites DEF ChainInv, Kinds
    <3> QED  BY <1>1, <3>1 DEF ChainInv
  <2> QED  BY <2>1, <2>2
<1> QED  BY <1>1, <1>4, <1>5 DEF ChainInv
-----------------------------------------------------------------------------

\* Where the files and what the clerks hold stay, a clerk's job may change.
LEMMA JobKeeps ==
  ASSUME ChainInv, NEW c \in Clerks, NEW next, Working(files, next),
         files' = files, memory' = memory, job' = [job EXCEPT ![c] = next]
  PROVE  ChainInv'
BY DEF ChainInv

LEMMA IdleWorks == \A F : Working(F, Idle)
BY DEF Working, Idle, CommitSteps

LEMMA CutsAreBoolean == Cuts \subseteq BOOLEAN
BY DEF Cuts

LEMMA AdmitSourceKeeps ==
  ASSUME ChainInv, NEW c \in Clerks, NEW s \in Sources, NEW cut \in BOOLEAN,
         AdmitSource(c, s, cut)
  PROVE  ChainInv'
<1> DEFINE holds == [memory[c] EXCEPT !.sources = @ \union {s}]
<1>1. Save(c, cut, "sources", s, "Admitted", holds, Idle)
  BY DEF AdmitSource
<1>2. /\ Grown(files, files')
      /\ ~cut => OnFile(files'.sources, s, "Admitted")
  BY <1>1, SaveWrites DEF ChainInv, Kinds
<1>3. Held(files', memory[c])
  BY <1>2, GrownKeeps DEF ChainInv
<1>4. /\ DOMAIN holds = Memory
      /\ holds.sources = memory[c].sources \union {s}
      /\ holds.findings = memory[c].findings /\ holds.reviews = memory[c].reviews
  BY DEF ChainInv, Memory
<1> HIDE DEF holds
<1>5. ~cut => Held(files', holds)
  BY <1>2, <1>3, <1>4 DEF Held
<1> QED  BY <1>1, <1>4, <1>5, IdleWorks, SaveKeeps DEF Kinds

LEMMA RejectSourceKeeps ==
  ASSUME ChainInv, NEW c \in Clerks, NEW s \in Sources, NEW cut \in BOOLEAN,
         RejectSource(c, s, cut)
  PROVE  ChainInv'
<1>1. Save(c, cut, "sources", s, "Rejected", memory[c], Idle)
  BY DEF RejectSource
<1>2. Held(files', memory[c]) /\ DOMAIN memory[c] = Memory
  BY <1>1, SaveWrites, GrownKeeps DEF ChainInv, Kinds
<1> QED  BY <1>1, <1>2, IdleWorks, SaveKeeps DEF Kinds

LEMMA CreateFindingKeeps ==
  ASSUME ChainInv, NEW c \in Clerks, NEW s \in Sources, NEW f \in Findings,
         NEW cut \in BOOLEAN, CreateFinding(c, s, f, cut)
  PROVE  ChainInv'
<1> DEFINE next == [at |-> "receipt", finding |-> f, source |-> s]
<1>1. Save(c, cut, "findings", f, s, memory[c], next)
  BY DEF CreateFinding
<1>2. /\ Grown(files, files')
      /\ ~cut => OnFile(files'.findings, f, s)
  BY <1>1, SaveWrites DEF ChainInv, Kinds
<1>3. Held(files', memory[c]) /\ DOMAIN memory[c] = Memory
  BY <1>2, GrownKeeps DEF ChainInv
<1>4. ~cut => Working(files', next)
  BY <1>2 DEF Working, CommitSteps
<1> HIDE DEF next
<1> QED  BY <1>1, <1>3, <1>4, SaveKeeps DEF Kinds

LEMMA SaveReceiptKeeps ==
  ASSUME ChainInv, NEW c \in Clerks, NEW cut \in BOOLEAN, SaveReceipt(c, cut)
  PROVE  ChainInv'
<1> DEFINE f == job[c].finding
           object == [finding |-> f, source |-> job[c].source, status |-> "Pending_Review"]
           holds == [memory[c] EXCEPT !.findings = @ \union {object}]
<1>1. Save(c, cut, "receipts", f, job[c].source, holds, Idle)
  BY DEF SaveReceipt
<1>2. Grown(files, files')
  BY <1>1, SaveWrites DEF ChainInv, Kinds
<1>3. Held(files', memory[c]) /\ Working(files', job[c])
  BY <1>2, GrownKeeps DEF ChainInv
<1>4. /\ DOMAIN holds = Memory
      /\ holds.findings = memory[c].findings \union {object}
      /\ holds.sources = memory[c].sources /\ holds.reviews = memory[c].reviews
  BY DEF ChainInv, Memory
<1>5. /\ DOMAIN object = FindingFields
      /\ object.finding \in Findings
      /\ OnFile(files'.findings, object.finding, object.source)
  BY <1>3 DEF SaveReceipt, Working, FindingFields
<1> HIDE DEF holds, object
<1>6. Held(files', holds)
  BY <1>3, <1>4, <1>5 DEF Held
<1> QED  BY <1>1, <1>4, <1>6, IdleWorks, SaveKeeps DEF Kinds

\* A review on file is never what a torn file holds.
ReviewsAreWhole ==
  \A f, r, d : [finding |-> f, reviewer |-> r, decision |-> d] # Torn

LEMMA ReviewKeeps ==
  ASSUME ReviewsAreWhole, ChainInv, NEW c \in Clerks, NEW cut \in BOOLEAN,
         NEW object \in memory[c].findings, NEW r, NEW decision,
         Review(c, object, r, decision, cut)
  PROVE  ChainInv'
<1> DEFINE id == Cardinality(DOMAIN files.reviews) + 1
           body == [finding |-> object.finding, reviewer |-> r, decision |-> decision]
           reviewed == [object EXCEPT !.status = StatusAfter(decision)]
           holds == [memory[c] EXCEPT !.findings = @ \union {reviewed},
                                      !.reviews = @ \union {id}]
<1>1. Save(c, cut, "reviews", id, body, holds, Idle)
  BY DEF Review
<1>2. /\ Grown(files, files')
      /\ ~cut => OnFile(files'.reviews, id, body)
  BY <1>1, SaveWrites DEF ChainInv, Kinds
<1>3. ~cut => id \in Readable(files'.reviews)
  BY <1>2 DEF OnFile, Readable, ReviewsAreWhole
<1>4. Held(files', memory[c])
  BY <1>2, GrownKeeps DEF ChainInv
<1>5. /\ DOMAIN holds = Memory
      /\ holds.sources = memory[c].sources
      /\ holds.findings = memory[c].findings \union {reviewed}
      /\ holds.reviews = memory[c].reviews \union {id}
  BY DEF ChainInv, Memory
<1>6. /\ DOMAIN reviewed = FindingFields
      /\ reviewed.finding \in Findings
      /\ OnFile(files'.findings, reviewed.finding, reviewed.source)
  BY <1>4 DEF Held, FindingFields
<1> HIDE DEF holds, reviewed, id, body
<1>7. ~cut => Held(files', holds)
  BY <1>3, <1>4, <1>5, <1>6 DEF Held
<1> QED  BY <1>1, <1>5, <1>7, IdleWorks, SaveKeeps DEF Kinds

LEMMA BeginCommitKeeps ==
  ASSUME ChainInv, NEW c \in Clerks, NEW object \in memory[c].findings,
         NEW review \in memory[c].reviews, BeginCommit(c, object, review)
  PROVE  ChainInv'
<1> DEFINE next == [at |-> "find", finding |-> object.finding,
                    source |-> object.source, review |-> review,
                    evidence |-> begun + 1, row |-> 0, number |-> 0]
<1>1. /\ files' = files /\ memory' = memory
      /\ job' = [job EXCEPT ![c] = next]
  BY DEF BeginCommit, Paired, Begin
<1>2. /\ DOMAIN next = JobFields
      /\ next.at = "find" /\ next.finding = object.finding
      /\ next.source = object.source /\ next.review = review
  BY DEF JobFields
<1> HIDE DEF next
<1>3. /\ object.source \in Sources /\ OnFile(files.sources, object.source, "Admitted")
      /\ object.finding \in Findings
      /\ OnFile(files.findings, object.finding, object.source)
      /\ review \in Readable(files.reviews)
      /\ files.reviews[review].finding = object.finding
      /\ files.reviews[review].decision = "Approve"
  BY DEF BeginCommit, Paired, Begin, ChainInv, Held
<1>4. Working(files, next)
  BY <1>2, <1>3 DEF Working, Linked
<1> QED  BY <1>1, <1>4, JobKeeps

-----------------------------------------------------------------------------

\* The chain of a commit stays the same through its steps.
Follows(j, next) ==
  /\ DOMAIN next = DOMAIN j
  /\ next.finding = j.finding /\ next.source = j.source
  /\ next.review = j.review
  /\ next.at \in CommitSteps

LEMMA StepKeeps ==
  ASSUME ChainInv, NEW c \in Clerks, NEW at \in CommitSteps, NEW next, NEW store,
         Step(c, at, next, store), Follows(job[c], next)
  PROVE  ChainInv'
<1>1. /\ files' = files /\ memory' = memory
      /\ job' = [job EXCEPT ![c] = next] /\ job[c].at \in CommitSteps
  BY DEF Step
<1>2. Working(files, next)
  BY <1>1 DEF ChainInv, Working, Linked, Follows, CommitSteps
<1> QED  BY <1>1, <1>2, JobKeeps

LEMMA UpdatesFollow ==
  ASSUME NEW j, DOMAIN j = JobFields, NEW at \in CommitSteps, NEW n
  PROVE  /\ Follows(j, [j EXCEPT !.at = at])
         /\ Follows(j, [j EXCEPT !.at = at, !.row = n])
         /\ Follows(j, [j EXCEPT !.at = at, !.number = n])
BY DEF Follows, JobFields

LEMMA CommitStepKeeps ==
  ASSUME ChainInv, NEW c \in Clerks, CommitStep(c), ~SaveCommit(c, FALSE)
  PROVE  ChainInv'
<1>1. job[c].at \in CommitSteps
  BY DEF CommitStep, FindSource, CreateSource, AuditSource, RecordChecksum, FindAgain,
         DrawNumber, AddEvidence, SubjectUnknown, AuditEvidence, Step, CommitSteps
<1>2. DOMAIN job[c] = JobFields
  BY <1>1 DEF ChainInv, Working
<1>3. \A at \in CommitSteps : \A n :
        /\ Follows(job[c], [job[c] EXCEPT !.at = at])
        /\ Follows(job[c], [job[c] EXCEPT !.at = at, !.row = n])
        /\ Follows(job[c], [job[c] EXCEPT !.at = at, !.number = n])
  BY <1>2, UpdatesFollow
<1>4. CASE SubjectUnknown(c)
  BY <1>4, IdleWorks, JobKeeps DEF SubjectUnknown, Step
<1>5. ASSUME ~SubjectUnknown(c)
      PROVE  \E at, next, store : at \in CommitSteps /\ Step(c, at, next, store)
                                  /\ Follows(job[c], next)
  <2>1. CASE FindSource(c) /\ Matches(c) = {}
    BY <1>3, <2>1 DEF FindSource, CommitSteps
  <2>2. CASE FindSource(c) /\ Matches(c) # {}
    BY <1>3, <2>2 DEF FindSource, CommitSteps
  <2>3. CASE CreateSource(c)
    BY <1>3, <2>3 DEF CreateSource, CommitSteps
  <2>4. CASE AuditSource(c)
    BY <1>3, <2>4 DEF AuditSource, CommitSteps
  <2>5. CASE RecordChecksum(c)
    BY <1>3, <2>5 DEF RecordChecksum, CommitSteps
  <2>6. CASE FindAgain(c)
    BY <1>3, <2>6 DEF FindAgain, CommitSteps
  <2>7. CASE DrawNumber(c)
    BY <1>3, <2>7 DEF DrawNumber, CommitSteps
  <2>8. CASE AddEvidence(c)
    BY <1>3, <2>8 DEF AddEvidence, CommitSteps
  <2>9. CASE AuditEvidence(c)
    BY <1>3, <2>9 DEF AuditEvidence, CommitSteps
  <2> QED  BY <1>5, <2>1, <2>2, <2>3, <2>4, <2>5, <2>6, <2>7, <2>8, <2>9 DEF CommitStep
<1> QED  BY <1>4, <1>5, StepKeeps

LEMMA SaveCommitKeeps ==
  ASSUME ChainInv, NEW c \in Clerks, NEW cut \in BOOLEAN, SaveCommit(c, cut)
  PROVE  ChainInv'
<1> DEFINE body == [finding |-> job[c].finding, source |-> job[c].source,
                    review |-> job[c].review, number |-> job[c].number]
<1>1. Save(c, cut, "commits", job[c].evidence, body, memory[c], Idle)
  BY DEF SaveCommit
<1>2. Grown(files, files')
  BY <1>1, SaveWrites DEF ChainInv, Kinds
<1>3. Held(files', memory[c]) /\ Working(files', job[c]) /\ DOMAIN memory[c] = Memory
  BY <1>2, GrownKeeps DEF ChainInv
<1>4. Linked(files', body)
  BY <1>3 DEF SaveCommit, Working, CommitSteps, Linked
<1> HIDE DEF body
<1> QED  BY <1>1, <1>3, <1>4, IdleWorks, SaveKeeps DEF Kinds

LEMMA DieKeeps ==
  ASSUME ChainInv, NEW c \in Clerks, Die(c)
  PROVE  ChainInv'
<1>1. DOMAIN Holding = Memory /\ Held(files, Holding)
  BY DEF Holding, Held, Memory
<1> QED  BY <1>1, IdleWorks DEF ChainInv, Die

LEMMA StepKeepsChain ==
  ASSUME ReviewsAreWhole, ChainInv, [Next]_vars
  PROVE  ChainInv'
<1>1. ASSUME NEW c \in Clerks, NEW s \in Sources, NEW cut \in Cuts,
             \/ AdmitSource(c, s, cut)
             \/ RejectSource(c, s, cut)
             \/ \E f \in Findings : CreateFinding(c, s, f, cut)
      PROVE  ChainInv'
  BY <1>1, CutsAreBoolean, AdmitSourceKeeps, RejectSourceKeeps, CreateFindingKeeps
<1>2. ASSUME NEW c \in Clerks, NEW cut \in Cuts, SaveReceipt(c, cut) \/ SaveCommit(c, cut)
      PROVE  ChainInv'
  BY <1>2, CutsAreBoolean, SaveReceiptKeeps, SaveCommitKeeps
<1>3. ASSUME NEW c \in Clerks, NEW object \in memory[c].findings,
             \/ \E r \in Reviewers, decision \in Decisions, cut \in Cuts :
                  Review(c, object, r, decision, cut)
             \/ \E review \in memory[c].reviews : BeginCommit(c, object, review)
      PROVE  ChainInv'
  BY <1>3, CutsAreBoolean, ReviewKeeps, BeginCommitKeeps
<1>4. ASSUME NEW c \in Clerks, CommitStep(c)
      PROVE  ChainInv'
  BY <1>4, CommitStepKeeps, SaveCommitKeeps
<1>5. ASSUME NEW c \in Clerks, Raise(c)
      PROVE  ChainInv'
  BY <1>5, IdleWorks, JobKeeps DEF Raise
<1>6. ASSUME NEW c \in Clerks, Die(c)
      PROVE  ChainInv'
  BY <1>6, DieKeeps
<1>7. ASSUME NEW r \in Reviewers, Lapse(r)
      PROVE  ChainInv'
  BY <1>7 DEF Lapse, ChainInv
<1>8. CASE UNCHANGED vars
  BY <1>8 DEF vars, ChainInv
<1> QED  BY <1>1, <1>2, <1>3, <1>4, <1>5, <1>6, <1>7, <1>8 DEF Next

LEMMA InitChain == Init => ChainInv
BY IdleWorks DEF Init, ChainInv, Kinds, Holding, Held, Memory, Readable, Linked

LEMMA ChainInvReconstructs == ChainInv => ChainReconstructs
BY DEF ChainInv, ChainReconstructs, Commits, Linked, OnFile, Readable

\* Every commit can be reconstructed, for any number of clerks, findings,
\* reviews, faults and attempts (evidence_store.py reconstruct_chain).
THEOREM ChainsReconstruct ==
  ASSUME ReviewsAreWhole
  PROVE  Spec => []ChainReconstructs
<1>1. ChainInv /\ [Next]_vars => ChainInv'
  BY StepKeepsChain
<1> QED  BY <1>1, InitChain, ChainInvReconstructs, PTL DEF Spec

-----------------------------------------------------------------------------
(* The registry.                                                           *)

Hashes == {Content[s] : s \in Sources} \union {Null}

SourceRow == [url: {Url[s] : s \in Sources}, hash: Hashes]

EvidenceRow == [number: Nat, source: Nat, assertion: Findings, hash: Hashes]

Typed(D) ==
  /\ DOMAIN D = {"last", "rows", "sources", "evidence", "audit"}
  /\ DOMAIN D.last = EntityTypes /\ D.last["evidence"] \in Nat
  /\ D.sources \in Seq(SourceRow)
  /\ D.evidence \in Seq(EvidenceRow)

HasRow(D, row, url, hash) ==
  row \in DOMAIN D.sources /\ D.sources[row].url = url /\ D.sources[row].hash = hash

\* The registry holds the evidence x names, with the hash and the URL of its
\* source.
BackedIn(D, x) ==
  /\ x.source \in Sources
  /\ \E row \in DOMAIN D.evidence :
       /\ D.evidence[row].number = x.number
       /\ D.evidence[row].assertion = x.finding
       /\ D.evidence[row].hash = Content[x.source]
       /\ HasRow(D, D.evidence[row].source, Url[x.source], Content[x.source])

Hashing == {"source_audit", "checksum"}

\* What a commit knows of its rows at each of its steps.
Knows(D, j) ==
  /\ j.at \in Hashing => HasRow(D, j.row, Url[j.source], Null)
  /\ j.at \in {"number", "evidence"} => HasRow(D, j.row, Url[j.source], Content[j.source])
  /\ j.at = "evidence" => j.number \in Nat
  /\ j.at \in {"evidence_audit", "commit"} => BackedIn(D, j)

BackInv ==
  /\ Typed(db)
  /\ \A c \in Clerks : Knows(db, job[c])
  /\ \A c, d \in Clerks :
       job[c].at \in Hashing /\ job[d].at \in Hashing /\ c # d => job[c].row # job[d].row
  /\ \A id \in Readable(files.commits) : BackedIn(db, files.commits[id])

\* Rows stay, and so do sources with a hash; of those without, one may change.
Grows(D, E, one) ==
  /\ \A row \in DOMAIN D.sources :
       /\ row \in DOMAIN E.sources
       /\ row # one \/ D.sources[row].hash # Null => E.sources[row] = D.sources[row]
  /\ \A row \in DOMAIN D.evidence :
       row \in DOMAIN E.evidence /\ E.evidence[row] = D.evidence[row]

LEMMA RowKept ==
  ASSUME NEW D, NEW E, NEW one, Grows(D, E, one), NEW row, NEW s \in Sources,
         HasRow(D, row, Url[s], Content[s])
  PROVE  HasRow(E, row, Url[s], Content[s])
BY EvidenceAssumption DEF Grows, HasRow

LEMMA GrowsKeeps ==
  ASSUME NEW D, NEW E, NEW one, Grows(D, E, one), NEW x, BackedIn(D, x)
  PROVE  BackedIn(E, x)
<1>1. PICK row \in DOMAIN D.evidence :
        /\ D.evidence[row].number = x.number
        /\ D.evidence[row].assertion = x.finding
        /\ D.evidence[row].hash = Content[x.source]
        /\ HasRow(D, D.evidence[row].source, Url[x.source], Content[x.source])
  BY DEF BackedIn
<1>2. row \in DOMAIN E.evidence /\ E.evidence[row] = D.evidence[row]
  BY DEF Grows
<1> QED  BY <1>1, <1>2, RowKept DEF BackedIn

LEMMA KnowledgeKept ==
  ASSUME NEW D, NEW E, NEW one, Grows(D, E, one), NEW j, Knows(D, j),
         j.at \in CommitSteps => j.source \in Sources,
         j.at \in Hashing => j.row # one
  PROVE  Knows(E, j)
<1>1. ASSUME j.at \in Hashing
      PROVE  HasRow(E, j.row, Url[j.source], Null)
  BY <1>1 DEF Grows, HasRow, Knows
<1>2. ASSUME j.at \in {"number", "evidence"}
      PROVE  HasRow(E, j.row, Url[j.source], Content[j.source])
  BY <1>2, RowKept DEF Knows, CommitSteps
<1>3. ASSUME j.at \in {"evidence_audit", "commit"}
      PROVE  BackedIn(E, j)
  BY <1>3, GrowsKeeps DEF Knows
<1> QED  BY <1>1, <1>2, <1>3 DEF Knows

LEMMA BackFrame ==
  ASSUME ChainInv, BackInv, NEW c \in Clerks, NEW next, NEW one,
         job' = [job EXCEPT ![c] = next],
         Typed(db'), Grows(db, db', one), Knows(db', next),
         \A d \in Clerks \ {c} : job[d].at \in Hashing => job[d].row # one,
         \A d \in Clerks \ {c} :
           next.at \in Hashing /\ job[d].at \in Hashing => job[d].row # next.row,
         \A id \in Readable(files'.commits) : BackedIn(db, files'.commits[id])
  PROVE  BackInv'
<1>1. /\ job'[c] = next
      /\ \A d \in Clerks \ {c} : job'[d] = job[d]
  BY DEF ChainInv
<1>2. ASSUME NEW d \in Clerks \ {c} PROVE Knows(db', job[d])
  <2>1. job[d].at \in CommitSteps => job[d].source \in Sources
    BY DEF ChainInv, Working
  <2>2. Knows(db, job[d])
    BY DEF BackInv
  <2>3. job[d].at \in Hashing => job[d].row # one
    OBVIOUS
  <2> QED  BY <2>1, <2>2, <2>3, KnowledgeKept
<1>3. \A id \in Readable(files'.commits) : BackedIn(db', files'.commits[id])
  BY GrowsKeeps
<1>4. \A d \in Clerks : Knows(db', job'[d])
  BY <1>1, <1>2
<1>5. \A a, d \in Clerks :
        job'[a].at \in Hashing /\ job'[d].at \in Hashing /\ a # d => job'[a].row # job'[d].row
  BY <1>1 DEF BackInv
<1> QED  BY <1>3, <1>4, <1>5 DEF BackInv

Quiet == {"idle", "receipt", "find", "source", "find_again"}

LEMMA QuietKeeps ==
  ASSUME ChainInv, BackInv, NEW c \in Clerks, NEW next, next.at \in Quiet,
         db' = db, job' = [job EXCEPT ![c] = next],
         \A id \in Readable(files'.commits) : BackedIn(db, files'.commits[id])
  PROVE  BackInv'
<1>1. Knows(db', next) /\ next.at \notin Hashing
  BY DEF Quiet, Knows, Hashing
<1>2. DOMAIN db.sources \subseteq Nat \ {0}
  BY DEF BackInv, Typed
<1>3. \A d \in Clerks \ {c} : job[d].at \in Hashing => job[d].row # 0
  BY <1>2 DEF BackInv, Knows, HasRow
<1>4. Typed(db') /\ Grows(db, db', 0)
  BY DEF BackInv, Grows
<1> QED  BY <1>1, <1>3, <1>4, BackFrame

\* A file other than a commit is written.
LEMMA SaveKeepsBacked ==
  ASSUME ChainInv, BackInv, NEW c \in Clerks, NEW kind \in Kinds \ {"commits"},
         NEW cut \in BOOLEAN, NEW name, NEW body, NEW holds, NEW next, next.at \in Quiet,
         Save(c, cut, kind, name, body, holds, next), db' = db
  PROVE  BackInv'
<1>1. files'.commits = files.commits
  BY SaveWrites DEF ChainInv, Kinds
<1>2. \A id \in Readable(files'.commits) : BackedIn(db, files'.commits[id])
  BY <1>1 DEF BackInv
<1>3. Idle.at \in Quiet
  BY DEF Idle, Quiet
<1>4. job' = [job EXCEPT ![c] = IF cut THEN Idle ELSE next]
  BY DEF Save
<1> QED  BY <1>2, <1>3, <1>4, QuietKeeps

\* A transaction of a commit that leaves the files alone.
LEMMA StepFrame ==
  ASSUME ChainInv, BackInv, NEW c \in Clerks, NEW at, NEW next, NEW store,
         NEW one, Step(c, at, next, store),
         Typed(store), Grows(db, store, one), Knows(store, next),
         \A d \in Clerks \ {c} : job[d].at \in Hashing => job[d].row # one,
         \A d \in Clerks \ {c} :
           next.at \in Hashing /\ job[d].at \in Hashing => job[d].row # next.row
  PROVE  BackInv'
<1>1. db' = store /\ files' = files /\ job' = [job EXCEPT ![c] = next]
  BY DEF Step
<1>2. \A id \in Readable(files'.commits) : BackedIn(db, files'.commits[id])
  BY <1>1 DEF BackInv
<1> QED  BY <1>1, <1>2, BackFrame

\* No place in a table is 0, and none is beyond its end.
LEMMA RowsInUse ==
  ASSUME BackInv, NEW d \in Clerks, job[d].at \in Hashing
  PROVE  job[d].row # 0 /\ job[d].row # Len(db.sources) + 1
<1>1. db.sources \in Seq(SourceRow)
  BY DEF BackInv, Typed
<1>2. DOMAIN db.sources = 1..Len(db.sources) /\ Len(db.sources) \in Nat
  BY <1>1
<1>3. job[d].row \in DOMAIN db.sources
  BY DEF BackInv, Knows, HasRow
<1> QED  BY <1>2, <1>3

LEMMA OldestIsOne ==
  ASSUME NEW S \in SUBSET Nat, S # {}
  PROVE  Oldest(S) \in S
<1>1. PICK least \in S : \A other \in S : ~(<<other, least>> \in OpToRel(<, Nat))
  BY NatLessThanWellFounded, WFMin
<1>2. ASSUME NEW other \in S, other < least PROVE FALSE
  <2>1. <<other, least>> \in Nat \X Nat
    OBVIOUS
  <2> QED  BY <1>1, <1>2, <2>1 DEF OpToRel
<1>3. \A other \in S : least <= other
  BY <1>2
<1> QED  BY <1>3 DEF Oldest

LEMMA OldestMatches ==
  ASSUME BackInv, NEW c \in Clerks, Matches(c) # {}
  PROVE  HasRow(db, Oldest(Matches(c)), Url[job[c].source], Content[job[c].source])
<1>1. Matches(c) \in SUBSET Nat
  BY DEF Matches, SourcesOf, BackInv, Typed
<1>2. Oldest(Matches(c)) \in Matches(c)
  BY <1>1, OldestIsOne
<1> QED  BY <1>2 DEF Matches, SourcesOf, HasRow

\* What a job is at the steps of its commit.
LEMMA JobsOfCommits ==
  ASSUME ChainInv, NEW c \in Clerks, job[c].at \in CommitSteps
  PROVE  DOMAIN job[c] = JobFields /\ job[c].source \in Sources /\ job[c].finding \in Findings
BY DEF ChainInv, Working

LEMMA FoundKeeps ==
  ASSUME ChainInv, BackInv, NEW c \in Clerks, NEW at \in CommitSteps, Matches(c) # {},
         Step(c, at, [job[c] EXCEPT !.at = "number", !.row = Oldest(Matches(c))], db)
  PROVE  BackInv'
<1> DEFINE next == [job[c] EXCEPT !.at = "number", !.row = Oldest(Matches(c))]
<1>1. job[c].at \in CommitSteps
  BY DEF Step
<1>2. /\ next.at = "number" /\ next.source = job[c].source
      /\ next.row = Oldest(Matches(c))
  BY <1>1, JobsOfCommits DEF JobFields
<1>3. Step(c, at, next, db)
  OBVIOUS
<1> HIDE DEF next
<1>4. Knows(db, next) /\ next.at \notin Hashing
  BY <1>2, OldestMatches DEF Knows, Hashing
<1>5. Typed(db) /\ Grows(db, db, 0)
  BY DEF BackInv, Grows
<1> QED  BY <1>3, <1>4, <1>5, RowsInUse, StepFrame

LEMMA FindSourceKeeps ==
  ASSUME ChainInv, BackInv, NEW c \in Clerks, FindSource(c) \/ FindAgain(c)
  PROVE  BackInv'
<1>1. CASE Matches(c) # {}
  BY <1>1, FoundKeeps DEF FindSource, FindAgain, CommitSteps
<1>2. CASE Matches(c) = {}
  <2> DEFINE next == [job[c] EXCEPT !.at = "source"]
  <2>1. Step(c, "find", next, db)
    BY <1>2 DEF FindSource, FindAgain
  <2>2. job[c].at \in CommitSteps
    BY <2>1 DEF Step, CommitSteps
  <2>3. next.at \in Quiet
    BY <2>2, JobsOfCommits DEF JobFields, Quiet
  <2> HIDE DEF next
  <2> QED  BY <2>1, <2>3, QuietKeeps DEF Step, BackInv
<1> QED  BY <1>1, <1>2

\* A transaction that leaves the sources and the evidence as they are.
LEMMA AsideKeeps ==
  ASSUME ChainInv, BackInv, NEW c \in Clerks, NEW at, NEW next, NEW store,
         Step(c, at, next, store),
         Typed(store), store.sources = db.sources, store.evidence = db.evidence,
         Knows(store, next),
         next.at \in Hashing => job[c].at \in Hashing /\ next.row = job[c].row
  PROVE  BackInv'
<1>1. Grows(db, store, 0)
  BY DEF Grows
<1>2. \A d \in Clerks \ {c} : job[d].at \in Hashing => job[d].row # 0
  BY RowsInUse
<1>3. \A d \in Clerks \ {c} :
        next.at \in Hashing /\ job[d].at \in Hashing => job[d].row # next.row
  BY DEF BackInv
<1> QED  BY <1>1, <1>2, <1>3, StepFrame

LEMMA AuditedKeeps ==
  ASSUME NEW D, Typed(D), NEW action, NEW row
  PROVE  LET E == Audited(D, action, row)
         IN Typed(E) /\ E.sources = D.sources /\ E.evidence = D.evidence
BY DEF Typed, Audited

LEMMA CreateSourceKeeps ==
  ASSUME ChainInv, BackInv, NEW c \in Clerks, CreateSource(c)
  PROVE  BackInv'
<1> DEFINE end == Len(db.sources) + 1
           next == [job[c] EXCEPT !.at = "source_audit", !.row = end]
           new == [url |-> Url[job[c].source], hash |-> Null]
           store == InsertSource(db, Url[job[c].source], Null)
<1>1. Step(c, "source", next, store)
  BY DEF CreateSource
<1>2. job[c].source \in Sources /\ DOMAIN job[c] = JobFields
  BY <1>1, JobsOfCommits DEF Step, CommitSteps
<1>3. next.at = "source_audit" /\ next.source = job[c].source /\ next.row = end
  BY <1>2 DEF JobFields
<1>4. db.sources \in Seq(SourceRow) /\ new \in SourceRow
  BY <1>2 DEF BackInv, Typed, SourceRow, Hashes
<1>5. /\ Append(db.sources, new) \in Seq(SourceRow)
      /\ DOMAIN db.sources = 1..Len(db.sources)
      /\ DOMAIN Append(db.sources, new) = 1..end
      /\ Append(db.sources, new)[end] = new
      /\ \A row \in 1..Len(db.sources) : Append(db.sources, new)[row] = db.sources[row]
      /\ Len(db.sources) \in Nat
  BY <1>4
<1>6. /\ store.sources = Append(db.sources, new)
      /\ store.evidence = db.evidence /\ store.last = db.last
      /\ DOMAIN store = DOMAIN db
  BY DEF BackInv, Typed, InsertSource
<1> HIDE DEF next, store
<1>7. Typed(store)
  BY <1>5, <1>6 DEF BackInv, Typed
<1>8. Grows(db, store, 0)
  BY <1>5, <1>6 DEF Grows
<1>9. HasRow(store, end, Url[job[c].source], Null)
  BY <1>5, <1>6 DEF HasRow
<1>10. Knows(store, next)
  BY <1>3, <1>9 DEF Knows, Hashing
<1> QED  BY <1>1, <1>3, <1>7, <1>8, <1>10, RowsInUse, StepFrame

LEMMA AuditSourceKeeps ==
  ASSUME ChainInv, BackInv, NEW c \in Clerks, AuditSource(c)
  PROVE  BackInv'
<1> DEFINE next == [job[c] EXCEPT !.at = "checksum"]
           store == Audited(db, "source.created", job[c].row)
<1>1. Step(c, "source_audit", next, store) /\ job[c].at = "source_audit"
  BY DEF AuditSource, Step
<1>2. next.at = "checksum" /\ next.source = job[c].source /\ next.row = job[c].row
  BY <1>1, JobsOfCommits DEF CommitSteps, JobFields
<1>3. Typed(store) /\ store.sources = db.sources /\ store.evidence = db.evidence
  BY AuditedKeeps DEF BackInv
<1> HIDE DEF next, store
<1>4. HasRow(db, job[c].row, Url[job[c].source], Null)
  BY <1>1 DEF BackInv, Knows, Hashing
<1>5. Knows(store, next)
  BY <1>2, <1>3, <1>4 DEF Knows, HasRow
<1> QED  BY <1>1, <1>2, <1>3, <1>5, AsideKeeps DEF Hashing

LEMMA RecordChecksumKeeps ==
  ASSUME ChainInv, BackInv, NEW c \in Clerks, RecordChecksum(c)
  PROVE  BackInv'
<1> DEFINE one == job[c].row
           hash == Content[job[c].source]
           next == [job[c] EXCEPT !.at = "find_again"]
           store == SetChecksum(db, one, hash)
<1>1. Step(c, "checksum", next, store) /\ job[c].at = "checksum"
  BY DEF RecordChecksum, Step
<1>2. job[c].source \in Sources /\ next.at = "find_again"
  BY <1>1, JobsOfCommits DEF CommitSteps, JobFields
<1>3. HasRow(db, one, Url[job[c].source], Null)
  BY <1>1 DEF BackInv, Knows, Hashing
<1>4. db.sources \in Seq(SourceRow) /\ hash \in Hashes
  BY <1>2 DEF BackInv, Typed, Hashes
<1>5. /\ store.sources = [db.sources EXCEPT ![one] = [@ EXCEPT !.hash = hash]]
      /\ store.evidence = db.evidence /\ store.last = db.last
      /\ DOMAIN store = DOMAIN db
  BY DEF BackInv, Typed, SetChecksum
<1>6. db.sources[one] \in SourceRow
  BY <1>3, <1>4 DEF HasRow
<1>7. [db.sources[one] EXCEPT !.hash = hash] \in SourceRow
  BY <1>4, <1>6 DEF SourceRow
<1>8. store.sources \in Seq(SourceRow)
  <2>1. one \in DOMAIN db.sources
    BY <1>3 DEF HasRow
  <2>2. store.sources = [db.sources EXCEPT ![one] = [db.sources[one] EXCEPT !.hash = hash]]
    BY <1>5
  <2> QED  BY <1>4, <1>7, <2>1, <2>2, ExceptSeq
<1> HIDE DEF next, store
<1>9. Typed(store)
  BY <1>5, <1>8 DEF BackInv, Typed
<1>10. Grows(db, store, one)
  BY <1>3, <1>4, <1>5 DEF Grows, HasRow
<1>11. Knows(store, next) /\ next.at \notin Hashing
  BY <1>2 DEF Knows, Hashing
<1>12. \A d \in Clerks \ {c} : job[d].at \in Hashing => job[d].row # one
  BY <1>1 DEF BackInv, Hashing
<1> QED  BY <1>1, <1>9, <1>10, <1>11, <1>12, StepFrame

LEMMA DrawNumberKeeps ==
  ASSUME ChainInv, BackInv, NEW c \in Clerks, DrawNumber(c)
  PROVE  BackInv'
<1> DEFINE next == [job[c] EXCEPT !.at = "evidence", !.number = Issued(db, "evidence")]
           store == Issue(db, "evidence")
<1>1. Step(c, "number", next, store) /\ job[c].at = "number"
  BY DEF DrawNumber, Step
<1>2. /\ next.at = "evidence" /\ next.source = job[c].source /\ next.row = job[c].row
      /\ next.number = db.last["evidence"] + 1
  BY <1>1, JobsOfCommits DEF CommitSteps, JobFields, Issued
<1>3. /\ store.sources = db.sources /\ store.evidence = db.evidence
      /\ Typed(store)
  BY DEF BackInv, Typed, Issue, EntityTypes
<1> HIDE DEF next, store
<1>4. HasRow(db, job[c].row, Url[job[c].source], Content[job[c].source])
  BY <1>1 DEF BackInv, Knows
<1>5. next.number \in Nat
  BY <1>2 DEF BackInv, Typed
<1>6. Knows(store, next)
  BY <1>2, <1>3, <1>4, <1>5 DEF Knows, HasRow, Hashing
<1> QED  BY <1>1, <1>2, <1>3, <1>6, AsideKeeps DEF Hashing

LEMMA AddEvidenceKeeps ==
  ASSUME ChainInv, BackInv, NEW c \in Clerks, AddEvidence(c)
  PROVE  BackInv'
<1> DEFINE next == [job[c] EXCEPT !.at = "evidence_audit"]
           new == [number |-> job[c].number, source |-> job[c].row,
                   assertion |-> job[c].finding, hash |-> db.sources[job[c].row].hash]
           end == Len(db.evidence) + 1
           store == InsertEvidence(db, job[c].number, job[c].row, job[c].finding)
<1>1. Step(c, "evidence", next, store) /\ job[c].at = "evidence"
  BY DEF AddEvidence, Step
<1>2. /\ job[c].source \in Sources /\ job[c].finding \in Findings
      /\ DOMAIN job[c] = JobFields
  BY <1>1, JobsOfCommits DEF CommitSteps
<1>3. /\ next.at = "evidence_audit" /\ next.source = job[c].source
      /\ next.number = job[c].number /\ next.finding = job[c].finding
  BY <1>2 DEF JobFields
<1>4. /\ HasRow(db, job[c].row, Url[job[c].source], Content[job[c].source])
      /\ job[c].number \in Nat
  BY <1>1 DEF BackInv, Knows
<1>5. db.evidence \in Seq(EvidenceRow) /\ db.sources \in Seq(SourceRow)
  BY DEF BackInv, Typed
<1>6. job[c].row \in Nat /\ db.sources[job[c].row].hash \in Hashes
  BY <1>2, <1>4, <1>5 DEF HasRow, Hashes
<1>7. new \in EvidenceRow
  BY <1>2, <1>4, <1>6 DEF EvidenceRow
<1>8. /\ Append(db.evidence, new) \in Seq(EvidenceRow)
      /\ DOMAIN db.evidence = 1..Len(db.evidence)
      /\ DOMAIN Append(db.evidence, new) = 1..end
      /\ Append(db.evidence, new)[end] = new
      /\ \A row \in 1..Len(db.evidence) : Append(db.evidence, new)[row] = db.evidence[row]
      /\ Len(db.evidence) \in Nat
  BY <1>5, <1>7
<1>9. /\ store.evidence = Append(db.evidence, new)
      /\ store.sources = db.sources /\ store.last = db.last
      /\ DOMAIN store = DOMAIN db
  BY DEF BackInv, Typed, InsertEvidence
<1> HIDE DEF next, store
<1>10. Typed(store)
  BY <1>8, <1>9 DEF BackInv, Typed
<1>11. Grows(db, store, 0)
  <2>1. \A row \in 1..Len(db.evidence) : row \in 1..end
    BY <1>8
  <2>2. \A row \in DOMAIN db.evidence :
          row \in DOMAIN store.evidence /\ store.evidence[row] = db.evidence[row]
    BY <1>8, <1>9, <2>1
  <2> QED  BY <1>9, <2>2 DEF Grows
<1>12. end \in DOMAIN store.evidence /\ store.evidence[end] = new
  BY <1>8, <1>9
<1>13. new.hash = Content[job[c].source]
  BY <1>4 DEF HasRow
<1>14. HasRow(store, new.source, Url[job[c].source], Content[job[c].source])
  BY <1>4, <1>9 DEF HasRow
<1>15. /\ new.number = job[c].number /\ new.assertion = job[c].finding
  OBVIOUS
<1> HIDE DEF new, end
<1>16. BackedIn(store, next)
  BY <1>2, <1>3, <1>12, <1>13, <1>14, <1>15 DEF BackedIn
<1>17. Knows(store, next) /\ next.at \notin Hashing
  BY <1>3, <1>16 DEF Knows, Hashing
<1> QED  BY <1>1, <1>10, <1>11, <1>17, RowsInUse, StepFrame

LEMMA SubjectUnknownKeeps ==
  ASSUME ChainInv, BackInv, NEW c \in Clerks, SubjectUnknown(c)
  PROVE  BackInv'
<1>1. Idle.at \in Quiet
  BY DEF Idle, Quiet
<1>2. db' = db /\ files' = files /\ job' = [job EXCEPT ![c] = Idle]
  BY DEF SubjectUnknown, Step
<1> QED  BY <1>1, <1>2, QuietKeeps DEF BackInv

LEMMA AuditEvidenceKeeps ==
  ASSUME ChainInv, BackInv, NEW c \in Clerks, AuditEvidence(c)
  PROVE  BackInv'
<1> DEFINE next == [job[c] EXCEPT !.at = "commit"]
           store == Audited(db, "evidence.created", job[c].number)
<1>1. Step(c, "evidence_audit", next, store) /\ job[c].at = "evidence_audit"
  BY DEF AuditEvidence, Step
<1>2. /\ next.at = "commit" /\ next.source = job[c].source
      /\ next.number = job[c].number /\ next.finding = job[c].finding
  BY <1>1, JobsOfCommits DEF CommitSteps, JobFields
<1>3. Typed(store) /\ store.sources = db.sources /\ store.evidence = db.evidence
  BY AuditedKeeps DEF BackInv
<1> HIDE DEF next, store
<1>4. BackedIn(db, job[c])
  BY <1>1 DEF BackInv, Knows
<1>5. BackedIn(store, next)
  BY <1>2, <1>3, <1>4 DEF BackedIn, HasRow
<1>6. Knows(store, next) /\ next.at \notin Hashing
  BY <1>2, <1>5 DEF Knows, Hashing
<1> QED  BY <1>1, <1>3, <1>6, AsideKeeps

\* The commit is filed when the registry backs it.
LEMMA SaveCommitKeepsBacked ==
  ASSUME ChainInv, BackInv, NEW c \in Clerks, NEW cut \in BOOLEAN, SaveCommit(c, cut)
  PROVE  BackInv'
<1> DEFINE body == [finding |-> job[c].finding, source |-> job[c].source,
                    review |-> job[c].review, number |-> job[c].number]
<1>1. /\ Save(c, cut, "commits", job[c].evidence, body, memory[c], Idle)
      /\ db' = db /\ job[c].at = "commit"
  BY DEF SaveCommit
<1>2. BackedIn(db, job[c])
  BY <1>1 DEF BackInv, Knows
<1>3. /\ body.source = job[c].source /\ body.number = job[c].number
      /\ body.finding = job[c].finding
  OBVIOUS
<1> HIDE DEF body
<1>4. BackedIn(db, body)
  BY <1>2, <1>3 DEF BackedIn
<1>5. ASSUME NEW id \in Readable(files'.commits)
      PROVE  BackedIn(db, files'.commits[id])
  <2>1. \/ id \in DOMAIN files.commits /\ files'.commits[id] = files.commits[id]
        \/ files'.commits[id] = IF cut THEN Torn ELSE body
    BY <1>1, SaveWrites DEF ChainInv, Kinds, Readable
  <2>2. files'.commits[id] # Torn
    BY DEF Readable
  <2> QED  BY <1>4, <2>1, <2>2 DEF BackInv, Readable
<1>6. Idle.at \in Quiet
  BY DEF Idle, Quiet
<1>7. job' = [job EXCEPT ![c] = Idle]
  BY <1>1 DEF Save
<1> QED  BY <1>1, <1>5, <1>6, <1>7, QuietKeeps

LEMMA CommitStepKeepsBacked ==
  ASSUME ChainInv, BackInv, NEW c \in Clerks, CommitStep(c)
  PROVE  BackInv'
BY FindSourceKeeps, CreateSourceKeeps, AuditSourceKeeps, RecordChecksumKeeps,
   DrawNumberKeeps, AddEvidenceKeeps, SubjectUnknownKeeps, AuditEvidenceKeeps,
   SaveCommitKeepsBacked DEF CommitStep

LEMMA FilingKeepsBacked ==
  ASSUME ChainInv, BackInv, NEW c \in Clerks, NEW cut \in BOOLEAN,
         \/ \E s \in Sources : \/ AdmitSource(c, s, cut)
                               \/ RejectSource(c, s, cut)
                               \/ \E f \in Findings : CreateFinding(c, s, f, cut)
         \/ SaveReceipt(c, cut)
         \/ \E object \in memory[c].findings, r \in Reviewers, decision \in Decisions :
              Review(c, object, r, decision, cut)
  PROVE  BackInv'
<1>1. PICK kind \in Kinds \ {"commits"} : \E name, body, holds, next :
        /\ next.at \in Quiet
        /\ Save(c, cut, kind, name, body, holds, next)
        /\ db' = db
  <2>1. ASSUME NEW s \in Sources, AdmitSource(c, s, cut) \/ RejectSource(c, s, cut)
        PROVE  \E body, holds : Save(c, cut, "sources", s, body, holds, Idle) /\ db' = db
    BY <2>1 DEF AdmitSource, RejectSource
  <2>2. ASSUME NEW s \in Sources, NEW f \in Findings, CreateFinding(c, s, f, cut)
        PROVE  /\ Save(c, cut, "findings", f, s, memory[c],
                       [at |-> "receipt", finding |-> f, source |-> s])
               /\ db' = db
    BY <2>2 DEF CreateFinding
  <2>3. ASSUME SaveReceipt(c, cut)
        PROVE  \E name, body, holds :
                 Save(c, cut, "receipts", name, body, holds, Idle) /\ db' = db
    BY <2>3 DEF SaveReceipt
  <2>4. ASSUME NEW object, NEW r, NEW decision, Review(c, object, r, decision, cut)
        PROVE  \E name, body, holds :
                 Save(c, cut, "reviews", name, body, holds, Idle) /\ db' = db
    BY <2>4 DEF Review
  <2>5. /\ Idle.at \in Quiet
        /\ \A s, f : [at |-> "receipt", finding |-> f, source |-> s].at \in Quiet
    BY DEF Idle, Quiet
  <2> QED  BY <2>1, <2>2, <2>3, <2>4, <2>5 DEF Kinds
<1> QED  BY <1>1, SaveKeepsBacked

LEMMA BeginCommitKeepsBacked ==
  ASSUME ChainInv, BackInv, NEW c \in Clerks, NEW object, NEW review,
         BeginCommit(c, object, review)
  PROVE  BackInv'
<1> DEFINE next == [at |-> "find", finding |-> object.finding,
                    source |-> object.source, review |-> review,
                    evidence |-> begun + 1, row |-> 0, number |-> 0]
<1>1. db' = db /\ files' = files /\ job' = [job EXCEPT ![c] = next]
  BY DEF BeginCommit, Paired, Begin
<1>2. next.at \in Quiet
  BY DEF Quiet
<1> HIDE DEF next
<1> QED  BY <1>1, <1>2, QuietKeeps DEF BackInv

LEMMA StepKeepsBacked ==
  ASSUME ChainInv, BackInv, [Next]_vars
  PROVE  BackInv'
<1>1. ASSUME NEW c \in Clerks, NEW s \in Sources, NEW cut \in Cuts,
             \/ AdmitSource(c, s, cut)
             \/ RejectSource(c, s, cut)
             \/ \E f \in Findings : CreateFinding(c, s, f, cut)
      PROVE  BackInv'
  BY <1>1, CutsAreBoolean, FilingKeepsBacked
<1>2. ASSUME NEW c \in Clerks, NEW cut \in Cuts, SaveReceipt(c, cut) \/ SaveCommit(c, cut)
      PROVE  BackInv'
  BY <1>2, CutsAreBoolean, FilingKeepsBacked, SaveCommitKeepsBacked
<1>3. ASSUME NEW c \in Clerks, NEW object \in memory[c].findings,
             \/ \E r \in Reviewers, decision \in Decisions, cut \in Cuts :
                  Review(c, object, r, decision, cut)
             \/ \E review \in memory[c].reviews : BeginCommit(c, object, review)
      PROVE  BackInv'
  BY <1>3, CutsAreBoolean, FilingKeepsBacked, BeginCommitKeepsBacked
<1>4. ASSUME NEW c \in Clerks, CommitStep(c)
      PROVE  BackInv'
  BY <1>4, CommitStepKeepsBacked
<1>5. ASSUME NEW c \in Clerks, Raise(c) \/ Die(c)
      PROVE  BackInv'
  <2>1. Idle.at \in Quiet
    BY DEF Idle, Quiet
  <2>2. db' = db /\ files' = files /\ job' = [job EXCEPT ![c] = Idle]
    BY <1>5 DEF Raise, Die
  <2> QED  BY <2>1, <2>2, QuietKeeps DEF BackInv
<1>6. ASSUME NEW r \in Reviewers, Lapse(r)
      PROVE  BackInv'
  BY <1>6 DEF Lapse, BackInv
<1>7. CASE UNCHANGED vars
  BY <1>7 DEF vars, BackInv
<1> QED  BY <1>1, <1>2, <1>3, <1>4, <1>5, <1>6, <1>7 DEF Next

LEMMA InitBacked == Init => BackInv
<1> SUFFICES ASSUME Init PROVE BackInv
  OBVIOUS
<1>1. /\ db.sources = <<>> /\ db.evidence = <<>>
      /\ DOMAIN db = {"last", "rows", "sources", "evidence", "audit"}
      /\ DOMAIN db.last = EntityTypes /\ db.last["evidence"] = 0
  BY DEF Init, EmptyStore, EntityTypes
<1>2. Typed(db)
  BY <1>1 DEF Typed
<1>3. \A c \in Clerks : job[c].at = "idle"
  BY DEF Init, Idle
<1>4. Readable(files.commits) = {}
  BY DEF Init, Readable
<1> QED  BY <1>2, <1>3, <1>4 DEF BackInv, Knows, Hashing

LEMMA BackInvBacks == BackInv => CommitsAreBacked
<1> SUFFICES ASSUME BackInv, NEW id \in Readable(files.commits)
             PROVE  LET commit == files.commits[id] IN
                    \E row \in DOMAIN db.evidence :
                      LET evidence == db.evidence[row]
                      IN /\ evidence.number = commit.number
                         /\ evidence.assertion = commit.finding
                         /\ evidence.hash = Content[commit.source]
                         /\ db.sources[evidence.source] =
                              [url |-> Url[commit.source], hash |-> Content[commit.source]]
  BY DEF CommitsAreBacked, Commits
<1>1. BackedIn(db, files.commits[id])
  BY DEF BackInv
<1>2. \A row \in DOMAIN db.sources : \A url, hash :
        HasRow(db, row, url, hash) => db.sources[row] = [url |-> url, hash |-> hash]
  <2>1. \A row \in DOMAIN db.sources : db.sources[row] \in SourceRow
    BY DEF BackInv, Typed
  <2> QED  BY <2>1 DEF HasRow, SourceRow
<1>3. PICK row \in DOMAIN db.evidence :
        /\ db.evidence[row].number = files.commits[id].number
        /\ db.evidence[row].assertion = files.commits[id].finding
        /\ db.evidence[row].hash = Content[files.commits[id].source]
        /\ HasRow(db, db.evidence[row].source, Url[files.commits[id].source],
                  Content[files.commits[id].source])
  BY <1>1 DEF BackedIn
<1>4. db.evidence[row].source \in DOMAIN db.sources
  BY <1>3 DEF HasRow
<1>5. db.sources[db.evidence[row].source] =
        [url |-> Url[files.commits[id].source], hash |-> Content[files.commits[id].source]]
  BY <1>2, <1>3, <1>4
<1> QED  BY <1>3, <1>5

\* Every commit is backed by the registry, for any number of clerks, findings,
\* faults and attempts: the row it names is there and carries the hash and
\* the URL of its source, though between its creation and its checksum a
\* registry source is in view of every other commit (registry_adapter.py
\* create_evidence).
THEOREM CommitsBacked ==
  ASSUME ReviewsAreWhole
  PROVE  Spec => []CommitsAreBacked
<1>1. Init => ChainInv /\ BackInv
  BY InitChain, InitBacked
<1>2. ChainInv /\ BackInv /\ [Next]_vars => (ChainInv /\ BackInv)'
  BY StepKeepsChain, StepKeepsBacked
<1> QED  BY <1>1, <1>2, BackInvBacks, PTL DEF Spec
-----------------------------------------------------------------------------
(* The ledger.                                                             *)

OneClerk == \A c, d \in Clerks : c = d

Approved ==
  {f \in Findings : \E id \in Readable(files.reviews) :
     /\ files.reviews[id].finding = f
     /\ files.reviews[id].decision = "Approve"}

Rows == {<<db.evidence[row].number, db.evidence[row].assertion>> :
           row \in DOMAIN db.evidence}

Entries == {<<commit.number, commit.finding>> : commit \in Commits}

Whole == Searchable(files.commits)

OnRecord == {files.commits[id].finding : id \in Readable(files.commits)}

\* Numbers are drawn before they are used.
Drawn(D) == \A row \in DOMAIN D.evidence : D.evidence[row].number <= D.last["evidence"]

\* The number of a row about to be inserted is no row's.
Unused(D, j) ==
  j.at = "evidence" =>
    /\ j.number <= D.last["evidence"]
    /\ \A row \in DOMAIN D.evidence : D.evidence[row].number # j.number

\* What is being committed was not committed before.
LedgerInv ==
  /\ Drawn(db)
  /\ \A c \in Clerks :
       /\ Unused(db, job[c])
       /\ job[c].at \in CommitSteps => Whole /\ job[c].finding \notin OnRecord

LEMMA Stutters ==
  ASSUME db'.evidence = db.evidence, files'.commits = files.commits,
         files'.reviews = files.reviews
  PROVE  UNCHANGED Ledger!vars
<1>1. Approved' = Approved
  BY DEF Approved, Readable
<1>2. Rows' = Rows
  BY DEF Rows
<1>3. Entries' = Entries
  BY DEF Entries, Commits, Readable
<1>4. Searchable(files.commits)' = Searchable(files.commits)
  BY DEF Searchable
<1> QED  BY <1>1, <1>2, <1>3, <1>4 DEF Ledger!vars, Approved, Rows, Entries

\* Outside of commits there is nothing to know.
LEMMA OutsideKeepsLedger ==
  ASSUME OneClerk, ChainInv, LedgerInv, NEW c \in Clerks, NEW next,
         next.at \notin CommitSteps, job' = [job EXCEPT ![c] = next],
         db'.evidence = db.evidence, db'.last = db.last
  PROVE  LedgerInv'
<1>1. \A d \in Clerks : job'[d].at \notin CommitSteps
  BY DEF OneClerk, ChainInv
<1>2. "evidence" \in CommitSteps
  BY DEF CommitSteps
<1> QED  BY <1>1, <1>2 DEF LedgerInv, Drawn, Unused

\* A transaction of a commit goes on with the same finding.
LEMMA StepKeepsLedger ==
  ASSUME OneClerk, ChainInv, LedgerInv, NEW c \in Clerks, NEW at \in CommitSteps,
         NEW next, NEW store, Step(c, at, next, store),
         next.at \in CommitSteps => next.finding = job[c].finding,
         Drawn(store), Unused(store, next)
  PROVE  LedgerInv'
<1>1. /\ db' = store /\ files' = files /\ job[c].at \in CommitSteps
      /\ \A d \in Clerks : job'[d] = next
  BY DEF OneClerk, ChainInv, Step
<1>2. Whole' = Whole /\ OnRecord' = OnRecord
  BY <1>1 DEF Whole, OnRecord, Searchable, Readable
<1>3. next.at \in CommitSteps => Whole' /\ next.finding \notin OnRecord'
  BY <1>1, <1>2 DEF LedgerInv
<1>4. Drawn(db') /\ \A d \in Clerks : Unused(db', job'[d])
  BY <1>1
<1> QED  BY <1>1, <1>3, <1>4 DEF LedgerInv

\* A transaction that adds no evidence and draws no number.
LEMMA MovesKeepLedger ==
  ASSUME OneClerk, ChainInv, LedgerInv, NEW c \in Clerks, NEW at \in CommitSteps,
         NEW next, NEW store, Step(c, at, next, store),
         next.at \in CommitSteps => next.finding = job[c].finding,
         next.at # "evidence",
         store.evidence = db.evidence, store.last = db.last
  PROVE  LedgerInv' /\ UNCHANGED Ledger!vars
<1>1. Drawn(store) /\ Unused(store, next)
  BY DEF LedgerInv, Drawn, Unused
<1>2. db' = store /\ files' = files
  BY DEF Step
<1> QED  BY <1>1, <1>2, StepKeepsLedger, Stutters

LEMMA FindingMoves ==
  ASSUME OneClerk, ChainInv, LedgerInv, NEW c \in Clerks, FindSource(c) \/ FindAgain(c)
  PROVE  LedgerInv' /\ UNCHANGED Ledger!vars
<1> DEFINE aside == [job[c] EXCEPT !.at = "source"]
           found == [job[c] EXCEPT !.at = "number", !.row = Oldest(Matches(c))]
<1>1. PICK at \in {"find", "find_again"} : Step(c, at, aside, db) \/ Step(c, at, found, db)
  BY DEF FindSource, FindAgain
<1>2. at \in CommitSteps /\ job[c].at \in CommitSteps
  BY <1>1 DEF Step, CommitSteps
<1>3. /\ aside.at = "source" /\ aside.finding = job[c].finding
      /\ found.at = "number" /\ found.finding = job[c].finding
  BY <1>2, JobsOfCommits DEF JobFields
<1> HIDE DEF aside, found
<1> QED  BY <1>1, <1>2, <1>3, MovesKeepLedger

LEMMA CreateSourceMoves ==
  ASSUME OneClerk, ChainInv, BackInv, LedgerInv, NEW c \in Clerks, CreateSource(c)
  PROVE  LedgerInv' /\ UNCHANGED Ledger!vars
<1> DEFINE next == [job[c] EXCEPT !.at = "source_audit", !.row = Len(db.sources) + 1]
           store == InsertSource(db, Url[job[c].source], Null)
<1>1. Step(c, "source", next, store) /\ "source" \in CommitSteps
  BY DEF CreateSource, CommitSteps
<1>2. next.at = "source_audit" /\ next.finding = job[c].finding
  BY <1>1, JobsOfCommits DEF Step, JobFields
<1>3. store.evidence = db.evidence /\ store.last = db.last
  BY DEF BackInv, Typed, InsertSource
<1> HIDE DEF next, store
<1> QED  BY <1>1, <1>2, <1>3, MovesKeepLedger

LEMMA AuditMoves ==
  ASSUME OneClerk, ChainInv, BackInv, LedgerInv, NEW c \in Clerks,
         AuditSource(c) \/ AuditEvidence(c)
  PROVE  LedgerInv' /\ UNCHANGED Ledger!vars
<1>1. PICK at \in {"source_audit", "evidence_audit"}, then \in {"checksum", "commit"} :
        \E action, row :
          Step(c, at, [job[c] EXCEPT !.at = then], Audited(db, action, row))
  BY DEF AuditSource, AuditEvidence
<1>2. PICK action, row : Step(c, at, [job[c] EXCEPT !.at = then], Audited(db, action, row))
  BY <1>1
<1> DEFINE next == [job[c] EXCEPT !.at = then]
           store == Audited(db, action, row)
<1>3. Step(c, at, next, store) /\ at \in CommitSteps /\ job[c].at \in CommitSteps
  BY <1>2 DEF Step, CommitSteps
<1>4. next.at = then /\ next.finding = job[c].finding /\ then # "evidence"
  BY <1>3, JobsOfCommits DEF JobFields
<1>5. store.evidence = db.evidence /\ store.last = db.last
  BY DEF BackInv, Typed, Audited
<1> HIDE DEF next, store
<1> QED  BY <1>3, <1>4, <1>5, MovesKeepLedger

LEMMA RecordChecksumMoves ==
  ASSUME OneClerk, ChainInv, BackInv, LedgerInv, NEW c \in Clerks, RecordChecksum(c)
  PROVE  LedgerInv' /\ UNCHANGED Ledger!vars
<1> DEFINE next == [job[c] EXCEPT !.at = "find_again"]
           store == SetChecksum(db, job[c].row, Content[job[c].source])
<1>1. Step(c, "checksum", next, store) /\ "checksum" \in CommitSteps
  BY DEF RecordChecksum, CommitSteps
<1>2. next.at = "find_again" /\ next.finding = job[c].finding
  BY <1>1, JobsOfCommits DEF Step, JobFields
<1>3. store.evidence = db.evidence /\ store.last = db.last
  BY DEF BackInv, Typed, SetChecksum
<1> HIDE DEF next, store
<1> QED  BY <1>1, <1>2, <1>3, MovesKeepLedger

LEMMA SubjectUnknownMoves ==
  ASSUME OneClerk, ChainInv, LedgerInv, NEW c \in Clerks, SubjectUnknown(c)
  PROVE  LedgerInv' /\ UNCHANGED Ledger!vars
<1>1. Step(c, "evidence", Idle, db) /\ "evidence" \in CommitSteps
  BY DEF SubjectUnknown, CommitSteps
<1>2. Idle.at \notin CommitSteps /\ Idle.at # "evidence"
  BY DEF Idle, CommitSteps
<1> QED  BY <1>1, <1>2, MovesKeepLedger

LEMMA DrawNumberMoves ==
  ASSUME OneClerk, ChainInv, BackInv, LedgerInv, NEW c \in Clerks, DrawNumber(c)
  PROVE  LedgerInv' /\ UNCHANGED Ledger!vars
<1> DEFINE last == db.last["evidence"]
           next == [job[c] EXCEPT !.at = "evidence", !.number = last + 1]
           store == Issue(db, "evidence")
<1>1. Step(c, "number", next, store) /\ "number" \in CommitSteps
  BY DEF DrawNumber, Issued, CommitSteps
<1>2. next.at = "evidence" /\ next.finding = job[c].finding /\ next.number = last + 1
  BY <1>1, JobsOfCommits DEF Step, JobFields
<1>3. store.evidence = db.evidence /\ store.last["evidence"] = last + 1 /\ last \in Nat
  BY DEF BackInv, Typed, Issue, EntityTypes
<1> HIDE DEF next, store
<1>4. db.evidence \in Seq(EvidenceRow)
  BY DEF BackInv, Typed
<1>5. \A row \in DOMAIN db.evidence : db.evidence[row] \in EvidenceRow
  BY <1>4
<1>6. \A row \in DOMAIN db.evidence :
        db.evidence[row].number \in Nat /\ db.evidence[row].number <= last
  BY <1>5 DEF EvidenceRow, LedgerInv, Drawn
<1> HIDE DEF last
<1>7. Drawn(store) /\ Unused(store, next)
  BY <1>2, <1>3, <1>6 DEF Drawn, Unused
<1>8. db' = store /\ files' = files
  BY <1>1 DEF Step
<1> QED  BY <1>1, <1>2, <1>3, <1>7, <1>8, StepKeepsLedger, Stutters

\* What a clerk is committing has been approved.
LEMMA JobsAreApproved ==
  ASSUME ChainInv, NEW c \in Clerks, job[c].at \in CommitSteps
  PROVE  job[c].finding \in Approved
BY DEF ChainInv, Working, Linked, Approved

LEMMA AddEvidenceRegisters ==
  ASSUME OneClerk, ChainInv, BackInv, LedgerInv, NEW c \in Clerks, AddEvidence(c)
  PROVE  LedgerInv' /\ Ledger!Register
<1> DEFINE number == job[c].number
           next == [job[c] EXCEPT !.at = "evidence_audit"]
           new == [number |-> number, source |-> job[c].row,
                   assertion |-> job[c].finding, hash |-> db.sources[job[c].row].hash]
           store == InsertEvidence(db, number, job[c].row, job[c].finding)
           end == Len(db.evidence) + 1
<1>1. /\ Step(c, "evidence", next, store) /\ "evidence" \in CommitSteps
      /\ job[c].at = "evidence" /\ db' = store /\ files' = files
  BY DEF AddEvidence, Step, CommitSteps
<1>2. next.at = "evidence_audit" /\ next.finding = job[c].finding
  BY <1>1, JobsOfCommits DEF JobFields
<1>3. store.evidence = Append(db.evidence, new) /\ store.last = db.last
  BY DEF BackInv, Typed, InsertEvidence
<1>4. new.number = number /\ new.assertion = job[c].finding
  OBVIOUS
<1> HIDE DEF next, new, store
<1>5. db.evidence \in Seq(EvidenceRow)
  BY DEF BackInv, Typed
<1>6. /\ DOMAIN store.evidence = DOMAIN db.evidence \union {end}
      /\ store.evidence[end] = new
      /\ \A row \in DOMAIN db.evidence : store.evidence[row] = db.evidence[row]
  BY <1>3, <1>5
<1>7. /\ Drawn(db) /\ number <= db.last["evidence"]
      /\ \A row \in DOMAIN db.evidence : db.evidence[row].number # number
  BY <1>1 DEF LedgerInv, Unused
<1> HIDE DEF number
<1>8. Drawn(store) /\ Unused(store, next)
  BY <1>2, <1>3, <1>4, <1>6, <1>7 DEF Drawn, Unused
<1>9. LedgerInv'
  BY <1>1, <1>2, <1>8, StepKeepsLedger
<1>10. Rows' = Rows \union {<<number, job[c].finding>>}
  <2>1. Rows' = {<<store.evidence[row].number, store.evidence[row].assertion>> :
                   row \in DOMAIN db.evidence \union {end}}
    BY <1>1, <1>6 DEF Rows
  <2> QED  BY <2>1, <1>4, <1>6 DEF Rows
<1>11. job[c].finding \in Approved
  BY <1>1, JobsAreApproved
<1>12. \A old \in Rows : old[1] # number
  BY <1>7 DEF Rows
<1>13. \A row \in Rows' \ Rows : row[2] \in Approved /\ \A old \in Rows : old[1] # row[1]
  BY <1>10, <1>11, <1>12
<1>14. /\ Approved' = Approved /\ Entries' = Entries
       /\ Searchable(files.commits)' = Searchable(files.commits)
  BY <1>1 DEF Approved, Entries, Commits, Readable, Searchable
<1>15. Rows \subseteq Rows'
  BY <1>10
<1> QED  BY <1>9, <1>13, <1>14, <1>15 DEF Ledger!Register, Approved, Rows, Entries

\* Filing the commit makes an entry, or damages the ledger.
LEMMA SaveCommitCommits ==
  ASSUME OneClerk, ChainInv, BackInv, LedgerInv, NEW c \in Clerks, NEW cut \in BOOLEAN,
         SaveCommit(c, cut)
  PROVE  LedgerInv' /\ (Ledger!Damage \/ \E row \in Rows : Ledger!Commit(row))
<1> DEFINE name == job[c].evidence
           body == [finding |-> job[c].finding, source |-> job[c].source,
                    review |-> job[c].review, number |-> job[c].number]
           new == IF cut THEN Torn ELSE body
           row == <<job[c].number, job[c].finding>>
<1>1. /\ Save(c, cut, "commits", name, body, memory[c], Idle)
      /\ db' = db /\ job[c].at = "commit" /\ "commit" \in CommitSteps
  BY DEF SaveCommit, CommitSteps
<1>2. body.finding = job[c].finding /\ body.number = job[c].number
  OBVIOUS
<1> HIDE DEF body
<1>3. Whole /\ job[c].finding \notin OnRecord /\ job[c].finding \in Approved
  BY <1>1, JobsAreApproved DEF LedgerInv
<1>4. /\ files'.commits = Written(files.commits, name, new)
      /\ files'.reviews = files.reviews
      /\ Writable(files.commits, name, body)
      /\ job' = [job EXCEPT ![c] = Idle]
  BY <1>1 DEF Save, ChainInv, Kinds
<1>5. name \notin DOMAIN files.commits
  BY <1>2, <1>3, <1>4 DEF Writable, Whole, Searchable, OnRecord, Readable
<1> HIDE DEF new, name
<1>6. /\ DOMAIN files'.commits = DOMAIN files.commits \union {name}
      /\ files'.commits[name] = new
      /\ \A id \in DOMAIN files.commits : files'.commits[id] = files.commits[id]
  BY <1>4, <1>5 DEF Written
<1>7. Rows' = Rows /\ Approved' = Approved
  BY <1>1, <1>4 DEF Rows, Approved, Readable
<1>8. LedgerInv'
  <2>1. Idle.at \notin CommitSteps
    BY DEF Idle, CommitSteps
  <2> QED  BY <1>1, <1>4, <2>1, OutsideKeepsLedger
<1>9. CASE new = Torn
  <2>1. Readable(files'.commits) = Readable(files.commits) /\ ~Searchable(files'.commits)
    BY <1>5, <1>6, <1>9 DEF Readable, Searchable
  <2>2. Entries' = Entries
    BY <2>1, <1>6 DEF Entries, Commits, Readable
  <2> QED  BY <1>3, <1>7, <1>8, <2>1, <2>2 DEF Ledger!Damage, Whole, Approved, Rows, Entries
<1>10. CASE new # Torn
  <2>1. new = body
    BY <1>10 DEF new
  <2>2. Searchable(files'.commits)
    BY <1>3, <1>6, <1>10 DEF Whole, Searchable
  <2>3. Readable(files'.commits) = Readable(files.commits) \union {name}
    BY <1>6, <1>10 DEF Readable
  <2>4. Commits' = Commits \union {body}
    BY <1>6, <2>1, <2>3 DEF Commits, Readable
  <2>5. Entries' = Entries \union {row}
    BY <1>2, <2>4 DEF Entries
  <2>6. \A entry \in Entries : entry[2] # row[2]
    BY <1>3 DEF Entries, Commits, OnRecord
  <2>7. row \in Rows /\ row[2] \in Approved
    BY <1>1, <1>3 DEF BackInv, Knows, BackedIn, Rows
  <2> HIDE DEF row
  <2>8. PICK pair \in Rows : pair = row
    BY <2>7
  <2>9. Ledger!Commit(pair)
    BY <1>3, <1>7, <2>2, <2>5, <2>6, <2>7, <2>8
       DEF Ledger!Commit, Whole, Approved, Rows, Entries
  <2> QED  BY <1>8, <2>9
<1> QED  BY <1>9, <1>10

\* Filing a review that approves approves its finding.
LEMMA ReviewApproves ==
  ASSUME ReviewsAreWhole, OneClerk, ChainInv, LedgerInv, NEW c \in Clerks,
         NEW cut \in BOOLEAN, NEW object \in memory[c].findings, NEW r, NEW decision,
         Review(c, object, r, decision, cut)
  PROVE  /\ LedgerInv'
         /\ UNCHANGED Ledger!vars \/ \E finding \in Findings : Ledger!Approve(finding)
<1> DEFINE id == Cardinality(DOMAIN files.reviews) + 1
           body == [finding |-> object.finding, reviewer |-> r, decision |-> decision]
           new == IF cut THEN Torn ELSE body
<1>1. PICK holds : Save(c, cut, "reviews", id, body, holds, Idle)
  BY DEF Review
<1>2. /\ files'.reviews = Written(files.reviews, id, new)
      /\ files'.commits = files.commits
      /\ id \in DOMAIN files.reviews => files.reviews[id] = new
      /\ job' = [job EXCEPT ![c] = Idle] /\ db' = db
  BY <1>1 DEF Review, Save, Writable, ChainInv, Kinds
<1>3. LedgerInv'
  <2>1. Idle.at \notin CommitSteps
    BY DEF Idle, CommitSteps
  <2> QED  BY <1>2, <2>1, OutsideKeepsLedger
<1>4. object.finding \in Findings
  BY DEF ChainInv, Held
<1>5. body # Torn /\ body.finding = object.finding /\ body.decision = decision
  BY DEF ReviewsAreWhole
<1> HIDE DEF body, id
<1>6. /\ DOMAIN files'.reviews = DOMAIN files.reviews \union {id}
      /\ \A n \in DOMAIN files.reviews : files'.reviews[n] = files.reviews[n]
      /\ files'.reviews[id] = new
  BY <1>2 DEF Written
<1>7. /\ Rows' = Rows /\ Entries' = Entries
      /\ Searchable(files.commits)' = Searchable(files.commits)
  BY <1>2 DEF Rows, Entries, Commits, Readable, Searchable
<1>8. CASE ~cut /\ decision = "Approve"
  <2>1. Readable(files'.reviews) = Readable(files.reviews) \union {id}
    BY <1>5, <1>6, <1>8 DEF Readable
  <2>2. Approved' = Approved \union {object.finding}
    BY <1>4, <1>5, <1>6, <1>8, <2>1 DEF Approved, Readable
  <2>3. Ledger!Approve(object.finding)
    BY <1>7, <2>2 DEF Ledger!Approve, Approved, Rows, Entries
  <2> QED  BY <1>3, <1>4, <2>3
<1>9. CASE cut \/ decision # "Approve"
  <2>1. \A n \in Readable(files'.reviews) :
          files'.reviews[n].decision = "Approve" => n \in Readable(files.reviews)
    BY <1>5, <1>6, <1>9 DEF Readable
  <2>2. \A n \in Readable(files.reviews) : n \in Readable(files'.reviews)
    BY <1>6 DEF Readable
  <2>3. Approved' = Approved
    BY <1>6, <2>1, <2>2 DEF Approved, Readable
  <2>4. UNCHANGED Ledger!vars
    BY <1>7, <2>3 DEF Ledger!vars, Approved, Rows, Entries
  <2> QED  BY <1>3, <2>4
<1> QED  BY <1>8, <1>9

\* The ledger says nothing of sources, findings and receipts.
LEMMA FilingStutters ==
  ASSUME OneClerk, ChainInv, LedgerInv, NEW c \in Clerks, NEW cut \in BOOLEAN,
         \/ \E s \in Sources : \/ AdmitSource(c, s, cut)
                               \/ RejectSource(c, s, cut)
                               \/ \E f \in Findings : CreateFinding(c, s, f, cut)
         \/ SaveReceipt(c, cut)
  PROVE  LedgerInv' /\ UNCHANGED Ledger!vars
<1> DEFINE receipt(s, f) == [at |-> "receipt", finding |-> f, source |-> s]
<1>1. PICK kind \in Kinds \ {"commits", "reviews"} : \E name, body, holds, next :
        /\ next.at \notin CommitSteps
        /\ Save(c, cut, kind, name, body, holds, next)
        /\ db' = db
  <2>1. ASSUME NEW s \in Sources, AdmitSource(c, s, cut) \/ RejectSource(c, s, cut)
        PROVE  \E body, holds : Save(c, cut, "sources", s, body, holds, Idle) /\ db' = db
    BY <2>1 DEF AdmitSource, RejectSource
  <2>2. ASSUME NEW s \in Sources, NEW f \in Findings, CreateFinding(c, s, f, cut)
        PROVE  Save(c, cut, "findings", f, s, memory[c], receipt(s, f)) /\ db' = db
    BY <2>2 DEF CreateFinding
  <2>3. ASSUME SaveReceipt(c, cut)
        PROVE  \E name, body, holds :
                 Save(c, cut, "receipts", name, body, holds, Idle) /\ db' = db
    BY <2>3 DEF SaveReceipt
  <2>4. Idle.at \notin CommitSteps /\ \A s, f : receipt(s, f).at \notin CommitSteps
    BY DEF Idle, CommitSteps
  <2> HIDE DEF receipt
  <2> QED  BY <2>1, <2>2, <2>3, <2>4 DEF Kinds
<1>2. PICK name, body, holds, next :
        /\ next.at \notin CommitSteps
        /\ Save(c, cut, kind, name, body, holds, next)
        /\ db' = db
  BY <1>1
<1>3. files'.commits = files.commits /\ files'.reviews = files.reviews
  BY <1>2 DEF Save, ChainInv, Kinds
<1> DEFINE then == IF cut THEN Idle ELSE next
<1>4. job' = [job EXCEPT ![c] = then] /\ then.at \notin CommitSteps
  BY <1>2 DEF Save, Idle, CommitSteps
<1> HIDE DEF then
<1> QED  BY <1>2, <1>3, <1>4, OutsideKeepsLedger, Stutters

\* A commit is begun of what is not on record.
LEMMA BeginCommitMoves ==
  ASSUME OneClerk, ChainInv, LedgerInv, NEW c \in Clerks, NEW object, NEW review,
         BeginCommit(c, object, review)
  PROVE  LedgerInv' /\ UNCHANGED Ledger!vars
<1> DEFINE next == [at |-> "find", finding |-> object.finding,
                    source |-> object.source, review |-> review,
                    evidence |-> begun + 1, row |-> 0, number |-> 0]
<1>1. db' = db /\ files' = files /\ \A d \in Clerks : job'[d] = next
  BY DEF BeginCommit, Paired, Begin, OneClerk, ChainInv
<1>2. next.at # "evidence" /\ next.finding = object.finding
  OBVIOUS
<1> HIDE DEF next
<1>3. Whole' /\ object.finding \notin OnRecord'
  BY <1>1 DEF BeginCommit, Paired, Begin, Whole, Committed, OnRecord, Searchable, Readable
<1>4. LedgerInv'
  BY <1>1, <1>2, <1>3 DEF LedgerInv, Drawn, Unused
<1> QED  BY <1>1, <1>4, Stutters

LEMMA CommitStepRefines ==
  ASSUME OneClerk, ChainInv, BackInv, LedgerInv, NEW c \in Clerks, CommitStep(c)
  PROVE  LedgerInv' /\ [Ledger!Next]_(Ledger!vars)
<1>1. CASE SaveCommit(c, FALSE)
  BY <1>1, SaveCommitCommits DEF Ledger!Next, Rows
<1>2. CASE AddEvidence(c)
  BY <1>2, AddEvidenceRegisters DEF Ledger!Next
<1>3. CASE FindSource(c) \/ FindAgain(c) \/ CreateSource(c) \/ AuditSource(c)
             \/ AuditEvidence(c) \/ RecordChecksum(c) \/ DrawNumber(c) \/ SubjectUnknown(c)
  BY <1>3, FindingMoves, CreateSourceMoves, AuditMoves, RecordChecksumMoves,
     DrawNumberMoves, SubjectUnknownMoves
<1> QED  BY <1>1, <1>2, <1>3 DEF CommitStep

LEMMA StepRefines ==
  ASSUME ReviewsAreWhole, OneClerk, ChainInv, BackInv, LedgerInv, [Next]_vars
  PROVE  LedgerInv' /\ [Ledger!Next]_(Ledger!vars)
<1>1. ASSUME NEW c \in Clerks, NEW s \in Sources, NEW cut \in Cuts,
             \/ AdmitSource(c, s, cut)
             \/ RejectSource(c, s, cut)
             \/ \E f \in Findings : CreateFinding(c, s, f, cut)
      PROVE  LedgerInv' /\ UNCHANGED Ledger!vars
  BY <1>1, CutsAreBoolean, FilingStutters
<1>2. ASSUME NEW c \in Clerks, NEW cut \in Cuts, SaveReceipt(c, cut)
      PROVE  LedgerInv' /\ UNCHANGED Ledger!vars
  BY <1>2, CutsAreBoolean, FilingStutters
<1>3. ASSUME NEW c \in Clerks, NEW cut \in Cuts, SaveCommit(c, cut)
      PROVE  LedgerInv' /\ Ledger!Next
  BY <1>3, CutsAreBoolean, SaveCommitCommits DEF Ledger!Next, Rows
<1>4. ASSUME NEW c \in Clerks, NEW object \in memory[c].findings,
             NEW r \in Reviewers, NEW decision \in Decisions, NEW cut \in Cuts,
             Review(c, object, r, decision, cut)
      PROVE  LedgerInv' /\ (UNCHANGED Ledger!vars \/ Ledger!Next)
  BY <1>4, CutsAreBoolean, ReviewApproves DEF Ledger!Next
<1>5. ASSUME NEW c \in Clerks, NEW object \in memory[c].findings,
             NEW review \in memory[c].reviews, BeginCommit(c, object, review)
      PROVE  LedgerInv' /\ UNCHANGED Ledger!vars
  BY <1>5, BeginCommitMoves
<1>6. ASSUME NEW c \in Clerks, Raise(c) \/ Die(c)
      PROVE  LedgerInv' /\ UNCHANGED Ledger!vars
  <2>1. Idle.at \notin CommitSteps
    BY DEF Idle, CommitSteps
  <2>2. db' = db /\ files' = files /\ job' = [job EXCEPT ![c] = Idle]
    BY <1>6 DEF Raise, Die
  <2> QED  BY <2>1, <2>2, OutsideKeepsLedger, Stutters
<1>7. ASSUME UNCHANGED vars \/ \E r \in Reviewers : Lapse(r)
      PROVE  LedgerInv' /\ UNCHANGED Ledger!vars
  <2>1. db' = db /\ files' = files /\ job' = job
    BY <1>7 DEF vars, Lapse
  <2>2. LedgerInv'
    BY <2>1 DEF LedgerInv, Whole, OnRecord, Readable, Searchable
  <2> QED  BY <2>1, <2>2, Stutters
<1> QED  BY <1>1, <1>2, <1>3, <1>4, <1>5, <1>6, <1>7, CommitStepRefines DEF Next

LEMMA InitRefines == Init => LedgerInv /\ Ledger!Init
<1> SUFFICES ASSUME Init PROVE LedgerInv /\ Ledger!Init
  OBVIOUS
<1>1. /\ DOMAIN db.evidence = {} /\ DOMAIN files.reviews = {} /\ DOMAIN files.commits = {}
      /\ \A c \in Clerks : job[c].at = "idle"
  BY DEF Init, EmptyStore, Idle
<1>2. LedgerInv
  BY <1>1 DEF LedgerInv, Drawn, Unused, CommitSteps
<1>3. Approved = {} /\ Rows = {} /\ Entries = {} /\ Searchable(files.commits)
  BY <1>1 DEF Approved, Rows, Entries, Commits, Readable, Searchable
<1> QED  BY <1>2, <1>3 DEF Ledger!Init, Approved, Rows, Entries

\* One clerk, dying and retrying as often as it may, keeps the ledger the
\* lifecycle promises: every finding is committed at most once, after an
\* approval and on a registry row that was there (engine.py commit_evidence).
THEOREM LedgerImplemented ==
  ASSUME OneClerk, ReviewsAreWhole
  PROVE  Spec => ImplementsLedger
<1>1. Init => ChainInv /\ BackInv /\ LedgerInv /\ Ledger!Init
  BY InitChain, InitBacked, InitRefines
<1>2. ChainInv /\ BackInv /\ LedgerInv /\ [Next]_vars
        => (ChainInv /\ BackInv /\ LedgerInv)' /\ [Ledger!Next]_(Ledger!vars)
  BY StepKeepsChain, StepKeepsBacked, StepRefines
<1> QED  BY <1>1, <1>2, PTL DEF Spec, ImplementsLedger, Ledger!Spec

LEMMA LedgerStepsCommitOnce ==
  ASSUME Ledger!CommittedOnce, [Ledger!Next]_(Ledger!vars)
  PROVE  Ledger!CommittedOnce'
<1>1. /\ \A one, other \in Entries : one[2] = other[2] => one = other
      /\ \/ Entries' = Entries
         \/ \E row : /\ Entries' = Entries \union {row}
                     /\ \A entry \in Entries : entry[2] # row[2]
  BY DEF Ledger!CommittedOnce, Ledger!Next, Ledger!vars, Ledger!Approve, Ledger!Register,
         Ledger!Commit, Ledger!Damage, Entries
<1>2. \A one, other \in Entries' : one[2] = other[2] => one = other
  BY <1>1
<1> QED  BY <1>2 DEF Ledger!CommittedOnce, Entries

LEMMA CommitsBackTheLedger ==
  ASSUME ChainInv, BackInv
  PROVE  Ledger!CommittedIsBacked
<1> SUFFICES ASSUME NEW id \in Readable(files.commits)
             PROVE  LET commit == files.commits[id]
                    IN commit.finding \in Approved /\ <<commit.number, commit.finding>> \in Rows
  BY DEF Ledger!CommittedIsBacked, Commits, Approved, Rows
<1>1. Linked(files, files.commits[id]) /\ BackedIn(db, files.commits[id])
  BY DEF ChainInv, BackInv
<1>2. \E row \in DOMAIN db.evidence :
        /\ db.evidence[row].number = files.commits[id].number
        /\ db.evidence[row].assertion = files.commits[id].finding
        /\ db.evidence[row] \in EvidenceRow
  <2>1. \A row \in DOMAIN db.evidence : db.evidence[row] \in EvidenceRow
    <3>1. db.evidence \in Seq(EvidenceRow)
      BY DEF BackInv, Typed
    <3> QED  BY <3>1
  <2> QED  BY <1>1, <2>1 DEF BackedIn
<1> QED  BY <1>1, <1>2 DEF Linked, Approved, Rows, EvidenceRow

\* However many clerks there are, every commit was approved and is in the
\* registry: the ledger's promise that needs no single clerk.
THEOREM LedgerBacked ==
  ASSUME ReviewsAreWhole
  PROVE  Spec => []Ledger!CommittedIsBacked
<1>1. Init => ChainInv /\ BackInv
  BY InitChain, InitBacked
<1>2. ChainInv /\ BackInv /\ [Next]_vars => (ChainInv /\ BackInv)'
  BY StepKeepsChain, StepKeepsBacked
<1>3. ChainInv /\ BackInv => Ledger!CommittedIsBacked
  BY CommitsBackTheLedger
<1> QED  BY <1>1, <1>2, <1>3, PTL DEF Spec

\* What the ledger promises holds of the lifecycle with one clerk: no finding is
\* committed twice, and every commit was approved and is in the registry.
THEOREM LedgerKept ==
  ASSUME OneClerk, ReviewsAreWhole
  PROVE  Spec => [](Ledger!CommittedOnce /\ Ledger!CommittedIsBacked)
<1>1. Init => ChainInv /\ BackInv /\ LedgerInv /\ Ledger!Init
  BY InitChain, InitBacked, InitRefines
<1>2. Ledger!Init => Ledger!CommittedOnce
  BY DEF Ledger!Init, Ledger!CommittedOnce
<1>3. ChainInv /\ BackInv /\ LedgerInv /\ [Next]_vars
        => (ChainInv /\ BackInv /\ LedgerInv)' /\ [Ledger!Next]_(Ledger!vars)
  BY StepKeepsChain, StepKeepsBacked, StepRefines
<1>4. Ledger!CommittedOnce /\ [Ledger!Next]_(Ledger!vars) => Ledger!CommittedOnce'
  BY LedgerStepsCommitOnce
<1>5. ChainInv /\ BackInv => Ledger!CommittedIsBacked
  BY CommitsBackTheLedger
<1> QED  BY <1>1, <1>2, <1>3, <1>4, <1>5, PTL DEF Spec

-----------------------------------------------------------------------------
(* What faults leave behind.                                               *)

\* A file that was written whole can be read.
SourcesAreWhole == Torn \notin Sources \union {"Admitted", "Rejected"}

CommitsAreWhole ==
  \A finding, source, review, number :
    [finding |-> finding, source |-> source, review |-> review, number |-> number] # Torn

\* The steps of a commit before it draws its number, and those after.
Early == {"find", "source", "source_audit", "checksum", "find_again", "number"}
Late == {"evidence", "evidence_audit", "commit"}

Numbered(D) ==
  /\ D.last["evidence"] \in Nat
  /\ \A row \in DOMAIN D.evidence : D.evidence[row].number \in 1..D.last["evidence"]
  /\ \A row, other \in DOMAIN D.evidence :
       D.evidence[row].number = D.evidence[other].number => row = other

Draws(D, j) ==
  /\ j.at \in Early => j.number = 0
  /\ j.at \in Late => j.number \in 1..D.last["evidence"]
  /\ j.at = "evidence" => \A row \in DOMAIN D.evidence : D.evidence[row].number # j.number

\* A number is one row's or one commit's under way.
TidyInv ==
  /\ Numbered(db)
  /\ \A c \in Clerks : Draws(db, job[c])
  /\ \A c, d \in Clerks :
       job[c].at \in Late /\ job[d].at \in Late /\ c # d => job[c].number # job[d].number

LEMMA TidyFrame ==
  ASSUME ChainInv, TidyInv, NEW c \in Clerks, NEW next, job' = [job EXCEPT ![c] = next],
         Numbered(db'), Draws(db', next),
         \A d \in Clerks \ {c} : Draws(db', job[d]),
         \A d \in Clerks \ {c} :
           next.at \in Late /\ job[d].at \in Late => next.number # job[d].number
  PROVE  TidyInv'
<1>1. job'[c] = next /\ \A d \in Clerks \ {c} : job'[d] = job[d]
  BY DEF ChainInv
<1>2. \A d \in Clerks : Draws(db', job'[d])
  BY <1>1
<1>3. \A a, d \in Clerks :
        job'[a].at \in Late /\ job'[d].at \in Late /\ a # d => job'[a].number # job'[d].number
  <2>1. SUFFICES ASSUME NEW a \in Clerks, NEW d \in Clerks, a # d,
                        job'[a].at \in Late, job'[d].at \in Late
                 PROVE  job'[a].number # job'[d].number
    OBVIOUS
  <2>2. CASE a = c
    BY <1>1, <2>1, <2>2
  <2>3. CASE d = c
    BY <1>1, <2>1, <2>3
  <2>4. CASE a # c /\ d # c
    BY <1>1, <2>1, <2>4 DEF TidyInv
  <2> QED  BY <2>2, <2>3, <2>4
<1> QED  BY <1>2, <1>3 DEF TidyInv

\* A step that draws no number and inserts no evidence.
LEMMA TidyAside ==
  ASSUME ChainInv, TidyInv, NEW c \in Clerks, NEW next, job' = [job EXCEPT ![c] = next],
         db'.evidence = db.evidence, db'.last = db.last,
         next.at \in Early => next.number = 0,
         next.at \in Late => job[c].at \in Late /\ next.number = job[c].number,
         next.at # "evidence"
  PROVE  TidyInv'
<1>1. Numbered(db')
  BY DEF TidyInv, Numbered
<1>2. \A d \in Clerks : Draws(db', job[d])
  BY DEF TidyInv, Draws
<1>3. Draws(db', next)
  BY <1>2 DEF Draws, Early, Late
<1>4. \A d \in Clerks \ {c} :
        next.at \in Late /\ job[d].at \in Late => next.number # job[d].number
  BY DEF TidyInv
<1> QED  BY <1>1, <1>2, <1>3, <1>4, TidyFrame

LEMMA DrawNumberTidies ==
  ASSUME ChainInv, BackInv, TidyInv, NEW c \in Clerks, DrawNumber(c)
  PROVE  TidyInv'
<1> DEFINE next == [job[c] EXCEPT !.at = "evidence", !.number = Issued(db, "evidence")]
           store == Issue(db, "evidence")
<1>1. Step(c, "number", next, store) /\ job[c].at = "number"
  BY DEF DrawNumber, Step
<1>2. PICK last \in Nat : db.last["evidence"] = last
  BY DEF BackInv, Typed
<1>3. next.at = "evidence" /\ next.number = last + 1
  BY <1>1, <1>2, JobsOfCommits DEF CommitSteps, JobFields, Issued
<1>4. store.evidence = db.evidence /\ store.last["evidence"] = last + 1
  BY <1>2 DEF BackInv, Typed, Issue, EntityTypes
<1>5. db' = store /\ job' = [job EXCEPT ![c] = next]
  BY <1>1 DEF Step
<1> HIDE DEF next, store
<1>6. \A n \in 1..last : n \in 1..(last + 1) /\ n # last + 1
  OBVIOUS
<1>7. \A row \in DOMAIN db.evidence : db.evidence[row].number \in 1..last
  BY <1>2 DEF TidyInv, Numbered
<1>8. Numbered(db')
  BY <1>2, <1>4, <1>5, <1>6, <1>7 DEF TidyInv, Numbered
<1>9. Draws(db', next)
  BY <1>3, <1>4, <1>5, <1>6, <1>7 DEF Draws, Early, Late
<1>10. \A d \in Clerks : job[d].at \in Late => job[d].number \in 1..last
  BY <1>2 DEF TidyInv, Draws
<1>11. \A d \in Clerks : Draws(db', job[d])
  BY <1>4, <1>5, <1>6, <1>10 DEF TidyInv, Draws
<1>12. \A d \in Clerks \ {c} : job[d].at \in Late => next.number # job[d].number
  BY <1>3, <1>6, <1>10
<1> QED  BY <1>5, <1>8, <1>9, <1>11, <1>12, TidyFrame

LEMMA AddEvidenceTidies ==
  ASSUME ChainInv, BackInv, TidyInv, NEW c \in Clerks, AddEvidence(c)
  PROVE  TidyInv'
<1> DEFINE next == [job[c] EXCEPT !.at = "evidence_audit"]
           new == [number |-> job[c].number, source |-> job[c].row,
                   assertion |-> job[c].finding, hash |-> db.sources[job[c].row].hash]
           store == InsertEvidence(db, job[c].number, job[c].row, job[c].finding)
<1>1. Step(c, "evidence", next, store) /\ job[c].at = "evidence"
  BY DEF AddEvidence, Step
<1>2. next.at = "evidence_audit" /\ next.number = job[c].number
  BY <1>1, JobsOfCommits DEF CommitSteps, JobFields
<1>3. store.evidence = Append(db.evidence, new) /\ store.last = db.last
  BY DEF BackInv, Typed, InsertEvidence
<1>4. db' = store /\ job' = [job EXCEPT ![c] = next]
  BY <1>1 DEF Step
<1>5. new.number = job[c].number
  OBVIOUS
<1> HIDE DEF next, store, new
<1>6. db.evidence \in Seq(EvidenceRow)
  BY DEF BackInv, Typed
<1>7. PICK end : /\ end \notin DOMAIN db.evidence
                 /\ DOMAIN db'.evidence = DOMAIN db.evidence \union {end}
                 /\ db'.evidence[end] = new
                 /\ \A row \in DOMAIN db.evidence : db'.evidence[row] = db.evidence[row]
  <2>1. /\ Len(db.evidence) + 1 \notin DOMAIN db.evidence
        /\ DOMAIN Append(db.evidence, new) = DOMAIN db.evidence \union {Len(db.evidence) + 1}
        /\ Append(db.evidence, new)[Len(db.evidence) + 1] = new
        /\ \A row \in DOMAIN db.evidence : Append(db.evidence, new)[row] = db.evidence[row]
    BY <1>6
  <2> QED  BY <1>3, <1>4, <2>1
<1>8. db'.last = db.last
  BY <1>3, <1>4
<1>9. /\ job[c].number \in 1..db.last["evidence"]
      /\ \A row \in DOMAIN db.evidence : db.evidence[row].number # job[c].number
  BY <1>1 DEF TidyInv, Draws, Late
<1>10. Numbered(db')
  BY <1>5, <1>7, <1>8, <1>9 DEF TidyInv, Numbered
<1>11. Draws(db', next)
  BY <1>2, <1>8, <1>9 DEF Draws, Early, Late
<1>12. \A d \in Clerks \ {c} : job[d].at \in Late => job[c].number # job[d].number
  BY <1>1 DEF TidyInv, Late
<1>13. ASSUME NEW d \in Clerks \ {c} PROVE Draws(db', job[d])
  <2>1. Draws(db, job[d])
    BY DEF TidyInv
  <2>2. job[d].at = "evidence" => job[d].number # new.number
    BY <1>5, <1>12 DEF Late
  <2> QED  BY <1>7, <1>8, <2>1, <2>2 DEF Draws
<1>14. job' = [job EXCEPT ![c] = next]
  BY <1>4
<1>15. \A d \in Clerks \ {c} : Draws(db', job[d])
  BY <1>13
<1>16. \A d \in Clerks \ {c} :
         next.at \in Late /\ job[d].at \in Late => next.number # job[d].number
  BY <1>2, <1>12
<1> QED  BY <1>10, <1>11, <1>14, <1>15, <1>16, TidyFrame

-----------------------------------------------------------------------------

\* The number of a row is carried by a commit under way, or named by one on
\* file.
Carries(j, n) == j.at \in CommitSteps /\ j.number = n

Named(F, n) == \E id \in Readable(F.commits) : F.commits[id].number = n

IsHashing(j, row) == j.at \in Hashing /\ j.row = row

LEMMA OrphansAre ==
  Orphans = {row \in DOMAIN db.evidence :
               /\ \A c \in Clerks : ~Carries(job[c], db.evidence[row].number)
               /\ ~Named(files, db.evidence[row].number)}
<1>1. \A n : n \in Pending <=> \E c \in Clerks : Carries(job[c], n)
  BY DEF Pending, Carries
<1> QED  BY <1>1 DEF Orphans, Named, Commits

LEMMA OrphansAreThen ==
  Orphans' = {row \in DOMAIN db'.evidence :
                /\ \A c \in Clerks : ~Carries(job'[c], db'.evidence[row].number)
                /\ ~Named(files', db'.evidence[row].number)}
<1>1. \A n : n \in Pending' <=> \E c \in Clerks : Carries(job'[c], n)
  BY DEF Pending, Carries
<1> QED  BY <1>1 DEF Orphans, Named, Commits

LEMMA UnhashedAre ==
  Unhashed = {row \in DOMAIN db.sources :
                /\ db.sources[row].hash = Null
                /\ \A c \in Clerks : ~IsHashing(job[c], row)}
BY DEF Unhashed, IsHashing, Hashing

LEMMA UnhashedAreThen ==
  Unhashed' = {row \in DOMAIN db'.sources :
                 /\ db'.sources[row].hash = Null
                 /\ \A c \in Clerks : ~IsHashing(job'[c], row)}
BY DEF Unhashed, IsHashing, Hashing

\* A row orphaned by a step is the one its clerk carried.
LEMMA OrphansFollow ==
  ASSUME ChainInv, NEW c \in Clerks, NEW next, job' = [job EXCEPT ![c] = next],
         \A n : Named(files, n) => Named(files', n),
         \A row \in DOMAIN db'.evidence :
           \/ row \in DOMAIN db.evidence /\ db'.evidence[row] = db.evidence[row]
           \/ Carries(next, db'.evidence[row].number),
         NEW row \in Orphans'
  PROVE  \/ row \in Orphans
         \/ /\ row \in DOMAIN db.evidence
            /\ Carries(job[c], db.evidence[row].number)
            /\ ~Carries(next, db.evidence[row].number)
            /\ ~Named(files', db.evidence[row].number)
<1>1. job'[c] = next /\ \A d \in Clerks \ {c} : job'[d] = job[d]
  BY DEF ChainInv
<1>2. /\ row \in DOMAIN db'.evidence
      /\ \A d \in Clerks : ~Carries(job'[d], db'.evidence[row].number)
      /\ ~Named(files', db'.evidence[row].number)
  BY OrphansAreThen
<1>3. /\ row \in DOMAIN db.evidence /\ db'.evidence[row] = db.evidence[row]
      /\ ~Carries(next, db'.evidence[row].number)
  BY <1>1, <1>2
<1>4. /\ ~Named(files, db.evidence[row].number)
      /\ \A d \in Clerks \ {c} : ~Carries(job[d], db.evidence[row].number)
  BY <1>1, <1>2, <1>3
<1>5. CASE Carries(job[c], db.evidence[row].number)
  BY <1>2, <1>3, <1>5
<1>6. CASE ~Carries(job[c], db.evidence[row].number)
  BY <1>3, <1>4, <1>6, OrphansAre
<1> QED  BY <1>5, <1>6

\* A source left without its hash by a step is the one its clerk was to hash.
LEMMA UnhashedFollow ==
  ASSUME ChainInv, NEW c \in Clerks, NEW next, job' = [job EXCEPT ![c] = next],
         \A row \in DOMAIN db'.sources : db'.sources[row].hash = Null =>
           \/ row \in DOMAIN db.sources /\ db.sources[row].hash = Null
           \/ IsHashing(next, row),
         NEW row \in Unhashed'
  PROVE  \/ row \in Unhashed
         \/ IsHashing(job[c], row) /\ ~IsHashing(next, row) /\ db'.sources[row].hash = Null
<1>1. job'[c] = next /\ \A d \in Clerks \ {c} : job'[d] = job[d]
  BY DEF ChainInv
<1>2. /\ row \in DOMAIN db'.sources /\ db'.sources[row].hash = Null
      /\ \A d \in Clerks : ~IsHashing(job'[d], row)
  BY UnhashedAreThen
<1>3. /\ row \in DOMAIN db.sources /\ db.sources[row].hash = Null
      /\ ~IsHashing(next, row)
      /\ \A d \in Clerks \ {c} : ~IsHashing(job[d], row)
  BY <1>1, <1>2
<1>4. CASE IsHashing(job[c], row)
  BY <1>2, <1>3, <1>4
<1>5. CASE ~IsHashing(job[c], row)
  BY <1>3, <1>5, UnhashedAre
<1> QED  BY <1>4, <1>5

\* What is named stays named.
LEMMA NamedStays ==
  ASSUME Grown(files, files')
  PROVE  \A n : Named(files, n) => Named(files', n)
<1>1. \A id \in Readable(files.commits) :
        id \in Readable(files'.commits) /\ files'.commits[id] = files.commits[id]
  BY DEF Grown, Kinds, OnFile, Readable
<1> QED  BY <1>1 DEF Named

-----------------------------------------------------------------------------

NothingLeft == Orphans' \subseteq Orphans /\ Unhashed' \subseteq Unhashed

\* What a clerk carries is a row's number after the row is inserted only.
LEMMA CarriesLate ==
  ASSUME TidyInv, NEW c \in Clerks, NEW row \in DOMAIN db.evidence,
         Carries(job[c], db.evidence[row].number)
  PROVE  job[c].at \in {"evidence_audit", "commit"}
<1>1. db.evidence[row].number # 0
  BY DEF TidyInv, Numbered
<1>2. job[c].at \notin Early
  BY <1>1 DEF TidyInv, Draws, Carries
<1>3. job[c].at # "evidence"
  BY DEF TidyInv, Draws, Carries
<1> QED  BY <1>2, <1>3 DEF Carries, CommitSteps, Early

\* A step that leaves the rows, and the job what it carries and hashes.
LEMMA NothingIsLeft ==
  ASSUME ChainInv, TidyInv, NEW c \in Clerks, NEW next, job' = [job EXCEPT ![c] = next],
         Grown(files, files'),
         \A row \in DOMAIN db'.evidence :
           \/ row \in DOMAIN db.evidence /\ db'.evidence[row] = db.evidence[row]
           \/ Carries(next, db'.evidence[row].number),
         \A row \in DOMAIN db'.sources : db'.sources[row].hash = Null =>
           \/ row \in DOMAIN db.sources /\ db.sources[row].hash = Null
           \/ IsHashing(next, row),
         job[c].at \in {"evidence_audit", "commit"} =>
           Carries(next, job[c].number) \/ Named(files', job[c].number),
         job[c].at \in Hashing =>
           IsHashing(next, job[c].row) \/ db'.sources[job[c].row].hash # Null
  PROVE  NothingLeft
<1>1. \A n : Named(files, n) => Named(files', n)
  BY NamedStays
<1>2. ASSUME NEW row \in Orphans' PROVE row \in Orphans
  <2>1. \/ row \in Orphans
        \/ /\ row \in DOMAIN db.evidence
           /\ Carries(job[c], db.evidence[row].number)
           /\ ~Carries(next, db.evidence[row].number)
           /\ ~Named(files', db.evidence[row].number)
    BY <1>1, <1>2, OrphansFollow
  <2>2. CASE row \notin Orphans
    <3>1. /\ row \in DOMAIN db.evidence
          /\ Carries(job[c], db.evidence[row].number)
          /\ ~Carries(next, db.evidence[row].number)
          /\ ~Named(files', db.evidence[row].number)
      BY <2>1, <2>2
    <3>2. job[c].at \in {"evidence_audit", "commit"}
      BY <3>1, CarriesLate
    <3>3. db.evidence[row].number = job[c].number
      BY <3>1 DEF Carries
    <3>4. Carries(next, job[c].number) \/ Named(files', job[c].number)
      BY <3>2
    <3> QED  BY <3>1, <3>3, <3>4
  <2> QED  BY <2>2
<1>3. ASSUME NEW row \in Unhashed' PROVE row \in Unhashed
  <2>1. \/ row \in Unhashed
        \/ IsHashing(job[c], row) /\ ~IsHashing(next, row) /\ db'.sources[row].hash = Null
    BY <1>3, UnhashedFollow
  <2> QED  BY <2>1 DEF IsHashing
<1> QED  BY <1>2, <1>3 DEF NothingLeft

-----------------------------------------------------------------------------

\* A set that does not grow, or gains an element at most.
LEMMA NoMore ==
  ASSUME NEW S, NEW T, IsFiniteSet(S), NEW n \in Nat, Cardinality(S) <= n, T \subseteq S
  PROVE  IsFiniteSet(T) /\ Cardinality(T) <= n
<1>1. IsFiniteSet(T) /\ Cardinality(T) <= Cardinality(S)
  BY FS_Subset
<1> QED  BY <1>1, FS_CardinalityType

LEMMA OneMore ==
  ASSUME NEW S, NEW T, NEW x, IsFiniteSet(S), NEW n \in Nat, Cardinality(S) <= n,
         T \subseteq S \union {x}
  PROVE  IsFiniteSet(T) /\ Cardinality(T) <= n + 1
<1>1. /\ IsFiniteSet(S \union {x})
      /\ \/ Cardinality(S \union {x}) = Cardinality(S)
         \/ Cardinality(S \union {x}) = Cardinality(S) + 1
  BY FS_AddElement
<1>2. Cardinality(S) \in Nat
  BY FS_CardinalityType
<1>3. Cardinality(S \union {x}) <= n + 1
  BY <1>1, <1>2
<1> QED  BY <1>1, <1>3, NoMore

\* What is left but for the torn commits.
Left == RowsLeft \union TornFiles(DOMAIN files \ {"commits"})

AllTorn == TornFiles(DOMAIN files)

LeavesLittle ==
  /\ faults \in Nat
  /\ IsFiniteSet(Left) /\ IsFiniteSet(AllTorn)
  /\ FaultsLeaveLittle

LEMMA LittleIs ==
  FaultsLeaveLittle <=> Cardinality(Left) <= faults /\ Cardinality(AllTorn) <= faults
BY DEF FaultsLeaveLittle, Left, AllTorn

LEMMA LittleIsThen ==
  FaultsLeaveLittle' <=> Cardinality(Left') <= faults' /\ Cardinality(AllTorn') <= faults'
BY DEF FaultsLeaveLittle, Left, AllTorn

LEMMA RowsFollow ==
  ASSUME NothingLeft
  PROVE  RowsLeft' \subseteq RowsLeft
<1>1. Orphans' \subseteq Orphans /\ Unhashed' \subseteq Unhashed
  BY DEF NothingLeft
<1> QED  BY <1>1 DEF RowsLeft

LEMMA LeftFollows ==
  ASSUME ChainInv, DOMAIN files' = Kinds, NEW T, RowsLeft' \subseteq RowsLeft \union T,
         \A kind \in Kinds \ {"commits"} : \A name :
           name \in DOMAIN files'[kind] \ Readable(files'[kind]) =>
             \/ name \in DOMAIN files[kind] \ Readable(files[kind])
             \/ <<kind, name>> \in T
  PROVE  Left' \subseteq Left \union T
<1>1. DOMAIN files = Kinds
  BY DEF ChainInv
<1>2. ASSUME NEW x \in TornFiles(DOMAIN files \ {"commits"})'
      PROVE  x \in TornFiles(DOMAIN files \ {"commits"}) \union T
  <2>1. PICK kind \in Kinds \ {"commits"} :
          x \in {kind} \X (DOMAIN files'[kind] \ Readable(files'[kind]))
    BY <1>2 DEF TornFiles
  <2>2. PICK name \in DOMAIN files'[kind] \ Readable(files'[kind]) : x = <<kind, name>>
    BY <2>1
  <2>3. CASE name \in DOMAIN files[kind] \ Readable(files[kind])
    <3>1. x \in {kind} \X (DOMAIN files[kind] \ Readable(files[kind]))
      BY <2>2, <2>3
    <3> QED  BY <1>1, <3>1 DEF TornFiles
  <2> QED  BY <2>2, <2>3
<1> QED  BY <1>2 DEF Left

LEMMA TornFollow ==
  ASSUME ChainInv, DOMAIN files' = Kinds, NEW T,
         \A kind \in Kinds : \A name :
           name \in DOMAIN files'[kind] \ Readable(files'[kind]) =>
             \/ name \in DOMAIN files[kind] \ Readable(files[kind])
             \/ <<kind, name>> \in T
  PROVE  AllTorn' \subseteq AllTorn \union T
<1>1. DOMAIN files = Kinds
  BY DEF ChainInv
<1>2. ASSUME NEW x \in AllTorn'
      PROVE  x \in AllTorn \union T
  <2>1. PICK kind \in Kinds : x \in {kind} \X (DOMAIN files'[kind] \ Readable(files'[kind]))
    BY <1>2 DEF TornFiles, AllTorn
  <2>2. PICK name \in DOMAIN files'[kind] \ Readable(files'[kind]) : x = <<kind, name>>
    BY <2>1
  <2>3. CASE name \in DOMAIN files[kind] \ Readable(files[kind])
    <3>1. x \in {kind} \X (DOMAIN files[kind] \ Readable(files[kind]))
      BY <2>2, <2>3
    <3> QED  BY <1>1, <3>1 DEF TornFiles, AllTorn
  <2> QED  BY <2>2, <2>3
<1> QED  BY <1>2

\* No file is torn by the step.
NothingTorn ==
  /\ DOMAIN files' = Kinds
  /\ \A kind \in Kinds : \A name :
       name \in DOMAIN files'[kind] \ Readable(files'[kind]) =>
         name \in DOMAIN files[kind] \ Readable(files[kind])

LEMMA NoMoreLeft ==
  ASSUME ChainInv, LeavesLittle, NothingLeft, NothingTorn, faults' = faults
  PROVE  LeavesLittle'
<1>1. Left' \subseteq Left
  BY RowsFollow, LeftFollows DEF NothingTorn
<1>2. AllTorn' \subseteq AllTorn
  BY TornFollow DEF NothingTorn
<1>3. /\ IsFiniteSet(Left') /\ Cardinality(Left') <= faults
      /\ IsFiniteSet(AllTorn') /\ Cardinality(AllTorn') <= faults
  BY <1>1, <1>2, NoMore, LittleIs DEF LeavesLittle
<1> QED  BY <1>3, LittleIsThen DEF LeavesLittle

\* One more fault, one more thing.
LEMMA OneMoreLeft ==
  ASSUME ChainInv, LeavesLittle, NEW x, NEW y, faults' = faults + 1,
         Left' \subseteq Left \union {x}, AllTorn' \subseteq AllTorn \union {y}
  PROVE  LeavesLittle'
<1>1. /\ IsFiniteSet(Left') /\ Cardinality(Left') <= faults + 1
      /\ IsFiniteSet(AllTorn') /\ Cardinality(AllTorn') <= faults + 1
  BY OneMore, LittleIs DEF LeavesLittle
<1> QED  BY <1>1, LittleIsThen DEF LeavesLittle

\* The files a step leaves alone, and the one it writes.
LEMMA FilesStay ==
  ASSUME ChainInv, files' = files
  PROVE  NothingTorn
BY DEF ChainInv, NothingTorn

LEMMA WholeFiles ==
  ASSUME ChainInv, NEW kind \in Kinds, NEW c, NEW cut \in BOOLEAN, ~cut, NEW name,
         NEW body, body # Torn, NEW holds, NEW next,
         Save(c, cut, kind, name, body, holds, next)
  PROVE  NothingTorn
<1>1. /\ DOMAIN files' = Kinds
      /\ \A other \in Kinds \ {kind} : files'[other] = files[other]
      /\ \A n \in DOMAIN files'[kind] :
           \/ n \in DOMAIN files[kind] /\ files'[kind][n] = files[kind][n]
           \/ files'[kind][n] = body
  BY SaveWrites DEF ChainInv
<1> QED  BY <1>1 DEF NothingTorn, Readable

-----------------------------------------------------------------------------

\* A fault leaves at most one row: the one its clerk carried, or the source it
\* was to hash.  It leaves none when its clerk was not committing.
LEMMA FaultLeavesOneRow ==
  ASSUME ChainInv, BackInv, TidyInv, NEW c \in Clerks,
         job' = [job EXCEPT ![c] = Idle], db' = db, Grown(files, files')
  PROVE  /\ TidyInv'
         /\ \E x : RowsLeft' \subseteq RowsLeft \union {x}
         /\ job[c].at \notin CommitSteps => RowsLeft' \subseteq RowsLeft
<1>1. Idle.at \notin Early \union Late \union CommitSteps \union Hashing
  BY DEF Idle, Early, Late, CommitSteps, Hashing
<1>2. TidyInv'
  <2>1. Idle.at # "evidence"
    BY <1>1 DEF Late
  <2> QED  BY <1>1, <2>1, TidyAside
<1>3. \A n : Named(files, n) => Named(files', n)
  BY NamedStays
<1>4. /\ \A row \in DOMAIN db'.evidence :
           \/ row \in DOMAIN db.evidence /\ db'.evidence[row] = db.evidence[row]
           \/ Carries(Idle, db'.evidence[row].number)
      /\ \A row \in DOMAIN db'.sources : db'.sources[row].hash = Null =>
           \/ row \in DOMAIN db.sources /\ db.sources[row].hash = Null
           \/ IsHashing(Idle, row)
  OBVIOUS
<1>5. ASSUME NEW row \in Orphans'
      PROVE  \/ row \in Orphans
             \/ row \in DOMAIN db.evidence /\ Carries(job[c], db.evidence[row].number)
  BY <1>3, <1>4, <1>5, OrphansFollow
<1>6. ASSUME NEW row \in Unhashed'
      PROVE  row \in Unhashed \/ IsHashing(job[c], row)
  BY <1>4, <1>6, UnhashedFollow
<1>7. CASE job[c].at \in Hashing
  <2>1. Orphans' \subseteq Orphans
    <3>1. ASSUME NEW row \in DOMAIN db.evidence, Carries(job[c], db.evidence[row].number)
          PROVE  FALSE
      BY <1>7, <3>1, CarriesLate DEF Hashing
    <3> QED  BY <1>5, <3>1
  <2>2. Unhashed' \subseteq Unhashed \union {job[c].row}
    BY <1>6 DEF IsHashing
  <2>3. RowsLeft' \subseteq RowsLeft \union {<<"source", job[c].row>>}
    BY <2>1, <2>2 DEF RowsLeft
  <2>4. job[c].at \in CommitSteps
    BY <1>7 DEF Hashing, CommitSteps
  <2> QED  BY <1>2, <2>3, <2>4
<1>8. CASE job[c].at \notin Hashing
  <2>1. Unhashed' \subseteq Unhashed
    BY <1>6, <1>8 DEF IsHashing
  <2>2. PICK x : \A row \in DOMAIN db.evidence :
                   Carries(job[c], db.evidence[row].number) => row = x
    <3>1. \A row, other \in DOMAIN db.evidence :
            /\ Carries(job[c], db.evidence[row].number)
            /\ Carries(job[c], db.evidence[other].number)
            => row = other
      BY DEF Carries, TidyInv, Numbered
    <3> QED  BY <3>1
  <2>3. Orphans' \subseteq Orphans \union {x}
    BY <1>5, <2>2
  <2>4. RowsLeft' \subseteq RowsLeft \union {<<"evidence", x>>}
    BY <2>1, <2>3 DEF RowsLeft
  <2>5. job[c].at \notin CommitSteps => Orphans' \subseteq Orphans
    BY <1>5 DEF Carries
  <2>6. job[c].at \notin CommitSteps => RowsLeft' \subseteq RowsLeft
    BY <2>1, <2>5 DEF RowsLeft
  <2> QED  BY <1>2, <2>4, <2>6
<1> QED  BY <1>7, <1>8

\* An error, or a death between two writes.
LEMMA FaultLeavesOne ==
  ASSUME ChainInv, BackInv, TidyInv, LeavesLittle, NEW c \in Clerks,
         job' = [job EXCEPT ![c] = Idle], db' = db, files' = files,
         faults' = faults + 1
  PROVE  TidyInv' /\ LeavesLittle'
<1>1. Grown(files, files')
  BY DEF Grown, OnFile, ChainInv
<1>2. PICK x : RowsLeft' \subseteq RowsLeft \union {x}
  BY <1>1, FaultLeavesOneRow
<1>3. NothingTorn
  BY FilesStay
<1>4. Left' \subseteq Left \union {x}
  BY <1>2, <1>3, LeftFollows DEF NothingTorn
<1>5. AllTorn' \subseteq AllTorn \union {x}
  BY <1>3, TornFollow DEF NothingTorn
<1> QED  BY <1>1, <1>4, <1>5, FaultLeavesOneRow, OneMoreLeft

\* A death while writing: the file is torn.  If it is a commit, its row is left
\* as well.
LEMMA CutLeavesOne ==
  ASSUME ChainInv, BackInv, TidyInv, LeavesLittle, NEW c \in Clerks,
         NEW kind \in Kinds, NEW cut \in BOOLEAN, cut, NEW name, NEW body, NEW holds,
         NEW next, Save(c, cut, kind, name, body, holds, next), db' = db,
         kind # "commits" => job[c].at \notin CommitSteps
  PROVE  TidyInv' /\ LeavesLittle'
<1>1. /\ Grown(files, files')
      /\ job' = [job EXCEPT ![c] = Idle]
      /\ faults' = faults + 1
  BY SaveWrites DEF ChainInv, Save
<1>2. /\ DOMAIN files' = Kinds
      /\ \A other \in Kinds \ {kind} : files'[other] = files[other]
      /\ \A n \in DOMAIN files'[kind] : n # name =>
           n \in DOMAIN files[kind] /\ files'[kind][n] = files[kind][n]
  BY DEF Save, Written, ChainInv
<1>3. \A k \in Kinds : \A n :
        n \in DOMAIN files'[k] \ Readable(files'[k]) =>
          \/ n \in DOMAIN files[k] \ Readable(files[k])
          \/ k = kind /\ n = name
  BY <1>2 DEF Readable
<1>4. AllTorn' \subseteq AllTorn \union {<<kind, name>>}
  BY <1>2, <1>3, TornFollow
<1>5. CASE kind = "commits"
  <2>1. PICK x : RowsLeft' \subseteq RowsLeft \union {x}
    BY <1>1, FaultLeavesOneRow
  <2>2. Left' \subseteq Left \union {x}
    BY <1>2, <1>3, <1>5, <2>1, LeftFollows
  <2> QED  BY <1>1, <1>4, <2>2, FaultLeavesOneRow, OneMoreLeft
<1>6. CASE kind # "commits"
  <2>1. RowsLeft' \subseteq RowsLeft
    BY <1>1, <1>6, FaultLeavesOneRow
  <2>2. Left' \subseteq Left \union {<<kind, name>>}
    <3>1. RowsLeft' \subseteq RowsLeft \union {<<kind, name>>}
      BY <2>1
    <3>2. \A k \in Kinds \ {"commits"} : \A n :
            n \in DOMAIN files'[k] \ Readable(files'[k]) =>
              \/ n \in DOMAIN files[k] \ Readable(files[k])
              \/ <<k, n>> \in {<<kind, name>>}
      BY <1>3
    <3> QED  BY <1>2, <3>1, <3>2, LeftFollows
  <2> QED  BY <1>1, <1>4, <2>2, FaultLeavesOneRow, OneMoreLeft
<1> QED  BY <1>5, <1>6

\* A clerk writes a file other than a commit.
LEMMA FilingLeaves ==
  ASSUME ChainInv, BackInv, TidyInv, LeavesLittle, NEW c \in Clerks,
         NEW kind \in Kinds \ {"commits"}, NEW cut \in BOOLEAN, NEW name, NEW body,
         body # Torn, NEW holds, NEW next, next.at \in {"idle", "receipt"},
         job[c].at \in {"idle", "receipt"},
         Save(c, cut, kind, name, body, holds, next), db' = db
  PROVE  TidyInv' /\ LeavesLittle'
<1>1. CASE cut
  <2>1. job[c].at \notin CommitSteps
    BY DEF CommitSteps
  <2> QED  BY <1>1, <2>1, CutLeavesOne
<1>2. CASE ~cut
  <2>1. /\ Grown(files, files')
        /\ job' = [job EXCEPT ![c] = next] /\ faults' = faults
    BY <1>2, SaveWrites DEF ChainInv, Save
  <2>2. /\ next.at \notin Early \union Late /\ next.at # "evidence"
        /\ job[c].at \notin {"evidence_audit", "commit"} \union Hashing
    BY DEF Early, Late, Hashing
  <2>3. TidyInv'
    BY <2>1, <2>2, TidyAside
  <2>4. NothingLeft
    BY <2>1, <2>2, NothingIsLeft
  <2>5. NothingTorn
    BY <1>2, WholeFiles
  <2> QED  BY <2>1, <2>3, <2>4, <2>5, NoMoreLeft
<1> QED  BY <1>1, <1>2

\* A step of a commit is a transaction of the registry, and no fault.
LEMMA StepLeaves ==
  ASSUME ChainInv, BackInv, TidyInv, LeavesLittle, NEW c \in Clerks, NEW at, NEW next,
         NEW store, Step(c, at, next, store), TidyInv',
         \A row \in DOMAIN store.evidence :
           \/ row \in DOMAIN db.evidence /\ store.evidence[row] = db.evidence[row]
           \/ Carries(next, store.evidence[row].number),
         \A row \in DOMAIN store.sources : store.sources[row].hash = Null =>
           \/ row \in DOMAIN db.sources /\ db.sources[row].hash = Null
           \/ IsHashing(next, row),
         at \in {"evidence_audit", "commit"} => Carries(next, job[c].number),
         at \in Hashing => \/ IsHashing(next, job[c].row)
                           \/ store.sources[job[c].row].hash # Null
  PROVE  LeavesLittle'
<1>1. /\ db' = store /\ files' = files /\ job' = [job EXCEPT ![c] = next]
      /\ faults' = faults /\ job[c].at = at
  BY DEF Step
<1>2. Grown(files, files')
  BY <1>1 DEF Grown, OnFile, ChainInv
<1>3. NothingLeft
  BY <1>1, <1>2, NothingIsLeft
<1> QED  BY <1>1, <1>3, FilesStay, NoMoreLeft

\* A transaction that leaves the sources and the evidence as they are.
LEMMA AsideLeaves ==
  ASSUME ChainInv, BackInv, TidyInv, LeavesLittle, NEW c \in Clerks, NEW at, NEW next,
         NEW store, Step(c, at, next, store),
         store.sources = db.sources, store.evidence = db.evidence, store.last = db.last,
         next.at \in Early => next.number = 0,
         next.at \in Late => at \in Late /\ next.number = job[c].number,
         next.at # "evidence",
         at \in {"evidence_audit", "commit"} => Carries(next, job[c].number),
         at \in Hashing => IsHashing(next, job[c].row)
  PROVE  TidyInv' /\ LeavesLittle'
<1>1. db' = store /\ job' = [job EXCEPT ![c] = next] /\ job[c].at = at
  BY DEF Step
<1>2. TidyInv'
  BY <1>1, TidyAside
<1> QED  BY <1>2, StepLeaves

\* Before it draws its number a commit has none.
LEMMA NoNumberYet ==
  ASSUME TidyInv, NEW c \in Clerks, job[c].at \in Early
  PROVE  job[c].number = 0
BY DEF TidyInv, Draws

LEMMA FindSourceLeaves ==
  ASSUME ChainInv, BackInv, TidyInv, LeavesLittle, NEW c \in Clerks,
         FindSource(c) \/ FindAgain(c)
  PROVE  TidyInv' /\ LeavesLittle'
<1>1. PICK at, next : /\ at \in {"find", "find_again"} /\ Step(c, at, next, db)
                      /\ \/ next = [job[c] EXCEPT !.at = "source"]
                         \/ next = [job[c] EXCEPT !.at = "number", !.row = Oldest(Matches(c))]
  <2>1. CASE FindSource(c) /\ Matches(c) = {}
    BY <2>1 DEF FindSource
  <2>2. CASE FindSource(c) /\ Matches(c) # {}
    BY <2>2 DEF FindSource
  <2>3. CASE FindAgain(c)
    BY <2>3 DEF FindAgain
  <2> QED  BY <2>1, <2>2, <2>3
<1>2. job[c].at = at
  BY <1>1 DEF Step
<1>3. job[c].number = 0 /\ DOMAIN job[c] = JobFields
  BY <1>1, <1>2, NoNumberYet, JobsOfCommits DEF Early, CommitSteps
<1>4. next.at \in {"source", "number"} /\ next.number = 0
  BY <1>1, <1>3 DEF JobFields
<1> QED  BY <1>1, <1>4, AsideLeaves DEF Early, Late, Hashing

LEMMA CreateSourceLeaves ==
  ASSUME ChainInv, BackInv, TidyInv, LeavesLittle, NEW c \in Clerks, CreateSource(c)
  PROVE  TidyInv' /\ LeavesLittle'
<1> DEFINE end == Len(db.sources) + 1
           next == [job[c] EXCEPT !.at = "source_audit", !.row = end]
           new == [url |-> Url[job[c].source], hash |-> Null]
           store == InsertSource(db, Url[job[c].source], Null)
<1>1. Step(c, "source", next, store) /\ job[c].at = "source"
  BY DEF CreateSource, Step
<1>2. job[c].number = 0 /\ DOMAIN job[c] = JobFields
  BY <1>1, NoNumberYet, JobsOfCommits DEF Early, CommitSteps
<1>3. next.at = "source_audit" /\ next.number = 0 /\ next.row = end
  BY <1>2 DEF JobFields
<1>4. db.sources \in Seq(SourceRow)
  BY DEF BackInv, Typed
<1>5. /\ store.sources = Append(db.sources, new)
      /\ store.evidence = db.evidence /\ store.last = db.last
  BY DEF BackInv, Typed, InsertSource
<1> HIDE DEF next, store, new
<1>6. \A row \in DOMAIN store.sources :
        \/ row \in DOMAIN db.sources /\ store.sources[row] = db.sources[row]
        \/ row = end
  BY <1>4, <1>5
<1>7. \A row \in DOMAIN store.sources : store.sources[row].hash = Null =>
        \/ row \in DOMAIN db.sources /\ db.sources[row].hash = Null
        \/ IsHashing(next, row)
  BY <1>3, <1>6 DEF IsHashing, Hashing
<1>8. TidyInv'
  <2>1. /\ job' = [job EXCEPT ![c] = next]
        /\ db'.evidence = db.evidence /\ db'.last = db.last
    BY <1>1, <1>5 DEF Step
  <2>2. next.at # "evidence" /\ next.at \notin Late
    BY <1>3 DEF Late
  <2> QED  BY <1>3, <2>1, <2>2, TidyAside
<1> QED  BY <1>1, <1>5, <1>7, <1>8, StepLeaves DEF Hashing

LEMMA AuditSourceLeaves ==
  ASSUME ChainInv, BackInv, TidyInv, LeavesLittle, NEW c \in Clerks, AuditSource(c)
  PROVE  TidyInv' /\ LeavesLittle'
<1> DEFINE next == [job[c] EXCEPT !.at = "checksum"]
           store == Audited(db, "source.created", job[c].row)
<1>1. Step(c, "source_audit", next, store) /\ job[c].at = "source_audit"
  BY DEF AuditSource, Step
<1>2. job[c].number = 0 /\ DOMAIN job[c] = JobFields
  BY <1>1, NoNumberYet, JobsOfCommits DEF Early, CommitSteps
<1>3. next.at = "checksum" /\ next.number = 0 /\ next.row = job[c].row
  BY <1>2 DEF JobFields
<1>4. /\ store.sources = db.sources /\ store.evidence = db.evidence
      /\ store.last = db.last
  BY DEF BackInv, Typed, Audited
<1> HIDE DEF next, store
<1> QED  BY <1>1, <1>3, <1>4, AsideLeaves DEF Late, Hashing, IsHashing

LEMMA RecordChecksumLeaves ==
  ASSUME ChainInv, BackInv, TidyInv, LeavesLittle, NEW c \in Clerks, RecordChecksum(c)
  PROVE  TidyInv' /\ LeavesLittle'
<1> DEFINE one == job[c].row
           hash == Content[job[c].source]
           next == [job[c] EXCEPT !.at = "find_again"]
           store == SetChecksum(db, one, hash)
<1>1. Step(c, "checksum", next, store) /\ job[c].at = "checksum"
  BY DEF RecordChecksum, Step
<1>2. /\ job[c].number = 0 /\ DOMAIN job[c] = JobFields
      /\ job[c].source \in Sources
  BY <1>1, NoNumberYet, JobsOfCommits DEF Early, CommitSteps
<1>3. next.at = "find_again" /\ next.number = 0
  BY <1>2 DEF JobFields
<1>4. HasRow(db, one, Url[job[c].source], Null)
  BY <1>1 DEF BackInv, Knows, Hashing
<1>5. /\ store.sources = [db.sources EXCEPT ![one] = [@ EXCEPT !.hash = hash]]
      /\ store.evidence = db.evidence /\ store.last = db.last
  BY DEF BackInv, Typed, SetChecksum
<1>6. db.sources \in Seq(SourceRow) /\ hash # Null
  BY <1>2, EvidenceAssumption DEF BackInv, Typed
<1>7. db.sources[one] \in SourceRow
  BY <1>4, <1>6 DEF HasRow
<1>8. store.sources[one].hash = hash
  BY <1>4, <1>5, <1>7 DEF HasRow, SourceRow
<1>9. /\ DOMAIN store.sources = DOMAIN db.sources
      /\ \A row \in DOMAIN db.sources : row # one => store.sources[row] = db.sources[row]
  BY <1>5, <1>6
<1> HIDE DEF next, store, hash
<1>10. TidyInv'
  <2>1. /\ job' = [job EXCEPT ![c] = next]
        /\ db'.evidence = db.evidence /\ db'.last = db.last
    BY <1>1, <1>5 DEF Step
  <2>2. next.at # "evidence" /\ next.at \notin Late
    BY <1>3 DEF Late
  <2> QED  BY <1>3, <2>1, <2>2, TidyAside
<1>11. store.sources[one].hash # Null
  BY <1>6, <1>8
<1> HIDE DEF one
<1>12. \A row \in DOMAIN store.sources : store.sources[row].hash = Null =>
         \/ row \in DOMAIN db.sources /\ db.sources[row].hash = Null
         \/ IsHashing(next, row)
  BY <1>9, <1>11
<1>13. store.sources[job[c].row].hash # Null
  BY <1>11 DEF one
<1> QED  BY <1>1, <1>5, <1>10, <1>12, <1>13, StepLeaves

LEMMA DrawNumberLeaves ==
  ASSUME ChainInv, BackInv, TidyInv, LeavesLittle, NEW c \in Clerks, DrawNumber(c)
  PROVE  TidyInv' /\ LeavesLittle'
<1> DEFINE next == [job[c] EXCEPT !.at = "evidence", !.number = Issued(db, "evidence")]
           store == Issue(db, "evidence")
<1>1. Step(c, "number", next, store)
  BY DEF DrawNumber
<1>2. store.sources = db.sources /\ store.evidence = db.evidence
  BY DEF BackInv, Typed, Issue
<1> HIDE DEF next, store
<1> QED  BY <1>1, <1>2, DrawNumberTidies, StepLeaves DEF Hashing

LEMMA AddEvidenceLeaves ==
  ASSUME ChainInv, BackInv, TidyInv, LeavesLittle, NEW c \in Clerks, AddEvidence(c)
  PROVE  TidyInv' /\ LeavesLittle'
<1> DEFINE next == [job[c] EXCEPT !.at = "evidence_audit"]
           new == [number |-> job[c].number, source |-> job[c].row,
                   assertion |-> job[c].finding, hash |-> db.sources[job[c].row].hash]
           store == InsertEvidence(db, job[c].number, job[c].row, job[c].finding)
<1>1. Step(c, "evidence", next, store) /\ job[c].at = "evidence"
  BY DEF AddEvidence, Step
<1>2. next.at = "evidence_audit" /\ next.number = job[c].number
  BY <1>1, JobsOfCommits DEF CommitSteps, JobFields
<1>3. store.evidence = Append(db.evidence, new) /\ store.sources = db.sources
  BY DEF BackInv, Typed, InsertEvidence
<1>4. new.number = job[c].number
  OBVIOUS
<1> HIDE DEF next, store, new
<1>5. db.evidence \in Seq(EvidenceRow)
  BY DEF BackInv, Typed
<1>6. \A row \in DOMAIN store.evidence :
        \/ row \in DOMAIN db.evidence /\ store.evidence[row] = db.evidence[row]
        \/ store.evidence[row] = new
  BY <1>3, <1>5
<1>7. Carries(next, new.number)
  BY <1>2, <1>4 DEF Carries, CommitSteps
<1>8. \A row \in DOMAIN store.evidence :
        \/ row \in DOMAIN db.evidence /\ store.evidence[row] = db.evidence[row]
        \/ Carries(next, store.evidence[row].number)
  BY <1>6, <1>7
<1> QED  BY <1>1, <1>3, <1>8, AddEvidenceTidies, StepLeaves DEF Hashing

LEMMA SubjectUnknownLeaves ==
  ASSUME ChainInv, BackInv, TidyInv, LeavesLittle, NEW c \in Clerks, SubjectUnknown(c)
  PROVE  TidyInv' /\ LeavesLittle'
<1>1. Step(c, "evidence", Idle, db)
  BY DEF SubjectUnknown
<1>2. Idle.at \notin Early \union Late /\ Idle.at # "evidence"
  BY DEF Idle, Early, Late
<1> QED  BY <1>1, <1>2, AsideLeaves DEF Hashing

LEMMA AuditEvidenceLeaves ==
  ASSUME ChainInv, BackInv, TidyInv, LeavesLittle, NEW c \in Clerks, AuditEvidence(c)
  PROVE  TidyInv' /\ LeavesLittle'
<1> DEFINE next == [job[c] EXCEPT !.at = "commit"]
           store == Audited(db, "evidence.created", job[c].number)
<1>1. Step(c, "evidence_audit", next, store) /\ job[c].at = "evidence_audit"
  BY DEF AuditEvidence, Step
<1>2. next.at = "commit" /\ next.number = job[c].number
  BY <1>1, JobsOfCommits DEF CommitSteps, JobFields
<1>3. /\ store.sources = db.sources /\ store.evidence = db.evidence
      /\ store.last = db.last
  BY DEF BackInv, Typed, Audited
<1> HIDE DEF next, store
<1>4. Carries(next, job[c].number) /\ next.at \notin Early
  BY <1>2 DEF Carries, CommitSteps, Early
<1> QED  BY <1>1, <1>2, <1>3, <1>4, AsideLeaves DEF Late, Hashing

\* A commit on file names the row; one that is cut is a fault.
LEMMA SaveCommitLeaves ==
  ASSUME CommitsAreWhole, ChainInv, BackInv, TidyInv, LeavesLittle, NEW c \in Clerks,
         NEW cut \in BOOLEAN, SaveCommit(c, cut)
  PROVE  TidyInv' /\ LeavesLittle'
<1> DEFINE body == [finding |-> job[c].finding, source |-> job[c].source,
                    review |-> job[c].review, number |-> job[c].number]
<1>1. /\ Save(c, cut, "commits", job[c].evidence, body, memory[c], Idle)
      /\ db' = db /\ job[c].at = "commit"
  BY DEF SaveCommit
<1>2. body.number = job[c].number /\ body # Torn
  BY DEF CommitsAreWhole
<1> HIDE DEF body
<1>3. /\ job' = [job EXCEPT ![c] = Idle]
      /\ faults' = IF cut THEN faults + 1 ELSE faults
  BY <1>1 DEF Save
<1>4. /\ Grown(files, files')
      /\ ~cut => OnFile(files'.commits, job[c].evidence, body)
  BY <1>1, SaveWrites DEF ChainInv, Kinds
<1>5. CASE cut
  BY <1>1, <1>5, CutLeavesOne DEF Kinds
<1>6. CASE ~cut
  <2>1. Named(files', job[c].number)
    BY <1>2, <1>4, <1>6 DEF Named, OnFile, Readable
  <2>2. Idle.at \notin Early \union Late /\ Idle.at # "evidence"
    BY DEF Idle, Early, Late
  <2>3. TidyInv'
    BY <1>1, <1>3, <2>2, TidyAside
  <2>4. NothingLeft
    BY <1>1, <1>3, <1>4, <2>1, NothingIsLeft DEF Hashing
  <2>5. NothingTorn
    BY <1>1, <1>2, <1>6, WholeFiles DEF Kinds
  <2> QED  BY <1>3, <1>6, <2>3, <2>4, <2>5, NoMoreLeft
<1> QED  BY <1>5, <1>6

LEMMA BeginCommitLeaves ==
  ASSUME ChainInv, BackInv, TidyInv, LeavesLittle, NEW c \in Clerks, NEW object, NEW review,
         BeginCommit(c, object, review)
  PROVE  TidyInv' /\ LeavesLittle'
<1> DEFINE next == [at |-> "find", finding |-> object.finding,
                    source |-> object.source, review |-> review,
                    evidence |-> begun + 1, row |-> 0, number |-> 0]
<1>1. /\ db' = db /\ files' = files /\ job' = [job EXCEPT ![c] = next]
      /\ faults' = faults /\ job[c].at = "idle"
  BY DEF BeginCommit, Paired, Begin
<1>2. next.at = "find" /\ next.number = 0
  OBVIOUS
<1> HIDE DEF next
<1>3. Grown(files, files')
  BY <1>1 DEF Grown, OnFile, ChainInv
<1>4. TidyInv'
  BY <1>1, <1>2, TidyAside DEF Late
<1>5. NothingLeft
  BY <1>1, <1>3, NothingIsLeft DEF Hashing
<1> QED  BY <1>1, <1>4, <1>5, FilesStay, NoMoreLeft

LEMMA FilesLeave ==
  ASSUME ReviewsAreWhole, SourcesAreWhole, ChainInv, BackInv, TidyInv, LeavesLittle, NEW c \in Clerks, NEW cut \in BOOLEAN,
         \/ \E s \in Sources : \/ AdmitSource(c, s, cut)
                               \/ RejectSource(c, s, cut)
                               \/ \E f \in Findings : CreateFinding(c, s, f, cut)
         \/ SaveReceipt(c, cut)
         \/ \E object \in memory[c].findings, r \in Reviewers, decision \in Decisions :
              Review(c, object, r, decision, cut)
  PROVE  TidyInv' /\ LeavesLittle'
<1>1. PICK kind \in Kinds \ {"commits"} : \E name, body, holds, next :
        /\ body # Torn /\ next.at \in {"idle", "receipt"}
        /\ Save(c, cut, kind, name, body, holds, next)
        /\ db' = db /\ job[c].at \in {"idle", "receipt"}
  <2>1. ASSUME NEW s \in Sources, AdmitSource(c, s, cut) \/ RejectSource(c, s, cut)
        PROVE  /\ \E body, holds : /\ body # Torn
                                   /\ Save(c, cut, "sources", s, body, holds, Idle)
               /\ db' = db /\ job[c].at = "idle"
    BY <2>1 DEF AdmitSource, RejectSource, SourcesAreWhole
  <2>2. ASSUME NEW s \in Sources, NEW f \in Findings, CreateFinding(c, s, f, cut)
        PROVE  /\ \E holds, next : /\ next.at = "receipt"
                                   /\ Save(c, cut, "findings", f, s, holds, next)
               /\ db' = db /\ job[c].at = "idle"
    <3>1. PICK next : next = [at |-> "receipt", finding |-> f, source |-> s]
      OBVIOUS
    <3>2. /\ Save(c, cut, "findings", f, s, memory[c], next) /\ next.at = "receipt"
      BY <2>2, <3>1 DEF CreateFinding
    <3> QED  BY <2>2, <3>2 DEF CreateFinding
  <2>3. ASSUME SaveReceipt(c, cut)
        PROVE  /\ \E name, body, holds :
                    body # Torn /\ Save(c, cut, "receipts", name, body, holds, Idle)
               /\ db' = db /\ job[c].at = "receipt"
    <3>1. job[c].source # Torn
      BY <2>3 DEF SaveReceipt, ChainInv, Working, SourcesAreWhole
    <3> QED  BY <2>3, <3>1 DEF SaveReceipt
  <2>4. ASSUME NEW object, NEW r, NEW decision, Review(c, object, r, decision, cut)
        PROVE  /\ \E name, body, holds :
                    body # Torn /\ Save(c, cut, "reviews", name, body, holds, Idle)
               /\ db' = db /\ job[c].at = "idle"
    BY <2>4 DEF Review, ReviewsAreWhole
  <2>5. Idle.at = "idle"
    BY DEF Idle
  <2>6. {"sources", "findings", "receipts", "reviews"} \subseteq Kinds \ {"commits"}
    BY DEF Kinds
  <2>7. CASE \E s \in Sources : AdmitSource(c, s, cut) \/ RejectSource(c, s, cut)
    BY <2>1, <2>5, <2>6, <2>7
  <2>8. CASE \E s \in Sources, f \in Findings : CreateFinding(c, s, f, cut)
    BY <2>2, <2>5, <2>6, <2>8 DEF SourcesAreWhole
  <2>9. CASE SaveReceipt(c, cut)
    BY <2>3, <2>5, <2>6, <2>9
  <2>10. CASE \E object \in memory[c].findings, r \in Reviewers, decision \in Decisions :
                Review(c, object, r, decision, cut)
    BY <2>4, <2>5, <2>6, <2>10
  <2> QED  BY <2>7, <2>8, <2>9, <2>10
<1> QED  BY <1>1, FilingLeaves

LEMMA LittleIsKept ==
  ASSUME ReviewsAreWhole, SourcesAreWhole, CommitsAreWhole,
         ChainInv, BackInv, TidyInv, LeavesLittle, [Next]_vars
  PROVE  TidyInv' /\ LeavesLittle'
<1>1. ASSUME NEW c \in Clerks, NEW s \in Sources, NEW cut \in Cuts,
             \/ AdmitSource(c, s, cut)
             \/ RejectSource(c, s, cut)
             \/ \E f \in Findings : CreateFinding(c, s, f, cut)
      PROVE  TidyInv' /\ LeavesLittle'
  BY <1>1, CutsAreBoolean, FilesLeave
<1>2. ASSUME NEW c \in Clerks, NEW cut \in Cuts, SaveReceipt(c, cut) \/ SaveCommit(c, cut)
      PROVE  TidyInv' /\ LeavesLittle'
  BY <1>2, CutsAreBoolean, FilesLeave, SaveCommitLeaves
<1>3. ASSUME NEW c \in Clerks, NEW object \in memory[c].findings,
             \/ \E r \in Reviewers, decision \in Decisions, cut \in Cuts :
                  Review(c, object, r, decision, cut)
             \/ \E review \in memory[c].reviews : BeginCommit(c, object, review)
      PROVE  TidyInv' /\ LeavesLittle'
  BY <1>3, CutsAreBoolean, FilesLeave, BeginCommitLeaves
<1>4. ASSUME NEW c \in Clerks, CommitStep(c)
      PROVE  TidyInv' /\ LeavesLittle'
  BY <1>4, FindSourceLeaves, CreateSourceLeaves, AuditSourceLeaves, RecordChecksumLeaves,
     DrawNumberLeaves, AddEvidenceLeaves, SubjectUnknownLeaves, AuditEvidenceLeaves,
     SaveCommitLeaves DEF CommitStep
<1>5. ASSUME NEW c \in Clerks, Raise(c) \/ Die(c)
      PROVE  TidyInv' /\ LeavesLittle'
  <2>1. /\ db' = db /\ files' = files /\ job' = [job EXCEPT ![c] = Idle]
        /\ faults' = faults + 1
    BY <1>5 DEF Raise, Die
  <2> QED  BY <2>1, FaultLeavesOne
<1>6. CASE (\E r \in Reviewers : Lapse(r)) \/ UNCHANGED vars
  <2>1. db' = db /\ files' = files /\ job' = job /\ faults' = faults
    BY <1>6 DEF Lapse, vars
  <2>2. TidyInv'
    BY <2>1 DEF TidyInv, Numbered, Draws
  <2>3. NothingLeft
    <3>1. Pending' = Pending /\ Commits' = Commits
      BY <2>1 DEF Pending, Commits, Readable
    <3>2. Orphans' = Orphans
      BY <2>1, <3>1 DEF Orphans
    <3>3. Unhashed' = Unhashed
      BY <2>1 DEF Unhashed
    <3> QED  BY <3>2, <3>3 DEF NothingLeft
  <2> QED  BY <2>1, <2>2, <2>3, FilesStay, NoMoreLeft
<1> QED  BY <1>1, <1>2, <1>3, <1>4, <1>5, <1>6 DEF Next

LEMMA LittleAtFirst == Init => TidyInv /\ LeavesLittle
<1> SUFFICES ASSUME Init PROVE TidyInv /\ LeavesLittle
  OBVIOUS
<1>1. /\ db.evidence = <<>> /\ db.sources = <<>> /\ db.last["evidence"] = 0
      /\ faults = 0
  BY DEF Init, EmptyStore, EntityTypes
<1>2. \A c \in Clerks : job[c].at = "idle"
  BY DEF Init, Idle
<1>3. TidyInv
  <2>1. DOMAIN db.evidence = {}
    BY <1>1
  <2>2. Numbered(db)
    BY <1>1, <2>1 DEF Numbered
  <2>3. \A c \in Clerks : job[c].at \notin Early \union Late
    BY <1>2 DEF Early, Late
  <2> QED  BY <2>2, <2>3 DEF TidyInv, Draws, Late
<1>4. Orphans = {} /\ Unhashed = {}
  BY <1>1 DEF Orphans, Unhashed
<1>5. \A kinds \in SUBSET Kinds : TornFiles(kinds) = {}
  <2>1. \A kind \in Kinds : DOMAIN files[kind] = {}
    BY DEF Init, Kinds
  <2> QED  BY <2>1 DEF TornFiles
<1>6. DOMAIN files = Kinds
  BY DEF Init, Kinds
<1>7. Left = {} /\ AllTorn = {}
  <2>1. RowsLeft = {}
    BY <1>4 DEF RowsLeft
  <2>2. TornFiles(Kinds) = {} /\ TornFiles(Kinds \ {"commits"}) = {}
    BY <1>5
  <2> QED  BY <1>6, <2>1, <2>2 DEF Left, AllTorn
<1>8. IsFiniteSet({}) /\ Cardinality({}) = 0
  BY FS_EmptySet
<1> QED  BY <1>1, <1>3, <1>7, <1>8, LittleIs DEF LeavesLittle

\* However the commits of any number of clerks interleave in the registry, an
\* error or a death leaves at most one evidence row that no commit names, one
\* registry source without its hash or one torn file, and nothing else leaves
\* any; only a commit that is cut short leaves its row and its file
\* (registry_adapter.py create_evidence, evidence_service.py commit_evidence).
THEOREM EvidenceFaultsLeaveLittle ==
  ASSUME ReviewsAreWhole, SourcesAreWhole, CommitsAreWhole
  PROVE  Spec => []FaultsLeaveLittle
<1> DEFINE I == ChainInv /\ BackInv /\ TidyInv /\ LeavesLittle
<1>1. Init => I
  BY InitChain, InitBacked, LittleAtFirst
<1>2. I /\ [Next]_vars => I'
  BY StepKeepsChain, StepKeepsBacked, LittleIsKept
<1>3. I => FaultsLeaveLittle
  BY DEF LeavesLittle
<1> QED  BY <1>1, <1>2, <1>3, PTL DEF Spec
-----------------------------------------------------------------------------
(* A commit goes forward, and waits for nobody.                            *)

\* The steps of a commit, in the order it takes them.
Place(at) ==
  CASE at = "find" -> 1
    [] at = "source" -> 2
    [] at = "source_audit" -> 3
    [] at = "checksum" -> 4
    [] at = "find_again" -> 5
    [] at = "number" -> 6
    [] at = "evidence" -> 7
    [] at = "evidence_audit" -> 8
    [] at = "commit" -> 9

\* The same commit, some steps later.
Onward(j, next) ==
  /\ next.at \in CommitSteps /\ Place(j.at) < Place(next.at)
  /\ next.finding = j.finding /\ next.source = j.source
  /\ next.review = j.review /\ next.evidence = j.evidence

\* No step takes a commit under way back, whoever's step it is: it stays where
\* it is, goes on with what it was begun with, or ends.
CommitsGoForward ==
  \A c \in Clerks :
    job[c].at \in CommitSteps =>
      job'[c] = job[c] \/ job'[c] = Idle \/ Onward(job[c], job'[c])

\* Nothing in either store stops a commit under way: the source it has hashed
\* is there to be found, and no file has the name of the one it is to write.
CommitsNeverWait ==
  \A c \in Clerks :
    /\ job[c].at = "find_again" => Matches(c) # {}
    /\ job[c].at = "commit" => job[c].evidence \notin DOMAIN files.commits

\* The evidence identifier of a commit under way is its own.
OwnName(j, n, names) == j.at \in CommitSteps => j.evidence \in 1..n \ names

\* A commit that hashed its source finds it again.
Finds(D, j) ==
  j.at = "find_again" =>
    \E row \in DOMAIN D.sources : HasRow(D, row, Url[j.source], Content[j.source])

NamesInv ==
  /\ begun \in Nat
  /\ DOMAIN files.commits \subseteq 1..begun
  /\ \A c \in Clerks : OwnName(job[c], begun, DOMAIN files.commits)
  /\ \A c, d \in Clerks :
       job[c].at \in CommitSteps /\ job[d].at \in CommitSteps /\ c # d =>
         job[c].evidence # job[d].evidence

FindsInv == \A c \in Clerks : Finds(db, job[c])

LEMMA PlacesInOrder ==
  /\ Place("find") = 1 /\ Place("source") = 2 /\ Place("source_audit") = 3
  /\ Place("checksum") = 4 /\ Place("find_again") = 5 /\ Place("number") = 6
  /\ Place("evidence") = 7 /\ Place("evidence_audit") = 8 /\ Place("commit") = 9
BY DEF Place

\* What is found by its URL and its hash stays.
HashedStay ==
  \A row, url, hash : hash # Null /\ HasRow(db, row, url, hash) => HasRow(db', row, url, hash)

\* A clerk's step that leaves the names of the commits alone.
LEMMA NamesFrame ==
  ASSUME ChainInv, NamesInv, NEW c \in Clerks, NEW next, job' = [job EXCEPT ![c] = next],
         begun' = begun, DOMAIN files'.commits = DOMAIN files.commits,
         next.at \in CommitSteps =>
           job[c].at \in CommitSteps /\ next.evidence = job[c].evidence
  PROVE  NamesInv'
<1>1. job'[c] = next /\ \A d \in Clerks \ {c} : job'[d] = job[d]
  BY DEF ChainInv
<1>2. \A d \in Clerks : OwnName(job[d], begun, DOMAIN files.commits)
  BY DEF NamesInv
<1>3. OwnName(next, begun, DOMAIN files.commits)
  BY <1>2 DEF OwnName
<1>4. \A d \in Clerks : OwnName(job'[d], begun', DOMAIN files'.commits)
  BY <1>1, <1>2, <1>3
<1>5. \A a, d \in Clerks :
        job'[a].at \in CommitSteps /\ job'[d].at \in CommitSteps /\ a # d =>
          job'[a].evidence # job'[d].evidence
  BY <1>1 DEF NamesInv
<1> QED  BY <1>4, <1>5 DEF NamesInv

LEMMA FindsFrame ==
  ASSUME ChainInv, FindsInv, NEW c \in Clerks, NEW next, job' = [job EXCEPT ![c] = next],
         HashedStay, Finds(db', next)
  PROVE  FindsInv'
<1>1. job'[c] = next /\ \A d \in Clerks \ {c} : job'[d] = job[d]
  BY DEF ChainInv
<1>2. ASSUME NEW d \in Clerks PROVE Finds(db', job[d])
  <2>1. SUFFICES ASSUME job[d].at = "find_again"
                 PROVE  \E row \in DOMAIN db'.sources :
                          HasRow(db', row, Url[job[d].source], Content[job[d].source])
    BY DEF Finds
  <2>2. Content[job[d].source] # Null
    BY <2>1, JobsOfCommits, EvidenceAssumption DEF CommitSteps
  <2>3. PICK row \in DOMAIN db.sources :
          HasRow(db, row, Url[job[d].source], Content[job[d].source])
    BY <2>1 DEF FindsInv, Finds
  <2>4. HasRow(db', row, Url[job[d].source], Content[job[d].source])
    BY <2>2, <2>3 DEF HashedStay
  <2> QED  BY <2>4 DEF HasRow
<1>3. \A d \in Clerks : Finds(db', job'[d])
  BY <1>1, <1>2
<1> QED  BY <1>3 DEF FindsInv

LEMMA ForwardFrame ==
  ASSUME ChainInv, NEW c \in Clerks, NEW next, job' = [job EXCEPT ![c] = next],
         job[c].at \in CommitSteps => next = Idle \/ Onward(job[c], next)
  PROVE  CommitsGoForward
<1>1. job'[c] = next /\ \A d \in Clerks \ {c} : job'[d] = job[d]
  BY DEF ChainInv
<1> QED  BY <1>1 DEF CommitsGoForward

GoesOn == NamesInv' /\ FindsInv' /\ CommitsGoForward

\* A step that neither begins a commit nor takes one on.
LEMMA OutsideGoesOn ==
  ASSUME ChainInv, NamesInv, FindsInv, NEW c \in Clerks, NEW next,
         job' = [job EXCEPT ![c] = next], next.at \notin CommitSteps,
         job[c].at \in CommitSteps => next = Idle,
         db' = db, begun' = begun, DOMAIN files'.commits = DOMAIN files.commits
  PROVE  GoesOn
<1>1. NamesInv'
  BY NamesFrame
<1>2. HashedStay
  BY DEF HashedStay
<1>3. Finds(db', next)
  BY DEF Finds, CommitSteps
<1>4. FindsInv'
  BY <1>2, <1>3, FindsFrame
<1>5. CommitsGoForward
  BY ForwardFrame
<1> QED  BY <1>1, <1>4, <1>5 DEF GoesOn

\* A transaction of a commit.
LEMMA StepGoesOn ==
  ASSUME ChainInv, NamesInv, FindsInv, NEW c \in Clerks, NEW at \in CommitSteps,
         NEW next, NEW store, Step(c, at, next, store),
         Onward(job[c], next), HashedStay, Finds(store, next)
  PROVE  GoesOn
<1>1. /\ job' = [job EXCEPT ![c] = next] /\ job[c].at \in CommitSteps
      /\ db' = store /\ begun' = begun /\ files' = files
  BY DEF Step
<1>2. next.evidence = job[c].evidence
  BY DEF Onward
<1>3. NamesInv'
  BY <1>1, <1>2, NamesFrame
<1>4. FindsInv'
  BY <1>1, FindsFrame
<1>5. CommitsGoForward
  BY <1>1, ForwardFrame
<1> QED  BY <1>3, <1>4, <1>5 DEF GoesOn

\* What a step sets of a job leaves the commit the same.
LEMMA PlaceGoesOn ==
  ASSUME NEW j, DOMAIN j = JobFields, NEW at \in CommitSteps, Place(j.at) < Place(at)
  PROVE  LET next == [j EXCEPT !.at = at] IN Onward(j, next) /\ next.at = at
BY DEF Onward, JobFields

LEMMA RowGoesOn ==
  ASSUME NEW j, DOMAIN j = JobFields, NEW at \in CommitSteps, Place(j.at) < Place(at), NEW n
  PROVE  LET next == [j EXCEPT !.at = at, !.row = n] IN Onward(j, next) /\ next.at = at
BY DEF Onward, JobFields

LEMMA NumberGoesOn ==
  ASSUME NEW j, DOMAIN j = JobFields, NEW at \in CommitSteps, Place(j.at) < Place(at), NEW n
  PROVE  LET next == [j EXCEPT !.at = at, !.number = n] IN Onward(j, next) /\ next.at = at
BY DEF Onward, JobFields

\* A transaction that leaves the sources as they are, and does not go on to
\* search for one.
LEMMA AsideGoesOn ==
  ASSUME ChainInv, NamesInv, FindsInv, NEW c \in Clerks, NEW at \in CommitSteps,
         NEW next, NEW store, Step(c, at, next, store),
         Onward(job[c], next), next.at # "find_again", store.sources = db.sources
  PROVE  GoesOn
<1>1. db' = store
  BY DEF Step
<1>2. HashedStay
  BY <1>1 DEF HashedStay, HasRow
<1>3. Finds(store, next)
  BY DEF Finds
<1> QED  BY <1>2, <1>3, StepGoesOn

LEMMA FindingGoesOn ==
  ASSUME ChainInv, NamesInv, FindsInv, NEW c \in Clerks, FindSource(c) \/ FindAgain(c)
  PROVE  GoesOn
<1> DEFINE absent == [job[c] EXCEPT !.at = "source"]
           found == [job[c] EXCEPT !.at = "number", !.row = Oldest(Matches(c))]
<1>1. PICK at \in {"find", "find_again"} :
        \/ at = "find" /\ Step(c, at, absent, db)
        \/ Step(c, at, found, db)
  BY DEF FindSource, FindAgain
<1>2. at \in CommitSteps /\ job[c].at = at
  BY <1>1 DEF CommitSteps, Step
<1>3. DOMAIN job[c] = JobFields
  BY <1>2, JobsOfCommits
<1>4. at = "find" => Onward(job[c], absent) /\ absent.at = "source"
  <2> SUFFICES ASSUME at = "find" PROVE Onward(job[c], absent) /\ absent.at = "source"
    OBVIOUS
  <2>1. Place(job[c].at) < Place("source")
    BY <1>2, PlacesInOrder
  <2>2. "source" \in CommitSteps
    BY DEF CommitSteps
  <2> QED  BY <1>3, <2>1, <2>2, PlaceGoesOn
<1>5. Onward(job[c], found) /\ found.at = "number"
  <2>1. Place(job[c].at) < Place("number")
    BY <1>1, <1>2, PlacesInOrder
  <2>2. "number" \in CommitSteps
    BY DEF CommitSteps
  <2> QED  BY <1>3, <2>1, <2>2, RowGoesOn
<1> HIDE DEF absent, found
<1>6. CASE at = "find" /\ Step(c, at, absent, db)
  <2>1. absent.at # "find_again"
    BY <1>4, <1>6
  <2> QED  BY <1>2, <1>4, <1>6, <2>1, AsideGoesOn
<1>7. CASE Step(c, at, found, db)
  <2>1. found.at # "find_again"
    BY <1>5
  <2> QED  BY <1>2, <1>5, <1>7, <2>1, AsideGoesOn
<1> QED  BY <1>1, <1>6, <1>7

\* A new source leaves those with a hash.
LEMMA CreateSourceGoesOn ==
  ASSUME ChainInv, BackInv, NamesInv, FindsInv, NEW c \in Clerks, CreateSource(c)
  PROVE  GoesOn
<1> DEFINE end == Len(db.sources) + 1
           new == [url |-> Url[job[c].source], hash |-> Null]
           next == [job[c] EXCEPT !.at = "source_audit", !.row = end]
           store == InsertSource(db, Url[job[c].source], Null)
<1>1. Step(c, "source", next, store) /\ job[c].at = "source" /\ db' = store
  BY DEF CreateSource, Step
<1>2. "source" \in CommitSteps /\ "source_audit" \in CommitSteps
  BY DEF CommitSteps
<1>3. DOMAIN job[c] = JobFields /\ job[c].source \in Sources
  BY <1>1, <1>2, JobsOfCommits
<1>4. Onward(job[c], next) /\ next.at = "source_audit"
  <2>1. Place(job[c].at) < Place("source_audit")
    BY <1>1, PlacesInOrder
  <2> HIDE DEF end
  <2> QED  BY <1>2, <1>3, <2>1, RowGoesOn
<1>5. store.sources = Append(db.sources, new)
  BY DEF BackInv, Typed, InsertSource
<1>6. db.sources \in Seq(SourceRow) /\ new \in SourceRow
  BY <1>3 DEF BackInv, Typed, SourceRow, Hashes
<1>7. /\ DOMAIN db.sources \subseteq DOMAIN Append(db.sources, new)
      /\ \A row \in DOMAIN db.sources : Append(db.sources, new)[row] = db.sources[row]
  BY <1>6
<1> HIDE DEF next, store, new
<1>8. HashedStay
  BY <1>1, <1>5, <1>7 DEF HashedStay, HasRow
<1>9. Finds(store, next)
  BY <1>4 DEF Finds
<1> QED  BY <1>1, <1>2, <1>4, <1>8, <1>9, StepGoesOn

\* A source without a hash gets it; those that have one keep it.
LEMMA RecordChecksumGoesOn ==
  ASSUME ChainInv, BackInv, NamesInv, FindsInv, NEW c \in Clerks, RecordChecksum(c)
  PROVE  GoesOn
<1> DEFINE one == job[c].row
           hash == Content[job[c].source]
           next == [job[c] EXCEPT !.at = "find_again"]
           store == SetChecksum(db, one, hash)
<1>1. Step(c, "checksum", next, store) /\ job[c].at = "checksum" /\ db' = store
  BY DEF RecordChecksum, Step
<1>2. "checksum" \in CommitSteps /\ "find_again" \in CommitSteps
  BY DEF CommitSteps
<1>3. DOMAIN job[c] = JobFields /\ job[c].source \in Sources
  BY <1>1, <1>2, JobsOfCommits
<1>4. Onward(job[c], next)
  <2>1. Place(job[c].at) < Place("find_again")
    BY <1>1, PlacesInOrder
  <2> QED  BY <1>2, <1>3, <2>1, PlaceGoesOn
<1>5. next.source = job[c].source
  BY <1>4 DEF Onward
<1>6. HasRow(db, one, Url[job[c].source], Null)
  BY <1>1 DEF BackInv, Knows, Hashing
<1>7. store.sources = [db.sources EXCEPT ![one] = [@ EXCEPT !.hash = hash]]
  BY DEF BackInv, Typed, SetChecksum
<1>8. DOMAIN db.sources[one] = {"url", "hash"}
  <2>1. db.sources \in Seq(SourceRow) /\ one \in DOMAIN db.sources
    BY <1>6 DEF BackInv, Typed, HasRow
  <2>2. db.sources[one] \in SourceRow
    BY <2>1
  <2> QED  BY <2>2 DEF SourceRow
<1>9. /\ DOMAIN store.sources = DOMAIN db.sources
      /\ \A row \in DOMAIN db.sources : row # one => store.sources[row] = db.sources[row]
      /\ store.sources[one].url = Url[job[c].source] /\ store.sources[one].hash = hash
  BY <1>6, <1>7, <1>8 DEF HasRow
<1> HIDE DEF next, store, hash
<1>10. HashedStay
  BY <1>1, <1>6, <1>9 DEF HashedStay, HasRow
<1>11. HasRow(store, one, Url[next.source], Content[next.source])
  BY <1>5, <1>6, <1>9 DEF HasRow, hash
<1>12. Finds(store, next)
  BY <1>6, <1>9, <1>11 DEF Finds, HasRow
<1> QED  BY <1>1, <1>2, <1>4, <1>10, <1>12, StepGoesOn

\* The steps of a commit that leave the sources as they are.
LEMMA PlaceAside ==
  ASSUME ChainInv, NamesInv, FindsInv, NEW c \in Clerks, NEW at \in CommitSteps,
         NEW to \in CommitSteps, NEW store, Step(c, at, [job[c] EXCEPT !.at = to], store),
         Place(at) < Place(to), to # "find_again", store.sources = db.sources
  PROVE  GoesOn
<1> DEFINE next == [job[c] EXCEPT !.at = to]
<1>1. Step(c, at, next, store) /\ job[c].at = at
  BY DEF Step
<1>2. DOMAIN job[c] = JobFields
  BY <1>1, JobsOfCommits
<1>3. Onward(job[c], next) /\ next.at = to
  BY <1>1, <1>2, PlaceGoesOn
<1> HIDE DEF next
<1> QED  BY <1>1, <1>3, AsideGoesOn

LEMMA AuditSourceGoesOn ==
  ASSUME ChainInv, BackInv, NamesInv, FindsInv, NEW c \in Clerks, AuditSource(c)
  PROVE  GoesOn
<1> DEFINE store == Audited(db, "source.created", job[c].row)
<1>1. Step(c, "source_audit", [job[c] EXCEPT !.at = "checksum"], store)
  BY DEF AuditSource
<1>2. store.sources = db.sources
  BY DEF BackInv, Typed, Audited
<1> HIDE DEF store
<1>3. /\ "source_audit" \in CommitSteps /\ "checksum" \in CommitSteps
      /\ Place("source_audit") < Place("checksum")
  BY PlacesInOrder DEF CommitSteps
<1> QED  BY <1>1, <1>2, <1>3, PlaceAside

LEMMA AddEvidenceGoesOn ==
  ASSUME ChainInv, BackInv, NamesInv, FindsInv, NEW c \in Clerks, AddEvidence(c)
  PROVE  GoesOn
<1> DEFINE store == InsertEvidence(db, job[c].number, job[c].row, job[c].finding)
<1>1. Step(c, "evidence", [job[c] EXCEPT !.at = "evidence_audit"], store)
  BY DEF AddEvidence
<1>2. store.sources = db.sources
  BY DEF BackInv, Typed, InsertEvidence
<1> HIDE DEF store
<1>3. /\ "evidence" \in CommitSteps /\ "evidence_audit" \in CommitSteps
      /\ Place("evidence") < Place("evidence_audit")
  BY PlacesInOrder DEF CommitSteps
<1> QED  BY <1>1, <1>2, <1>3, PlaceAside

LEMMA AuditEvidenceGoesOn ==
  ASSUME ChainInv, BackInv, NamesInv, FindsInv, NEW c \in Clerks, AuditEvidence(c)
  PROVE  GoesOn
<1> DEFINE store == Audited(db, "evidence.created", job[c].number)
<1>1. Step(c, "evidence_audit", [job[c] EXCEPT !.at = "commit"], store)
  BY DEF AuditEvidence
<1>2. store.sources = db.sources
  BY DEF BackInv, Typed, Audited
<1> HIDE DEF store
<1>3. /\ "evidence_audit" \in CommitSteps /\ "commit" \in CommitSteps
      /\ Place("evidence_audit") < Place("commit")
  BY PlacesInOrder DEF CommitSteps
<1> QED  BY <1>1, <1>2, <1>3, PlaceAside

LEMMA DrawNumberGoesOn ==
  ASSUME ChainInv, BackInv, NamesInv, FindsInv, NEW c \in Clerks, DrawNumber(c)
  PROVE  GoesOn
<1> DEFINE number == Issued(db, "evidence")
           store == Issue(db, "evidence")
           next == [job[c] EXCEPT !.at = "evidence", !.number = number]
<1>1. Step(c, "number", next, store) /\ job[c].at = "number"
  BY DEF DrawNumber, Step
<1>2. store.sources = db.sources
  BY DEF BackInv, Typed, Issue
<1>3. /\ "number" \in CommitSteps /\ "evidence" \in CommitSteps
      /\ Place("number") < Place("evidence")
  BY PlacesInOrder DEF CommitSteps
<1>4. DOMAIN job[c] = JobFields
  BY <1>1, <1>3, JobsOfCommits
<1> HIDE DEF number
<1>5. Onward(job[c], next) /\ next.at = "evidence"
  BY <1>1, <1>3, <1>4, NumberGoesOn
<1> HIDE DEF next, store
<1>6. next.at # "find_again"
  BY <1>5
<1> QED  BY <1>1, <1>2, <1>3, <1>5, <1>6, AsideGoesOn

LEMMA IdleIsOutside == Idle.at \notin CommitSteps
BY DEF Idle, CommitSteps

LEMMA SubjectUnknownGoesOn ==
  ASSUME ChainInv, NamesInv, FindsInv, NEW c \in Clerks, SubjectUnknown(c)
  PROVE  GoesOn
<1>1. job' = [job EXCEPT ![c] = Idle] /\ db' = db /\ begun' = begun /\ files' = files
  BY DEF SubjectUnknown, Step
<1> QED  BY <1>1, IdleIsOutside, OutsideGoesOn

\* The commit takes its name, which no other clerk has.
LEMMA SaveCommitGoesOn ==
  ASSUME ChainInv, NamesInv, FindsInv, NEW c \in Clerks, NEW cut \in BOOLEAN,
         SaveCommit(c, cut)
  PROVE  GoesOn
<1> DEFINE name == job[c].evidence
           body == [finding |-> job[c].finding, source |-> job[c].source,
                    review |-> job[c].review, number |-> job[c].number]
<1>1. Save(c, cut, "commits", name, body, memory[c], Idle)
  BY DEF SaveCommit
<1>2. db' = db /\ begun' = begun /\ job[c].at \in CommitSteps
  BY DEF SaveCommit, CommitSteps
<1>3. job' = [job EXCEPT ![c] = Idle]
  BY <1>1 DEF Save
<1>4. files'.commits = Written(files.commits, name, IF cut THEN Torn ELSE body)
  BY <1>1 DEF Save, ChainInv, Kinds
<1>5. DOMAIN files'.commits = DOMAIN files.commits \union {name}
  BY <1>4 DEF Written
<1>6. name \in 1..begun
  BY <1>2 DEF NamesInv, OwnName
<1>7. job'[c] = Idle /\ \A d \in Clerks \ {c} : job'[d] = job[d]
  BY <1>3 DEF ChainInv
<1> HIDE DEF name, body
<1>8. \A d \in Clerks \ {c} : job[d].at \in CommitSteps => job[d].evidence # name
  BY <1>2 DEF NamesInv, name
<1>9. ASSUME NEW d \in Clerks PROVE OwnName(job'[d], begun', DOMAIN files'.commits)
  <2>1. CASE d = c
    BY <1>7, <2>1, IdleIsOutside DEF OwnName
  <2>2. CASE d # c
    <3>1. OwnName(job[d], begun, DOMAIN files.commits)
      BY DEF NamesInv
    <3> QED  BY <1>2, <1>5, <1>7, <1>8, <2>2, <3>1 DEF OwnName
  <2> QED  BY <2>1, <2>2
<1>10. \A a, d \in Clerks :
         job'[a].at \in CommitSteps /\ job'[d].at \in CommitSteps /\ a # d =>
           job'[a].evidence # job'[d].evidence
  BY <1>7, IdleIsOutside DEF NamesInv
<1>11. begun' \in Nat /\ DOMAIN files'.commits \subseteq 1..begun'
  BY <1>2, <1>5, <1>6 DEF NamesInv
<1>12. NamesInv'
  BY <1>9, <1>10, <1>11 DEF NamesInv
<1>13. HashedStay /\ Finds(db', Idle)
  BY <1>2 DEF HashedStay, Finds, Idle
<1>14. FindsInv'
  BY <1>3, <1>13, FindsFrame
<1>15. CommitsGoForward
  BY <1>3, ForwardFrame
<1> QED  BY <1>12, <1>14, <1>15 DEF GoesOn

\* A commit is begun under a name nobody has.
LEMMA BeginCommitGoesOn ==
  ASSUME ChainInv, NamesInv, FindsInv, NEW c \in Clerks, NEW object, NEW review,
         BeginCommit(c, object, review)
  PROVE  GoesOn
<1> DEFINE next == [at |-> "find", finding |-> object.finding,
                    source |-> object.source, review |-> review,
                    evidence |-> begun + 1, row |-> 0, number |-> 0]
<1>1. /\ db' = db /\ files' = files /\ begun' = begun + 1
      /\ job' = [job EXCEPT ![c] = next] /\ job[c].at = "idle"
  BY DEF BeginCommit, Paired, Begin
<1>2. next.at = "find" /\ next.evidence = begun + 1
  OBVIOUS
<1> HIDE DEF next
<1>3. job'[c] = next /\ \A d \in Clerks \ {c} : job'[d] = job[d]
  BY <1>1 DEF ChainInv
<1>4. begun \in Nat /\ DOMAIN files.commits \subseteq 1..begun
  BY DEF NamesInv
<1>5. \A n \in 1..begun : n \in 1..begun + 1 /\ n # begun + 1
  BY <1>4
<1>6. begun + 1 \in 1..begun + 1 /\ begun + 1 \notin DOMAIN files.commits
  BY <1>4, <1>5
<1>7. \A d \in Clerks : job[d].at \in CommitSteps =>
        job[d].evidence \in 1..begun /\ job[d].evidence \notin DOMAIN files.commits
  BY DEF NamesInv, OwnName
<1>8. ASSUME NEW d \in Clerks PROVE OwnName(job'[d], begun', DOMAIN files'.commits)
  <2>1. CASE d = c
    BY <1>1, <1>2, <1>3, <1>6, <2>1 DEF OwnName
  <2>2. CASE d # c
    BY <1>1, <1>3, <1>5, <1>7, <2>2 DEF OwnName
  <2> QED  BY <2>1, <2>2
<1>9. \A a, d \in Clerks :
        job'[a].at \in CommitSteps /\ job'[d].at \in CommitSteps /\ a # d =>
          job'[a].evidence # job'[d].evidence
  <2>1. \A d \in Clerks \ {c} : job[d].at \in CommitSteps => job[d].evidence # next.evidence
    BY <1>2, <1>5, <1>7
  <2> QED  BY <1>3, <2>1 DEF NamesInv
<1>10. begun' \in Nat /\ DOMAIN files'.commits \subseteq 1..begun'
  BY <1>1, <1>4, <1>5
<1>11. NamesInv'
  BY <1>8, <1>9, <1>10 DEF NamesInv
<1>12. HashedStay /\ Finds(db', next)
  BY <1>1, <1>2 DEF HashedStay, Finds
<1>13. FindsInv'
  BY <1>1, <1>12, FindsFrame
<1>14. job[c].at \notin CommitSteps
  BY <1>1 DEF CommitSteps
<1>15. CommitsGoForward
  BY <1>1, <1>14, ForwardFrame
<1> QED  BY <1>11, <1>13, <1>15 DEF GoesOn

\* A clerk that is in no commit writes another file.
LEMMA FilingGoesOn ==
  ASSUME ChainInv, NamesInv, FindsInv, NEW c \in Clerks, NEW kind \in Kinds \ {"commits"},
         NEW cut \in BOOLEAN, NEW name, NEW body, NEW holds, NEW next,
         next.at \notin CommitSteps, job[c].at \notin CommitSteps,
         Save(c, cut, kind, name, body, holds, next), db' = db, begun' = begun
  PROVE  GoesOn
<1> DEFINE then == IF cut THEN Idle ELSE next
<1>1. job' = [job EXCEPT ![c] = then]
  BY DEF Save
<1>2. then.at \notin CommitSteps
  BY IdleIsOutside
<1>3. files'.commits = files.commits
  BY DEF Save, ChainInv, Kinds
<1> HIDE DEF then
<1> QED  BY <1>1, <1>2, <1>3, OutsideGoesOn

LEMMA FilesGoOn ==
  ASSUME ChainInv, NamesInv, FindsInv, NEW c \in Clerks, NEW cut \in BOOLEAN,
         \/ \E s \in Sources : \/ AdmitSource(c, s, cut)
                               \/ RejectSource(c, s, cut)
                               \/ \E f \in Findings : CreateFinding(c, s, f, cut)
         \/ SaveReceipt(c, cut)
         \/ \E object \in memory[c].findings, r \in Reviewers, decision \in Decisions :
              Review(c, object, r, decision, cut)
  PROVE  GoesOn
<1>1. PICK kind, name, body, holds, next :
        /\ kind \in Kinds \ {"commits"}
        /\ next.at \notin CommitSteps /\ job[c].at \notin CommitSteps
        /\ Save(c, cut, kind, name, body, holds, next)
        /\ db' = db /\ begun' = begun
  <2>1. ASSUME NEW s \in Sources, AdmitSource(c, s, cut) \/ RejectSource(c, s, cut)
        PROVE  /\ \E body, holds : Save(c, cut, "sources", s, body, holds, Idle)
               /\ db' = db /\ begun' = begun /\ job[c].at = "idle"
    BY <2>1 DEF AdmitSource, RejectSource
  <2>2. ASSUME NEW s \in Sources, NEW f \in Findings, CreateFinding(c, s, f, cut)
        PROVE  /\ Save(c, cut, "findings", f, s, memory[c],
                       [at |-> "receipt", finding |-> f, source |-> s])
               /\ db' = db /\ begun' = begun /\ job[c].at = "idle"
    BY <2>2 DEF CreateFinding
  <2>3. ASSUME SaveReceipt(c, cut)
        PROVE  /\ \E name, body, holds : Save(c, cut, "receipts", name, body, holds, Idle)
               /\ db' = db /\ begun' = begun /\ job[c].at = "receipt"
    BY <2>3 DEF SaveReceipt
  <2>4. ASSUME NEW object, NEW r, NEW decision, Review(c, object, r, decision, cut)
        PROVE  /\ \E name, body, holds : Save(c, cut, "reviews", name, body, holds, Idle)
               /\ db' = db /\ begun' = begun /\ job[c].at = "idle"
    BY <2>4 DEF Review
  <2>5. /\ "idle" \notin CommitSteps /\ "receipt" \notin CommitSteps
        /\ \A s, f : [at |-> "receipt", finding |-> f, source |-> s].at \notin CommitSteps
    BY DEF CommitSteps
  <2> QED  BY <2>1, <2>2, <2>3, <2>4, <2>5, IdleIsOutside DEF Kinds
<1> QED  BY <1>1, FilingGoesOn

LEMMA EveryStepGoesOn ==
  ASSUME ChainInv, BackInv, NamesInv, FindsInv, [Next]_vars
  PROVE  GoesOn
<1>1. ASSUME NEW c \in Clerks, NEW s \in Sources, NEW cut \in Cuts,
             \/ AdmitSource(c, s, cut)
             \/ RejectSource(c, s, cut)
             \/ \E f \in Findings : CreateFinding(c, s, f, cut)
      PROVE  GoesOn
  BY <1>1, CutsAreBoolean, FilesGoOn
<1>2. ASSUME NEW c \in Clerks, NEW cut \in Cuts, SaveReceipt(c, cut) \/ SaveCommit(c, cut)
      PROVE  GoesOn
  BY <1>2, CutsAreBoolean, FilesGoOn, SaveCommitGoesOn
<1>3. ASSUME NEW c \in Clerks, NEW object \in memory[c].findings,
             \/ \E r \in Reviewers, decision \in Decisions, cut \in Cuts :
                  Review(c, object, r, decision, cut)
             \/ \E review \in memory[c].reviews : BeginCommit(c, object, review)
      PROVE  GoesOn
  BY <1>3, CutsAreBoolean, FilesGoOn, BeginCommitGoesOn
<1>4. ASSUME NEW c \in Clerks, CommitStep(c)
      PROVE  GoesOn
  BY <1>4, FindingGoesOn, CreateSourceGoesOn, AuditSourceGoesOn, RecordChecksumGoesOn,
     DrawNumberGoesOn, AddEvidenceGoesOn, SubjectUnknownGoesOn, AuditEvidenceGoesOn,
     SaveCommitGoesOn DEF CommitStep
<1>5. ASSUME NEW c \in Clerks, Raise(c) \/ Die(c)
      PROVE  GoesOn
  <2>1. /\ db' = db /\ files' = files /\ begun' = begun
        /\ job' = [job EXCEPT ![c] = Idle]
    BY <1>5 DEF Raise, Die
  <2> QED  BY <2>1, IdleIsOutside, OutsideGoesOn
<1>6. ASSUME job' = job, db' = db, files' = files, begun' = begun
      PROVE  GoesOn
  BY <1>6 DEF GoesOn, NamesInv, FindsInv, CommitsGoForward
<1>7. ASSUME NEW r \in Reviewers, Lapse(r)
      PROVE  GoesOn
  BY <1>6, <1>7 DEF Lapse
<1>8. CASE UNCHANGED vars
  BY <1>6, <1>8 DEF vars
<1> QED  BY <1>1, <1>2, <1>3, <1>4, <1>5, <1>7, <1>8 DEF Next

LEMMA NamesAtFirst == Init => NamesInv /\ FindsInv
<1> SUFFICES ASSUME Init PROVE NamesInv /\ FindsInv
  OBVIOUS
<1>1. \A c \in Clerks : job[c].at = "idle"
  BY DEF Init, Idle
<1>2. begun = 0 /\ DOMAIN files.commits = {}
  BY DEF Init
<1> QED  BY <1>1, <1>2 DEF NamesInv, FindsInv, OwnName, Finds, CommitSteps

LEMMA NamesNeverWait ==
  ASSUME NamesInv, FindsInv
  PROVE  CommitsNeverWait
<1>1. ASSUME NEW c \in Clerks, job[c].at = "find_again"
      PROVE  Matches(c) # {}
  <2>1. PICK row \in DOMAIN db.sources :
          HasRow(db, row, Url[job[c].source], Content[job[c].source])
    BY <1>1 DEF FindsInv, Finds
  <2> QED  BY <2>1 DEF HasRow, Matches, SourcesOf
<1>2. ASSUME NEW c \in Clerks, job[c].at = "commit"
      PROVE  job[c].evidence \notin DOMAIN files.commits
  BY <1>2 DEF NamesInv, OwnName, CommitSteps
<1> QED  BY <1>1, <1>2 DEF CommitsNeverWait

\* A commit under way, among those of any number of clerks, never goes back a
\* step, never takes up another finding, and never meets a store that stops it:
\* its source is found again once it is hashed, and its file can be written.
\* So it is made or meets a fault or an unknown subject as soon as its clerk
\* takes its steps (registry_adapter.py create_evidence, evidence_service.py
\* commit_evidence).
THEOREM CommitsProceed ==
  ASSUME ReviewsAreWhole
  PROVE  Spec => []CommitsNeverWait /\ [][CommitsGoForward]_vars
<1> DEFINE I == ChainInv /\ BackInv /\ NamesInv /\ FindsInv
<1>1. Init => I
  BY InitChain, InitBacked, NamesAtFirst
<1>2. I /\ [Next]_vars => I' /\ CommitsGoForward
  BY StepKeepsChain, StepKeepsBacked, EveryStepGoesOn DEF GoesOn
<1>3. I => CommitsNeverWait
  BY NamesNeverWait
<1> HIDE DEF I
<1> QED  BY <1>1, <1>2, <1>3, PTL DEF Spec
=============================================================================
