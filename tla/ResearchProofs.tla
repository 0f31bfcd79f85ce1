--------------------------- MODULE ResearchProofs ---------------------------
(***************************************************************************)
(* Theorems about research acquisition and its handoff, for any catalog,   *)
(* any plans, and any number of runs, errors and deaths.                   *)
(***************************************************************************)
EXTENDS ResearchProperties, FiniteSetTheorems, SequenceTheorems, TLAPS

-----------------------------------------------------------------------------
(* What a plan takes of the catalog.                                       *)

TakenBy(p) ==
  LET ranked == Ranked(Matching[p])
  IN  IF Len(ranked) > MaximumSources THEN SubSeq(ranked, 1, MaximumSources)
      ELSE ranked

Taken(p) == {TakenBy(p)[i] : i \in 1..Len(TakenBy(p))}

LEMMA TakenIsBounded ==
  ASSUME NEW p \in Plans
  PROVE  /\ TakenBy(p) \in Seq(Taken(p))
         /\ IsFiniteSet(Taken(p)) /\ Cardinality(Taken(p)) <= MaximumSources
<1> DEFINE S == Matching[p]
           n == Cardinality(S)
           ranked == Ranked(S)
           s == TakenBy(p)
<1>1. S \subseteq Entries /\ IsFiniteSet(Entries) /\ MaximumSources \in Nat \ {0}
  BY ResearchAssumption
<1>2. IsFiniteSet(S) /\ n \in Nat
  BY <1>1, FS_Subset, FS_CardinalityType
<1>3. PICK T : \A i \in 1..n : ranked[i] \in T
  <2>1. \A i \in 1..n : ranked[i] \in {ranked[j] : j \in 1..n}
    OBVIOUS
  <2> QED  BY <2>1
<1>4. ranked \in Seq(T) /\ Len(ranked) = n
  <2> DEFINE at(i) == CHOOSE e \in S :
                        Cardinality({d \in S : Authority[d] > Authority[e]}) = i - 1
  <2>1. ranked = [i \in 1..n |-> at(i)]
    BY DEF Ranked
  <2> HIDE DEF at, ranked, n, S
  <2>2. \A i \in 1..n : at(i) \in T
    BY <1>3, <2>1
  <2> QED  BY <1>2, <2>1, <2>2
<1> HIDE DEF ranked, n, S
<1>5. /\ s \in Seq(T) /\ Len(s) <= MaximumSources
      /\ Len(s) \in Nat
  <2>1. CASE Len(ranked) > MaximumSources
    <3>1. s = SubSeq(ranked, 1, MaximumSources)
      BY <2>1 DEF TakenBy, ranked, S
    <3> QED  BY <1>1, <1>2, <1>4, <2>1, <3>1
  <2>2. CASE ~(Len(ranked) > MaximumSources)
    <3>1. s = ranked
      BY <2>2 DEF TakenBy, ranked, S
    <3> QED  BY <1>1, <1>2, <1>4, <2>2, <3>1
  <2> QED  BY <2>1, <2>2
<1>6. Taken(p) = {s[i] : i \in 1..Len(s)}
  BY DEF Taken
<1> HIDE DEF s
<1>7. s \in Seq(Taken(p))
  BY <1>5, <1>6
<1>8. IsFiniteSet(Taken(p)) /\ Cardinality(Taken(p)) <= Len(s)
  <2> DEFINE f == [i \in 1..Len(s) |-> s[i]]
  <2>1. f \in Surjection(1..Len(s), Taken(p))
    BY <1>6 DEF Surjection
  <2>2. IsFiniteSet(1..Len(s)) /\ Cardinality(1..Len(s)) = Len(s)
    <3>1. 1 \in Int /\ Len(s) \in Int /\ ~(1 > Len(s) /\ Len(s) # 0)
      BY <1>5
    <3>2. /\ IsFiniteSet(1..Len(s))
          /\ Cardinality(1..Len(s)) = IF 1 > Len(s) THEN 0 ELSE Len(s) - 1 + 1
      BY <3>1, FS_Interval
    <3> QED  BY <1>5, <3>1, <3>2
  <2> HIDE DEF f
  <2> QED  BY <2>1, <2>2, FS_Surjection
<1>9. Cardinality(Taken(p)) \in Nat
  BY <1>8, FS_CardinalityType
<1> QED  BY <1>1, <1>5, <1>7, <1>8, <1>9 DEF s

-----------------------------------------------------------------------------
(* The inductive invariant: what the files say together, and what the job  *)
(* in memory may rely on.                                                  *)

FilesShape ==
  /\ DOMAIN files = Directories
  /\ \A kind \in Directories : IsFiniteSet(DOMAIN files[kind])

CandidatesTaken ==
  /\ \A id \in Readable(files.candidates) :
       LET candidate == files.candidates[id]
       IN  /\ candidate = [plan |-> candidate.plan, entry |-> candidate.entry]
           /\ candidate.entry \in Taken(candidate.plan)
  /\ \A a, b \in Readable(files.candidates) :
       files.candidates[a] = files.candidates[b] => a = b

OneDocumentPerContent ==
  \A c, d \in Readable(files.documents) :
    files.documents[c].content = files.documents[d].content => c = d

\* Content goes to the evidence lifecycle in a document.
AdmittedFromDocuments ==
  \A a \in Readable(files.admitted) :
    \E d \in Readable(files.documents) : files.documents[d].content = files.admitted[a]

FilesInv ==
  /\ FilesShape /\ CandidatesTaken /\ OneDocumentPerContent /\ AdmittedFromDocuments
  /\ ReceiptsAreTrue /\ HandoffsAreBacked

NotAdmitted(content) ==
  \A a \in Readable(files.admitted) : files.admitted[a] # content

ReceiptOf(d) ==
  [source |-> files.documents[d].source, status |-> "RETRIEVED",
   of |-> files.documents[d].content]

RunFields == {"at", "plan", "bridge", "given", "served", "todo", "found", "documents",
              "admitted"}

\* The documents of a run are on file and have their receipts, and the
\* content of those from a position on was not admitted.
Holds(run, from) ==
  /\ DOMAIN run = RunFields /\ run.plan \in Plans
  /\ run.documents \in Seq(Readable(files.documents))
  /\ \A i, k \in 1..Len(run.documents) :
       run.documents[i] = run.documents[k] => i = k
  /\ \A i \in 1..Len(run.documents) :
       /\ ReceiptOf(run.documents[i]) \in Retrieved
       /\ files.receipts[ReceiptOf(run.documents[i])] = run.documents[i]
       /\ i >= from => NotAdmitted(files.documents[run.documents[i]].content)

RunSteps == {"plan", "discover", "acquire", "hand_over"}

Working(j) ==
  /\ j.at \in RunSteps
  /\ Holds(j, 1)
  /\ j.at = "discover" => j.todo \in Seq(Taken(j.plan))

\* A document was admitted, and its handoff has no receipt yet.
HandingBack(j) ==
  /\ j.at = "handed_over"
  /\ Holds(j, 2)
  /\ j.documents # <<>> /\ files.documents[Head(j.documents)].media = "text"
  /\ j.admitted \in Readable(files.admitted)
  /\ files.admitted[j.admitted] = files.documents[Head(j.documents)].content

\* A document is on its way: its content is on file, then its metadata.
Writing(j) ==
  /\ j.at \in {"metadata", "receipt"}
  /\ DOMAIN j = {"at", "document", "content", "media", "then"}
  /\ Holds(j.then, 1)
  /\ j.document \in Nat /\ j.content \in Contents
  /\ j.document \in DOMAIN files.contents
  /\ files.contents[j.document] = j.content
  /\ NotAdmitted(j.content)
  /\ j.at = "metadata" => DocumentsWith(j.content) = {}
  /\ j.at = "receipt" =>
       /\ j.document \in Readable(files.documents)
       /\ files.documents[j.document] =
            [source |-> Head(j.then.todo), content |-> j.content, media |-> j.media]
       /\ \A i \in 1..Len(j.then.documents) : j.then.documents[i] # j.document

Held(j) == j = Idle \/ Working(j) \/ HandingBack(j) \/ Writing(j)

JobInv == Held(job)

ResearchInv == FilesInv /\ JobInv

-----------------------------------------------------------------------------
(* What a write does to the files.                                         *)

\* What is written whole is never what a torn file holds.
WritesAreWhole ==
  /\ Torn \notin Contents /\ Torn \notin Nat
  /\ \A s, c, m : [source |-> s, content |-> c, media |-> m] # Torn
  /\ \A d, s, r : [document |-> d, source |-> s, receipt |-> r] # Torn

LEMMA SaveWrites ==
  ASSUME FilesShape, NEW kind \in Directories, NEW name, NEW body, NEW next,
         Save(kind, name, body, FALSE, next)
  PROVE  /\ FilesShape'
         /\ \A k \in Directories : k # kind => files'[k] = files[k]
         /\ name \notin DOMAIN files[kind]
         /\ DOMAIN files'[kind] = DOMAIN files[kind] \union {name}
         /\ \A n \in DOMAIN files[kind] : files'[kind][n] = files[kind][n]
         /\ files'[kind][name] = body
         /\ job' = next /\ faults' = faults
<1> DEFINE written == Written(files[kind], name, body)
<1>1. files' = [files EXCEPT ![kind] = written] /\ name \notin DOMAIN files[kind]
  BY DEF Save
<1>2. DOMAIN files' = Directories /\ files'[kind] = written
      /\ \A k \in Directories : k # kind => files'[k] = files[k]
  BY <1>1 DEF FilesShape
<1>3. /\ DOMAIN written = DOMAIN files[kind] \union {name}
      /\ written[name] = body
      /\ \A n \in DOMAIN files[kind] : written[n] = files[kind][n]
  BY <1>1 DEF Written
<1> HIDE DEF written
<1>4. IsFiniteSet(DOMAIN files'[kind])
  BY <1>2, <1>3, FS_AddElement DEF FilesShape
<1>5. FilesShape'
  BY <1>2, <1>4 DEF FilesShape
<1> QED  BY <1>1, <1>2, <1>3, <1>5 DEF Save

\* A writer that dies leaves a torn file and no job.
LEMMA CutWrites ==
  ASSUME FilesShape, NEW kind \in Directories, NEW name, NEW body, NEW next,
         Save(kind, name, body, TRUE, next)
  PROVE  /\ FilesShape'
         /\ \A k \in Directories : k # kind => files'[k] = files[k]
         /\ name \notin DOMAIN files[kind]
         /\ DOMAIN files'[kind] = DOMAIN files[kind] \union {name}
         /\ \A n \in DOMAIN files[kind] : files'[kind][n] = files[kind][n]
         /\ files'[kind][name] = Torn
         /\ job' = Idle /\ faults' = faults + 1
<1> DEFINE written == Written(files[kind], name, Torn)
<1>1. files' = [files EXCEPT ![kind] = written] /\ name \notin DOMAIN files[kind]
  BY DEF Save
<1>2. DOMAIN files' = Directories /\ files'[kind] = written
      /\ \A k \in Directories : k # kind => files'[k] = files[k]
  BY <1>1 DEF FilesShape
<1>3. /\ DOMAIN written = DOMAIN files[kind] \union {name}
      /\ written[name] = Torn
      /\ \A n \in DOMAIN files[kind] : written[n] = files[kind][n]
  BY <1>1 DEF Written
<1> HIDE DEF written
<1>4. IsFiniteSet(DOMAIN files'[kind])
  BY <1>2, <1>3, FS_AddElement DEF FilesShape
<1>5. FilesShape'
  BY <1>2, <1>4 DEF FilesShape
<1> QED  BY <1>1, <1>2, <1>3, <1>5 DEF Save

LEMMA SaveReads ==
  ASSUME FilesShape, NEW kind \in Directories, NEW name, NEW body, NEW next,
         Save(kind, name, body, FALSE, next), body # Torn
  PROVE  /\ Readable(files'[kind]) = Readable(files[kind]) \union {name}
         /\ name \notin Readable(files[kind])
         /\ \A n \in Readable(files[kind]) : files'[kind][n] = files[kind][n]
<1>1. /\ name \notin DOMAIN files[kind]
      /\ DOMAIN files'[kind] = DOMAIN files[kind] \union {name}
      /\ \A n \in DOMAIN files[kind] : files'[kind][n] = files[kind][n]
      /\ files'[kind][name] = body
  BY SaveWrites
<1> QED  BY <1>1 DEF Readable

\* The two in a form to cite for a directory by its name.
Puts(kind, name, body) ==
  /\ DOMAIN files'[kind] = DOMAIN files[kind] \union {name}
  /\ files'[kind][name] = body
  /\ \A n \in DOMAIN files[kind] : files'[kind][n] = files[kind][n]
  /\ name \notin DOMAIN files[kind]
  /\ \A k \in Directories : k # kind => files'[k] = files[k]

Gains(kind, name) ==
  /\ Readable(files'[kind]) = Readable(files[kind]) \union {name}
  /\ name \notin Readable(files[kind])
  /\ \A n \in Readable(files[kind]) : files'[kind][n] = files[kind][n]

LEMMA SavePuts ==
  ASSUME FilesShape, NEW kind \in Directories, NEW name, NEW body, NEW next,
         Save(kind, name, body, FALSE, next)
  PROVE  Puts(kind, name, body)
BY SaveWrites DEF Puts

LEMMA SaveGains ==
  ASSUME FilesShape, NEW kind \in Directories, NEW name, NEW body, NEW next,
         Save(kind, name, body, FALSE, next), body # Torn
  PROVE  Gains(kind, name)
BY SaveReads DEF Gains

LEMMA DirectoryNames ==
  /\ "plans" \in Directories /\ "candidates" \in Directories /\ "contents" \in Directories
  /\ "documents" \in Directories /\ "receipts" \in Directories
  /\ "admitted" \in Directories /\ "handoffs" \in Directories
BY DEF Directories

-----------------------------------------------------------------------------
(* What each part of the invariant needs of the files to survive a step:   *)
(* that a directory reads the same, or that it only grows.                 *)

Reads(kind) ==
  /\ Readable(files'[kind]) = Readable(files[kind])
  /\ \A n \in Readable(files[kind]) : files'[kind][n] = files[kind][n]

Grows(kind) ==
  \A n \in Readable(files[kind]) :
    n \in Readable(files'[kind]) /\ files'[kind][n] = files[kind][n]

LEMMA WhatReadsGrows ==
  ASSUME NEW kind, Reads(kind)
  PROVE  Grows(kind)
BY DEF Reads, Grows

LEMMA CandidatesKept ==
  ASSUME CandidatesTaken, Reads("candidates")
  PROVE  CandidatesTaken'
BY DEF CandidatesTaken, Reads

LEMMA DocumentsKept ==
  ASSUME OneDocumentPerContent, Reads("documents")
  PROVE  OneDocumentPerContent'
BY DEF OneDocumentPerContent, Reads

LEMMA AdmittedKept ==
  ASSUME AdmittedFromDocuments, Reads("admitted"), Grows("documents")
  PROVE  AdmittedFromDocuments'
BY DEF AdmittedFromDocuments, Reads, Grows

LEMMA RetrievedGrows ==
  ASSUME Grows("receipts")
  PROVE  \A name \in Retrieved :
           name \in Retrieved' /\ files'.receipts[name] = files.receipts[name]
BY DEF Retrieved, Grows

LEMMA ReceiptsKept ==
  ASSUME ReceiptsAreTrue, Reads("receipts"), Grows("documents"), Grows("contents")
  PROVE  ReceiptsAreTrue'
<1>1. Retrieved' = Retrieved
  BY DEF Retrieved, Reads
<1>2. Retrieved \subseteq Readable(files.receipts)
  BY DEF Retrieved
<1> QED  BY <1>1, <1>2 DEF ReceiptsAreTrue, Reads, Grows

\* What makes a handoff backed.
Backed(id) ==
  LET handoff == files.handoffs[id]
  IN /\ handoff.receipt \in Retrieved
     /\ files.receipts[handoff.receipt] = handoff.document
     /\ files.documents[handoff.document].media = "text"
     /\ handoff.source \in Readable(files.admitted)
     /\ files.admitted[handoff.source] = files.documents[handoff.document].content

LEMMA BackedStays ==
  ASSUME ReceiptsAreTrue, HandoffsAreBacked, Grows("receipts"), Grows("documents"),
         Grows("admitted"), NEW id \in Readable(files.handoffs),
         files'.handoffs[id] = files.handoffs[id]
  PROVE  Backed(id)'
<1>1. \A name \in Retrieved :
        /\ name \in Retrieved' /\ files'.receipts[name] = files.receipts[name]
        /\ files.receipts[name] \in Readable(files.documents)
  BY RetrievedGrows DEF ReceiptsAreTrue
<1> DEFINE handoff == files.handoffs[id]
<1>2. /\ handoff.receipt \in Retrieved
      /\ files.receipts[handoff.receipt] = handoff.document
      /\ files.documents[handoff.document].media = "text"
      /\ handoff.source \in Readable(files.admitted)
      /\ files.admitted[handoff.source] = files.documents[handoff.document].content
  BY DEF HandoffsAreBacked
<1>3. files'.handoffs[id] = handoff
  OBVIOUS
<1> HIDE DEF handoff
<1>4. handoff.document \in Readable(files.documents)
  BY <1>1, <1>2
<1> QED  BY <1>1, <1>2, <1>3, <1>4 DEF Grows, Backed

LEMMA HandoffsKept ==
  ASSUME ReceiptsAreTrue, HandoffsAreBacked, Reads("handoffs"), Grows("receipts"),
         Grows("documents"), Reads("admitted")
  PROVE  HandoffsAreBacked'
<1>1. \A id \in Readable(files.handoffs)' : Backed(id)'
  BY BackedStays, WhatReadsGrows DEF Reads
<1>2. \A a, b \in Readable(files.admitted)' :
        files'.admitted[a] = files'.admitted[b] => a = b
  BY DEF HandoffsAreBacked, Reads
<1> QED  BY <1>1, <1>2 DEF HandoffsAreBacked, Backed

\* A run's documents stay what they are while none of them is admitted.
LEMMA HoldsStays ==
  ASSUME NEW run, NEW from, Holds(run, from), Grows("documents"), Grows("receipts"),
         Reads("admitted")
  PROVE  Holds(run, from)'
<1>1. \A name \in Retrieved :
        name \in Retrieved' /\ files'.receipts[name] = files.receipts[name]
  BY RetrievedGrows
<1>2. \A content : NotAdmitted(content) => NotAdmitted(content)'
  BY DEF NotAdmitted, Reads
<1> DEFINE documents == run.documents
<1>3. /\ documents \in Seq(Readable(files.documents))
      /\ \A i \in 1..Len(documents) : documents[i] \in Readable(files.documents)
  BY DEF Holds
<1>4. \A i \in 1..Len(documents) : documents[i] \in Readable(files.documents)'
                                    /\ files'.documents[documents[i]] = files.documents[documents[i]]
  BY <1>3 DEF Grows
<1>5. documents \in Seq(Readable(files.documents)')
  BY <1>3, <1>4
<1>6. \A i \in 1..Len(documents) : ReceiptOf(documents[i])' = ReceiptOf(documents[i])
  BY <1>4 DEF ReceiptOf
<1>7. ASSUME NEW i \in 1..Len(documents)
      PROVE  /\ ReceiptOf(documents[i])' \in Retrieved'
             /\ files'.receipts[ReceiptOf(documents[i])'] = documents[i]
             /\ i >= from => NotAdmitted(files.documents[documents[i]].content)'
  <2>1. /\ ReceiptOf(documents[i]) \in Retrieved
        /\ files.receipts[ReceiptOf(documents[i])] = documents[i]
        /\ i >= from => NotAdmitted(files.documents[documents[i]].content)
    BY DEF Holds
  <2>2. /\ ReceiptOf(documents[i])' \in Retrieved'
        /\ files'.receipts[ReceiptOf(documents[i])'] = documents[i]
    BY <1>1, <1>6, <2>1
  <2>3. PICK content : content = files.documents[documents[i]].content
    OBVIOUS
  <2>4. i >= from => NotAdmitted(content)'
    BY <1>2, <2>1, <2>3
  <2> QED  BY <1>4, <2>2, <2>3, <2>4 DEF NotAdmitted
<1> QED  BY <1>5, <1>7 DEF Holds

\* A run is what it was: its steps leave its plan and its documents.
LEMMA HoldsFollows ==
  ASSUME NEW run, NEW next, NEW from, Holds(run, from), DOMAIN next = DOMAIN run,
         next.plan = run.plan, next.documents = run.documents
  PROVE  Holds(next, from)
BY DEF Holds

LEMMA ReadsTheSame ==
  ASSUME FilesInv, FilesShape', \A kind \in Directories \ {"plans"} : Reads(kind)
  PROVE  FilesInv'
<1>1. \A kind \in Directories \ {"plans"} : Grows(kind)
  BY WhatReadsGrows
<1> QED  BY <1>1, CandidatesKept, DocumentsKept, AdmittedKept, ReceiptsKept, HandoffsKept
         DEF FilesInv, Directories

LEMMA CutKeeps ==
  ASSUME ResearchInv, NEW kind \in Directories, NEW name, NEW body,
         NEW next, Save(kind, name, body, TRUE, next)
  PROVE  ResearchInv'
<1>1. FilesShape
  BY DEF ResearchInv, FilesInv
<1>2. FilesShape' /\ job' = Idle /\ \A k \in Directories : k # kind => files'[k] = files[k]
  BY <1>1, CutWrites
<1>3. Reads(kind)
  BY <1>1, CutWrites DEF Reads, Readable
<1>4. \A k \in Directories : Reads(k)
  BY <1>2, <1>3 DEF Reads
<1>5. FilesInv'
  BY <1>2, <1>4, ReadsTheSame DEF ResearchInv
<1>6. JobInv'
  BY <1>2 DEF JobInv, Held, Idle
<1> QED  BY <1>5, <1>6 DEF ResearchInv

-----------------------------------------------------------------------------
(* The steps that write nothing.                                           *)

LEMMA FilesStay ==
  ASSUME FilesInv, files' = files
  PROVE  FilesInv' /\ \A kind \in Directories : Reads(kind) /\ Grows(kind)
<1>1. \A kind \in Directories : Reads(kind) /\ Grows(kind)
  BY DEF Reads, Grows
<1>2. FilesShape'
  BY DEF FilesInv, FilesShape
<1> QED  BY <1>1, <1>2, ReadsTheSame

LEMMA GoOnKeeps ==
  ASSUME ResearchInv, NEW next, files' = files, job' = next, next = Idle \/ Working(next)
  PROVE  ResearchInv'
<1>1. FilesInv' /\ \A kind \in Directories : Reads(kind) /\ Grows(kind)
  BY FilesStay DEF ResearchInv
<1>2. Working(next) => Working(next)'
  BY <1>1, HoldsStays DEF Working, Directories
<1>3. Held(next)'
  BY <1>2 DEF Held, Idle
<1> QED  BY <1>1, <1>3 DEF ResearchInv, JobInv

LEMMA BeginKeeps ==
  ASSUME ResearchInv, NEW p \in Plans, NEW bridge \in BOOLEAN, Begin(p, bridge)
  PROVE  ResearchInv'
<1>1. PICK next : next = [at |-> "plan", plan |-> p, bridge |-> bridge, given |-> ~bridge,
             served |-> {}, todo |-> <<>>, found |-> <<>>, documents |-> <<>>,
             admitted |-> 0]
  OBVIOUS
<1>2. /\ DOMAIN next = RunFields /\ next.plan = p /\ next.documents = <<>>
      /\ next.at = "plan"
  BY <1>1 DEF RunFields
<1>3. files' = files /\ job' = next
  BY <1>1 DEF Begin
<1>4. Working(next)
  BY <1>2 DEF Working, Holds, RunSteps
<1> QED  BY <1>3, <1>4, GoOnKeeps

\* The job of a run that is at one of its steps.
LEMMA RunAt ==
  ASSUME ResearchInv, job.at \in RunSteps
  PROVE  Working(job)
<1>1. job # Idle /\ ~HandingBack(job) /\ ~Writing(job)
  <2>1. job # Idle
    <3>1. Idle.at = "idle"
      BY DEF Idle
    <3>2. job.at # "idle"
      BY DEF RunSteps
    <3> QED  BY <3>1, <3>2
  <2>2. ~HandingBack(job)
    BY DEF HandingBack, RunSteps
  <2>3. ~Writing(job)
    BY DEF Writing, RunSteps
  <2> QED  BY <2>1, <2>2, <2>3
<1> QED  BY <1>1 DEF ResearchInv, JobInv, Held

LEMMA DiscoveringWorks ==
  ASSUME ResearchInv, job.at = "plan"
  PROVE  Working(Discovering)
<1>1. Holds(job, 1)
  BY RunAt DEF RunSteps, Working
<1> DEFINE next == Discovering
<1>2. DOMAIN job = RunFields /\ job.plan \in Plans
  BY <1>1 DEF Holds
<1>3. /\ DOMAIN next = RunFields /\ next.at = "discover"
      /\ next.plan = job.plan /\ next.documents = job.documents
      /\ next.todo = TakenBy(job.plan)
  BY <1>2 DEF Discovering, RunFields, TakenBy
<1> HIDE DEF next
<1>4. Holds(next, 1)
  BY <1>1, <1>2, <1>3, HoldsFollows
<1>5. next.todo \in Seq(Taken(next.plan))
  BY <1>2, <1>3, TakenIsBounded
<1> QED  BY <1>3, <1>4, <1>5 DEF Working, RunSteps, next

\* What a run becomes when it goes on from one of its steps.
LEMMA RunGoesOn ==
  ASSUME NEW run, NEW next, Holds(run, 1), DOMAIN next = DOMAIN run,
         next.plan = run.plan, next.documents = run.documents,
         next.at \in {"plan", "acquire", "hand_over"}
  PROVE  Working(next)
BY HoldsFollows DEF Working, RunSteps

LEMMA AcquiredWorks ==
  ASSUME NEW run, Holds(run, 1)
  PROVE  Working(Acquired(run))
<1> DEFINE next == Acquired(run)
<1>1. DOMAIN run = RunFields
  BY DEF Holds
<1>2. /\ DOMAIN next = RunFields /\ next.at = "acquire"
      /\ next.plan = run.plan /\ next.documents = run.documents
  BY <1>1 DEF Acquired, RunFields
<1> HIDE DEF next
<1>3. Working(next)
  BY <1>1, <1>2, RunGoesOn
<1> QED  BY <1>3 DEF next

LEMMA SkipCandidateKeeps ==
  ASSUME ResearchInv, SkipCandidate
  PROVE  ResearchInv'
<1> DEFINE next == [job EXCEPT !.todo = Tail(@)]
<1>1. Working(job) /\ job.at = "discover" /\ job.todo # <<>>
      /\ files' = files /\ job' = next
  BY RunAt DEF SkipCandidate, GoOn, RunSteps
<1>2. Holds(job, 1) /\ DOMAIN job = RunFields /\ job.todo \in Seq(Taken(job.plan))
  BY <1>1 DEF Working, Holds
<1>3. /\ DOMAIN next = DOMAIN job /\ next.at = "discover"
      /\ next.plan = job.plan /\ next.documents = job.documents
      /\ next.todo = Tail(job.todo)
  BY <1>1, <1>2 DEF RunFields
<1> HIDE DEF next
<1>4. Holds(next, 1)
  BY <1>2, <1>3, HoldsFollows
<1>5a. PICK S : S = Taken(job.plan)
  OBVIOUS
<1>5b. next.todo \in Seq(S)
  <2>1. PICK todo : todo = job.todo
    OBVIOUS
  <2>2. todo \in Seq(S) /\ todo # <<>>
    BY <1>1, <1>2, <1>5a, <2>1
  <2>3. Tail(todo) \in Seq(S)
    BY <2>2
  <2> QED  BY <1>3, <2>1, <2>3
<1>5c. next.todo \in Seq(Taken(next.plan))
  BY <1>3, <1>5a, <1>5b
<1>5. Working(next)
  BY <1>3, <1>4, <1>5c DEF Working, RunSteps
<1> QED  BY <1>1, <1>5, GoOnKeeps

LEMMA EndDiscoveryKeeps ==
  ASSUME ResearchInv, EndDiscovery
  PROVE  ResearchInv'
<1>1. Working(job)
  BY RunAt DEF EndDiscovery, RunSteps
<1>2. Holds(job, 1) /\ DOMAIN job = RunFields
  BY <1>1 DEF Working, Holds
<1>3. PICK sources, served :
        \/ job' = [job EXCEPT !.at = "acquire", !.todo = sources]
        \/ job' = [job EXCEPT !.at = "plan", !.given = TRUE, !.served = served]
  BY DEF EndDiscovery, GoOn
<1>4. files' = files
  BY DEF EndDiscovery, GoOn
<1>5. PICK next : next = job'
  OBVIOUS
<1>6. /\ DOMAIN next = DOMAIN job /\ next.at \in {"plan", "acquire"}
      /\ next.plan = job.plan /\ next.documents = job.documents
  <2>1. CASE job' = [job EXCEPT !.at = "acquire", !.todo = sources]
    BY <1>2, <1>5, <2>1 DEF RunFields
  <2>2. CASE job' = [job EXCEPT !.at = "plan", !.given = TRUE, !.served = served]
    BY <1>2, <1>5, <2>2 DEF RunFields
  <2> QED  BY <1>3, <2>1, <2>2
<1>7. Working(next)
  BY <1>2, <1>6, RunGoesOn
<1> QED  BY <1>4, <1>5, <1>7, GoOnKeeps

LEMMA EndAcquisitionKeeps ==
  ASSUME ResearchInv, EndAcquisition
  PROVE  ResearchInv'
<1>1. Working(job)
  BY RunAt DEF EndAcquisition, RunSteps
<1>2. Holds(job, 1) /\ DOMAIN job = RunFields
  BY <1>1 DEF Working, Holds
<1> DEFINE next == [job EXCEPT !.at = "hand_over"]
<1>3. files' = files /\ (job' = next \/ job' = Idle)
  BY DEF EndAcquisition, GoOn
<1>4. /\ DOMAIN next = DOMAIN job /\ next.at = "hand_over"
      /\ next.plan = job.plan /\ next.documents = job.documents
  BY <1>2 DEF RunFields
<1> HIDE DEF next
<1>5. Working(next)
  BY <1>2, <1>4, RunGoesOn
<1> QED  BY <1>3, <1>5, GoOnKeeps

\* Every other step that writes nothing ends the run.
LEMMA EndsKeep ==
  ASSUME ResearchInv, EndRun \/ ContentRefused \/ HandoffRefused \/ MeetsTornFile \/ Fault
  PROVE  ResearchInv'
<1>1. files' = files /\ job' = Idle
  BY DEF EndRun, ContentRefused, HandoffRefused, MeetsTornFile, Fault, GoOn
<1> QED  BY <1>1, GoOnKeeps

LEMMA LoadPlanKeeps ==
  ASSUME ResearchInv, LoadPlan
  PROVE  ResearchInv'
<1>1. files' = files /\ job' = Discovering /\ Working(Discovering)
  BY DiscoveringWorks DEF LoadPlan, GoOn
<1> QED  BY <1>1, GoOnKeeps

-----------------------------------------------------------------------------
(* The writes of planning, discovery and failed acquisitions.              *)

LEMMA WorkingStays ==
  ASSUME NEW next, Working(next), Grows("documents"), Grows("receipts"), Reads("admitted")
  PROVE  Working(next)'
BY HoldsStays DEF Working

LEMMA OthersRead ==
  ASSUME NEW kind \in Directories, \A k \in Directories : k # kind => files'[k] = files[k]
  PROVE  \A k \in Directories : k # kind => Reads(k) /\ Grows(k)
BY DEF Reads, Grows

LEMMA WrittenGrows ==
  ASSUME FilesShape, NEW kind \in Directories, NEW name, NEW body, NEW next,
         Save(kind, name, body, FALSE, next)
  PROVE  /\ Grows(kind)
         /\ \A k \in Directories : k # kind => Reads(k) /\ Grows(k)
         /\ FilesShape'
         /\ job' = next
<1>1. /\ FilesShape' /\ job' = next
      /\ \A k \in Directories : k # kind => files'[k] = files[k]
      /\ name \notin DOMAIN files[kind]
      /\ DOMAIN files'[kind] = DOMAIN files[kind] \union {name}
      /\ \A n \in DOMAIN files[kind] : files'[kind][n] = files[kind][n]
  BY SaveWrites
<1> QED  BY <1>1, OthersRead DEF Grows, Readable

LEMMA CreatePlanKeeps ==
  ASSUME ResearchInv, CreatePlan(FALSE)
  PROVE  ResearchInv'
<1>1. PICK next : next = Discovering
  OBVIOUS
<1>2. Working(next)
  BY <1>1, DiscoveringWorks DEF CreatePlan
<1>3. PICK plan : Save("plans", plan, "plan", FALSE, next)
  BY <1>1 DEF CreatePlan
<1>4. /\ \A k \in Directories : k # "plans" => Reads(k) /\ Grows(k)
      /\ FilesShape' /\ job' = next
  BY <1>3, WrittenGrows DEF ResearchInv, FilesInv, Directories
<1>5. FilesInv'
  BY <1>4, ReadsTheSame DEF ResearchInv
<1>6. Working(next)'
  BY <1>2, <1>4, WorkingStays DEF Directories
<1> QED  BY <1>4, <1>5, <1>6 DEF ResearchInv, JobInv, Held

LEMMA SaveCandidateKeeps ==
  ASSUME ResearchInv, SaveCandidate(FALSE)
  PROVE  ResearchInv'
<1> DEFINE after(id) == [job EXCEPT !.todo = Tail(@), !.found = Append(@, id)]
<1>1. PICK id : id = Fresh("candidates")
  OBVIOUS
<1>2. PICK entry, plan : entry = Head(job.todo) /\ plan = job.plan
  OBVIOUS
<1>3. PICK body : body = [plan |-> plan, entry |-> entry]
  OBVIOUS
<1>4. PICK next : next = after(id)
  OBVIOUS
<1>5. /\ Save("candidates", id, body, FALSE, next)
      /\ job.at = "discover" /\ job.todo # <<>>
      /\ Candidates(plan, {entry}) = {}
  BY <1>1, <1>2, <1>3, <1>4 DEF SaveCandidate
<1>6. Working(job) /\ Holds(job, 1) /\ DOMAIN job = RunFields
      /\ job.todo \in Seq(Taken(plan))
  BY <1>2, <1>5, RunAt DEF Working, Holds, RunSteps
<1>7. PICK todo, S : todo = job.todo /\ S = Taken(plan)
  OBVIOUS
<1>8. entry \in S /\ Tail(todo) \in Seq(S)
  BY <1>2, <1>5, <1>6, <1>7, HeadTailProperties
<1>9. /\ DOMAIN next = DOMAIN job /\ next.at = "discover"
      /\ next.plan = job.plan /\ next.documents = job.documents
      /\ next.todo = Tail(todo)
  BY <1>4, <1>5, <1>6, <1>7 DEF RunFields
<1>10. Working(next)
  <2>1. Holds(next, 1)
    BY <1>6, <1>9, HoldsFollows
  <2>2. next.todo \in Seq(Taken(next.plan))
    BY <1>2, <1>7, <1>8, <1>9
  <2> QED  BY <1>9, <2>1, <2>2 DEF Working, RunSteps
<1>11. FilesShape
  BY DEF ResearchInv, FilesInv
<1>12. /\ Grows("candidates")
       /\ \A k \in Directories : k # "candidates" => Reads(k) /\ Grows(k)
       /\ FilesShape' /\ job' = next
  BY <1>5, <1>11, WrittenGrows, DirectoryNames
<1>13. CandidatesTaken'
  <2>1. /\ id \notin DOMAIN files["candidates"]
        /\ DOMAIN files'["candidates"] = DOMAIN files["candidates"] \union {id}
        /\ \A n \in DOMAIN files["candidates"] :
             files'["candidates"][n] = files["candidates"][n]
        /\ files'["candidates"][id] = body
    <3>1. Puts("candidates", id, body)
      BY <1>5, <1>11, SavePuts, DirectoryNames
    <3> QED  BY <3>1, DirectoryNames DEF Puts
  <2>2. ASSUME NEW n \in Readable(files.candidates)'
        PROVE  \/ n \in Readable(files.candidates) /\ files'.candidates[n] = files.candidates[n]
               \/ n = id /\ files'.candidates[n] = body
    BY <2>1 DEF Readable
  <2>3. \A n \in Readable(files.candidates) : files.candidates[n] # body
    BY <1>3, <1>5 DEF Candidates
  <2>4. ASSUME NEW n \in Readable(files.candidates)'
        PROVE  /\ files'.candidates[n] = [plan |-> files'.candidates[n].plan,
                                          entry |-> files'.candidates[n].entry]
               /\ files'.candidates[n].entry \in Taken(files'.candidates[n].plan)
    <3>1. CASE n = id /\ files'.candidates[n] = body
      BY <1>3, <1>7, <1>8, <3>1
    <3>2. CASE n \in Readable(files.candidates) /\ files'.candidates[n] = files.candidates[n]
      BY <3>2 DEF ResearchInv, FilesInv, CandidatesTaken
    <3> QED  BY <2>2, <3>1, <3>2
  <2>5. \A a, b \in Readable(files.candidates)' :
          files'.candidates[a] = files'.candidates[b] => a = b
    BY <2>2, <2>3 DEF ResearchInv, FilesInv, CandidatesTaken
  <2> QED  BY <2>4, <2>5 DEF CandidatesTaken
<1>14. FilesInv'
  BY <1>12, <1>13, DocumentsKept, AdmittedKept, ReceiptsKept, HandoffsKept
     DEF ResearchInv, FilesInv, Directories
<1>15. Working(next)'
  BY <1>10, <1>12, WorkingStays DEF Directories
<1> QED  BY <1>12, <1>14, <1>15 DEF ResearchInv, JobInv, Held

\* Nothing a receipt says changes when another is written.
LEMMA RecordFailureKeeps ==
  ASSUME ResearchInv, Acquiring, NEW status, NEW of, RecordFailure(status, of, FALSE),
         status # "RETRIEVED", status = "DUPLICATE" => of \in Readable(files.documents)
  PROVE  ResearchInv'
<1>1. Holds(job, 1)
  BY RunAt DEF Acquiring, Working, RunSteps
<1>2. PICK next : next = Acquired(job)
  OBVIOUS
<1>3. Working(next)
  BY <1>1, <1>2, AcquiredWorks
<1>4. PICK name : name = [source |-> Source, status |-> status, of |-> of]
  OBVIOUS
<1>5. CASE Save("receipts", name, 0, FALSE, next)
  <2>1. FilesShape
    BY DEF ResearchInv, FilesInv
  <2>2. /\ Grows("receipts")
        /\ \A k \in Directories : k # "receipts" => Reads(k) /\ Grows(k)
        /\ FilesShape' /\ job' = next
    BY <1>5, <2>1, WrittenGrows, DirectoryNames
  <2>3. \A n \in Readable(files.receipts)' :
          \/ n \in Readable(files.receipts) /\ files'.receipts[n] = files.receipts[n]
          \/ n = name
    <3>1. /\ DOMAIN files'["receipts"] = DOMAIN files["receipts"] \union {name}
          /\ \A n \in DOMAIN files["receipts"] :
               files'["receipts"][n] = files["receipts"][n]
      <4>1. Puts("receipts", name, 0)
        BY <1>5, <2>1, SavePuts, DirectoryNames
      <4> QED  BY <4>1, DirectoryNames DEF Puts
    <3> QED  BY <3>1 DEF Readable
  <2>4. ReceiptsAreTrue'
    <3>1. ASSUME NEW n \in Retrieved'
          PROVE  n \in Retrieved /\ files'.receipts[n] = files.receipts[n]
      BY <1>4, <2>3, <3>1 DEF Retrieved
    <3>2. /\ Grows("documents") /\ Grows("contents")
      BY <2>2 DEF Directories
    <3>3. ASSUME NEW n \in Retrieved'
          PROVE  /\ files'.receipts[n] \in Readable(files.documents)'
                 /\ files'.documents[files'.receipts[n]].source = n.source
                 /\ files'.documents[files'.receipts[n]].content = n.of
                 /\ files'.receipts[n] \in Readable(files.contents)'
                 /\ files'.contents[files'.receipts[n]] = n.of
      BY <3>1, <3>2, <3>3 DEF ResearchInv, FilesInv, ReceiptsAreTrue, Grows
    <3>4. ASSUME NEW n \in Readable(files.receipts)', n.status = "DUPLICATE"
          PROVE  n.of \in Readable(files.documents)'
      <4>1. n.of \in Readable(files.documents)
        BY <1>4, <2>3, <3>4 DEF ResearchInv, FilesInv, ReceiptsAreTrue
      <4> QED  BY <3>2, <4>1 DEF Grows
    <3> QED  BY <3>3, <3>4 DEF ReceiptsAreTrue
  <2>5. FilesInv'
    BY <2>2, <2>4, CandidatesKept, DocumentsKept, AdmittedKept, HandoffsKept
       DEF ResearchInv, FilesInv, Directories
  <2>6. Working(next)'
    BY <1>3, <2>2, WorkingStays DEF Directories
  <2> QED  BY <2>2, <2>5, <2>6 DEF ResearchInv, JobInv, Held
<1>6. CASE files' = files /\ job' = next
  BY <1>3, <1>6, GoOnKeeps
<1> QED  BY <1>2, <1>4, <1>5, <1>6 DEF RecordFailure, GoOn

-----------------------------------------------------------------------------
(* A document: its content, its metadata and its receipt.                  *)

LEMMA FreshIsNatural ==
  ASSUME FilesShape, NEW kind \in Directories
  PROVE  Fresh(kind) \in Nat
BY FS_CardinalityType DEF FilesShape, Fresh

LEMMA SaveContentKeeps ==
  ASSUME ResearchInv, NEW content \in Contents, NEW media, SaveContent(content, media, FALSE)
  PROVE  ResearchInv'
<1>1. FilesShape /\ Holds(job, 1)
  BY RunAt DEF SaveContent, Acquiring, Working, RunSteps, ResearchInv, FilesInv
<1>2. PICK d : d = Fresh("contents")
  OBVIOUS
<1>3. PICK run : run = job
  OBVIOUS
<1>4. PICK next : next = [at |-> "metadata", document |-> d, content |-> content,
                          media |-> media, then |-> run]
  OBVIOUS
<1>5. Save("contents", d, content, FALSE, next) /\ DocumentsWith(content) = {}
  BY <1>2, <1>3, <1>4 DEF SaveContent
<1>6. /\ Grows("contents")
      /\ \A k \in Directories : k # "contents" => Reads(k) /\ Grows(k)
      /\ FilesShape' /\ job' = next
  BY <1>1, <1>5, WrittenGrows, DirectoryNames
<1>7. FilesInv'
  BY <1>6, CandidatesKept, DocumentsKept, AdmittedKept, ReceiptsKept, HandoffsKept
     DEF ResearchInv, FilesInv, Directories
<1>8. Reads("documents") /\ Reads("admitted") /\ Grows("documents") /\ Grows("receipts")
  BY <1>6 DEF Directories
<1>9. Holds(run, 1)'
  BY <1>1, <1>3, <1>8, HoldsStays
<1>10. NotAdmitted(content)'
  <2>1. NotAdmitted(content)
    BY <1>5 DEF ResearchInv, FilesInv, AdmittedFromDocuments, NotAdmitted, DocumentsWith
  <2> QED  BY <1>8, <2>1 DEF NotAdmitted, Reads
<1>11. (DocumentsWith(content) = {})'
  BY <1>5, <1>8 DEF DocumentsWith, Reads
<1>12. d \in Nat
  BY <1>1, <1>2, FreshIsNatural DEF Directories
<1>13. d \in DOMAIN files'.contents /\ files'.contents[d] = content
  <2>1. /\ DOMAIN files'["contents"] = DOMAIN files["contents"] \union {d}
        /\ files'["contents"][d] = content
    <3>1. Puts("contents", d, content)
      BY <1>1, <1>5, SavePuts, DirectoryNames
    <3> QED  BY <3>1, DirectoryNames DEF Puts
  <2> QED  BY <2>1
<1>14. /\ DOMAIN next = {"at", "document", "content", "media", "then"}
       /\ next.at = "metadata" /\ next.document = d /\ next.content = content
       /\ next.then = run
  BY <1>4
<1>15. Writing(next)'
  BY <1>9, <1>10, <1>11, <1>12, <1>13, <1>14 DEF Writing
<1> QED  BY <1>6, <1>7, <1>15 DEF ResearchInv, JobInv, Held

LEMMA WritingAt ==
  ASSUME ResearchInv, job.at \in {"metadata", "receipt"}
  PROVE  Writing(job)
<1>1. job # Idle
  <2>1. Idle.at = "idle"
    BY DEF Idle
  <2>2. job.at # "idle"
    OBVIOUS
  <2> QED  BY <2>1, <2>2
<1>2. ~Working(job)
  BY DEF Working, RunSteps
<1>3. ~HandingBack(job)
  BY DEF HandingBack
<1> QED  BY <1>1, <1>2, <1>3 DEF ResearchInv, JobInv, Held

LEMMA HandedAt ==
  ASSUME ResearchInv, job.at = "handed_over"
  PROVE  HandingBack(job)
<1>1. job # Idle
  <2>1. Idle.at = "idle"
    BY DEF Idle
  <2>2. job.at # "idle"
    OBVIOUS
  <2> QED  BY <2>1, <2>2
<1>2. ~Working(job)
  BY DEF Working, RunSteps
<1>3. ~Writing(job)
  BY DEF Writing
<1> QED  BY <1>1, <1>2, <1>3 DEF ResearchInv, JobInv, Held

LEMMA SaveMetadataKeeps ==
  ASSUME WritesAreWhole, ResearchInv, SaveMetadata(FALSE)
  PROVE  ResearchInv'
<1>1. PICK d, content, run : d = job.document /\ content = job.content /\ run = job.then
  OBVIOUS
<1>2. /\ FilesShape /\ DOMAIN job = {"at", "document", "content", "media", "then"}
      /\ Holds(run, 1) /\ d \in Nat /\ content \in Contents
      /\ d \in DOMAIN files.contents /\ files.contents[d] = content
      /\ NotAdmitted(content) /\ DocumentsWith(content) = {}
  BY <1>1, WritingAt DEF SaveMetadata, Writing, ResearchInv, FilesInv
<1>3. PICK body : body = [source |-> Head(run.todo), content |-> content,
                          media |-> job.media]
  OBVIOUS
<1>4. PICK next : next = [job EXCEPT !.at = "receipt"]
  OBVIOUS
<1>5. Save("documents", d, body, FALSE, next)
  BY <1>1, <1>3, <1>4 DEF SaveMetadata
<1>6. /\ Grows("documents")
      /\ \A k \in Directories : k # "documents" => Reads(k) /\ Grows(k)
      /\ FilesShape' /\ job' = next
  BY <1>2, <1>5, WrittenGrows, DirectoryNames
<1>7. body # Torn
  BY <1>3 DEF WritesAreWhole
<1>8. /\ Readable(files'["documents"]) = Readable(files["documents"]) \union {d}
      /\ d \notin Readable(files["documents"])
      /\ \A n \in Readable(files["documents"]) :
           files'["documents"][n] = files["documents"][n]
  <2>1. Gains("documents", d)
    BY <1>2, <1>5, <1>7, SaveGains, DirectoryNames
  <2> QED  BY <2>1 DEF Gains
<1>9. files'["documents"][d] = body /\ files'["contents"] = files["contents"]
  <2>1. Puts("documents", d, body)
    BY <1>2, <1>5, SavePuts, DirectoryNames
  <2> QED  BY <2>1, DirectoryNames DEF Puts
<1>10. OneDocumentPerContent'
  <2>1. body.content = content
    BY <1>3
  <2>2. \A n \in Readable(files.documents) : files.documents[n].content # content
    BY <1>2 DEF DocumentsWith
  <2> QED  BY <1>8, <1>9, <2>1, <2>2 DEF OneDocumentPerContent, ResearchInv, FilesInv
<1>11. FilesInv'
  BY <1>6, <1>10, CandidatesKept, AdmittedKept, ReceiptsKept, HandoffsKept
     DEF ResearchInv, FilesInv, Directories
<1>12. Reads("admitted") /\ Grows("receipts")
  BY <1>6 DEF Directories
<1>13. Holds(run, 1)'
  BY <1>2, <1>6, <1>12, HoldsStays
<1>14. NotAdmitted(content)'
  BY <1>2, <1>12 DEF NotAdmitted, Reads
<1>15. \A i \in 1..Len(run.documents) : run.documents[i] # d
  BY <1>2, <1>8 DEF Holds
<1>16. /\ DOMAIN next = {"at", "document", "content", "media", "then"}
       /\ next.at = "receipt" /\ next.document = d /\ next.content = content
       /\ next.then = run /\ next.media = job.media
  BY <1>1, <1>2, <1>4
<1>17. /\ d \in DOMAIN files'.contents /\ files'.contents[d] = content
       /\ d \in Readable(files.documents)' /\ files'.documents[d] = body
  BY <1>2, <1>8, <1>9
<1>18. Writing(next)'
  BY <1>2, <1>3, <1>13, <1>14, <1>15, <1>16, <1>17 DEF Writing
<1> QED  BY <1>6, <1>11, <1>18 DEF ResearchInv, JobInv, Held

\* A run that gained a document holds what it held, and the document.
LEMMA HoldsOneMore ==
  ASSUME NEW run, NEW next, NEW d, Holds(run, 1)', DOMAIN next = DOMAIN run,
         next.plan = run.plan, next.documents = Append(run.documents, d),
         \A i \in 1..Len(run.documents) : run.documents[i] # d,
         d \in Readable(files.documents)', ReceiptOf(d)' \in Retrieved',
         files'.receipts[ReceiptOf(d)'] = d, NotAdmitted(files.documents[d].content)'
  PROVE  Holds(next, 1)'
<1> DEFINE documents == run.documents
           n == Len(documents)
<1>1. documents \in Seq(Readable(files.documents)') /\ n \in Nat
  BY DEF Holds
<1>2. /\ next.documents \in Seq(Readable(files.documents)')
      /\ Len(next.documents) = n + 1
      /\ \A i \in 1..n : next.documents[i] = documents[i]
      /\ next.documents[n + 1] = d
  BY <1>1, AppendProperties
<1>3. \A i \in 1..Len(next.documents) :
        \/ i \in 1..n /\ next.documents[i] = documents[i]
        \/ i = n + 1 /\ next.documents[i] = d
  BY <1>1, <1>2
<1>4. ASSUME NEW i \in 1..Len(next.documents)
      PROVE  /\ ReceiptOf(next.documents[i])' \in Retrieved'
             /\ files'.receipts[ReceiptOf(next.documents[i])'] = next.documents[i]
             /\ NotAdmitted(files.documents[next.documents[i]].content)'
  <2>1. CASE i \in 1..n /\ next.documents[i] = documents[i]
    BY <2>1 DEF Holds
  <2>2. CASE i = n + 1 /\ next.documents[i] = d
    BY <2>2
  <2> QED  BY <1>3, <2>1, <2>2
<1>5. \A i, k \in 1..Len(next.documents) :
        next.documents[i] = next.documents[k] => i = k
  BY <1>3 DEF Holds
<1> QED  BY <1>2, <1>4, <1>5 DEF Holds

LEMMA SaveReceiptKeeps ==
  ASSUME WritesAreWhole, ResearchInv, SaveReceipt(FALSE)
  PROVE  ResearchInv'
<1>1. PICK d, content, run : d = job.document /\ content = job.content /\ run = job.then
  OBVIOUS
<1>2. PICK source : source = Head(run.todo)
  OBVIOUS
<1>3. /\ FilesShape /\ Holds(run, 1) /\ d \in Nat /\ content \in Contents
      /\ d \in DOMAIN files.contents /\ files.contents[d] = content
      /\ NotAdmitted(content) /\ d \in Readable(files.documents)
      /\ files.documents[d] = [source |-> source, content |-> content, media |-> job.media]
      /\ \A i \in 1..Len(run.documents) : run.documents[i] # d
  BY <1>1, <1>2, WritingAt DEF SaveReceipt, Writing, ResearchInv, FilesInv
<1>4. PICK name : name = [source |-> source, status |-> "RETRIEVED", of |-> content]
  OBVIOUS
<1> DEFINE more == [run EXCEPT !.documents = Append(@, d)]
<1>5. PICK next : next = Acquired(more)
  OBVIOUS
<1>6. Save("receipts", name, d, FALSE, next)
  BY <1>1, <1>2, <1>4, <1>5 DEF SaveReceipt
<1>7. d # Torn
  BY <1>3 DEF WritesAreWhole
<1>8. /\ \A k \in Directories : k # "receipts" => Reads(k) /\ Grows(k)
      /\ Grows("receipts") /\ FilesShape' /\ job' = next
  BY <1>3, <1>6, WrittenGrows, DirectoryNames
<1>9. /\ Readable(files'["receipts"]) = Readable(files["receipts"]) \union {name}
      /\ \A n \in Readable(files["receipts"]) :
           files'["receipts"][n] = files["receipts"][n]
  <2>1. Gains("receipts", name)
    BY <1>3, <1>6, <1>7, SaveGains, DirectoryNames
  <2> QED  BY <2>1 DEF Gains
<1>10. files'["receipts"][name] = d /\ files'["documents"] = files["documents"]
       /\ files'["contents"] = files["contents"]
  <2>1. Puts("receipts", name, d)
    BY <1>3, <1>6, SavePuts, DirectoryNames
  <2> QED  BY <2>1, DirectoryNames DEF Puts
<1>11. d \in Readable(files.contents)
  BY <1>3 DEF WritesAreWhole, Readable
<1>12. ReceiptsAreTrue'
  <2>1. ASSUME NEW n \in Retrieved'
        PROVE  /\ files'.receipts[n] \in Readable(files.documents)'
               /\ files'.documents[files'.receipts[n]].source = n.source
               /\ files'.documents[files'.receipts[n]].content = n.of
               /\ files'.receipts[n] \in Readable(files.contents)'
               /\ files'.contents[files'.receipts[n]] = n.of
    <3>1. CASE n = name
      BY <1>3, <1>4, <1>10, <1>11, <3>1
    <3>2. CASE n \in Readable(files.receipts)
      <4>1. n \in Retrieved /\ files'.receipts[n] = files.receipts[n]
        BY <1>9, <2>1, <3>2 DEF Retrieved
      <4> QED  BY <1>10, <4>1 DEF ResearchInv, FilesInv, ReceiptsAreTrue
    <3> QED  BY <1>9, <2>1, <3>1, <3>2 DEF Retrieved
  <2>2. ASSUME NEW n \in Readable(files.receipts)', n.status = "DUPLICATE"
        PROVE  n.of \in Readable(files.documents)'
    <3>1. n \in Readable(files.receipts)
      BY <1>4, <1>9, <2>2
    <3> QED  BY <1>10, <2>2, <3>1 DEF ResearchInv, FilesInv, ReceiptsAreTrue
  <2> QED  BY <2>1, <2>2 DEF ReceiptsAreTrue
<1>13. FilesInv'
  BY <1>8, <1>12, CandidatesKept, DocumentsKept, AdmittedKept, HandoffsKept
     DEF ResearchInv, FilesInv, Directories
<1>14. Holds(run, 1)'
  BY <1>3, <1>8, HoldsStays DEF Directories
<1>15. DOMAIN run = RunFields
  BY <1>3 DEF Holds
<1>16. /\ DOMAIN next = DOMAIN run /\ next.at = "acquire"
       /\ next.plan = run.plan /\ next.documents = Append(run.documents, d)
  BY <1>5, <1>15 DEF RunFields, Acquired
<1>17. /\ d \in Readable(files.documents)' /\ ReceiptOf(d)' = name
       /\ files'.documents[d].content = content
       /\ name \in Retrieved'
  BY <1>3, <1>4, <1>9, <1>10 DEF ReceiptOf, Retrieved
<1>18. NotAdmitted(content)'
  BY <1>3, <1>8 DEF NotAdmitted, Reads, Directories
<1>19. Holds(next, 1)'
  <2>1. NotAdmitted(files.documents[d].content)'
    BY <1>17, <1>18 DEF NotAdmitted
  <2> QED  BY <1>3, <1>10, <1>14, <1>16, <1>17, <2>1, HoldsOneMore
<1>20. Working(next)'
  BY <1>16, <1>19 DEF Working, RunSteps
<1> QED  BY <1>8, <1>13, <1>20 DEF ResearchInv, JobInv, Held

-----------------------------------------------------------------------------
(* The handoff: what is admitted is a document no source has, and its      *)
(* receipt is written next.                                                *)

LEMMA AdmitKeeps ==
  ASSUME WritesAreWhole, ResearchInv, Admit(FALSE)
  PROVE  ResearchInv'
<1>1. /\ FilesShape /\ Holds(job, 1) /\ DOMAIN job = RunFields /\ job.at = "hand_over"
      /\ job.documents # <<>> /\ Document.media = "text"
  BY RunAt DEF Admit, HandingOver, Working, RunSteps, ResearchInv, FilesInv, Holds
<1>2. PICK documents, d, content, id, run :
        /\ documents = job.documents /\ d = Head(documents)
        /\ content = Document.content /\ id = Fresh("admitted") /\ run = job
  OBVIOUS
<1>2a. Holds(run, 1) /\ run.documents = documents
  BY <1>1, <1>2
<1>3. PICK next : next = [job EXCEPT !.at = "handed_over", !.admitted = id]
  OBVIOUS
<1>4. Save("admitted", id, content, FALSE, next)
  BY <1>2, <1>3 DEF Admit
<1>5. /\ documents \in Seq(Readable(files.documents)) /\ Len(documents) \in Nat \ {0}
      /\ d = documents[1] /\ 1 \in 1..Len(documents) /\ d \in Readable(files.documents)
      /\ files.documents[d].content = content /\ files.documents[d].media = "text"
      /\ \A i \in 1..Len(documents) : documents[i] \in Readable(files.documents)
  <2>1. documents \in Seq(Readable(files.documents)) /\ documents # <<>>
    BY <1>1, <1>2 DEF Holds
  <2>2. Len(documents) \in Nat \ {0} /\ d = documents[1]
    BY <1>2, <2>1
  <2>3. files.documents[d].content = content /\ files.documents[d].media = "text"
    BY <1>1, <1>2 DEF Document
  <2> QED  BY <2>1, <2>2, <2>3
<1>6. /\ ReceiptOf(d) \in Retrieved /\ files.receipts[ReceiptOf(d)] = d
      /\ NotAdmitted(content)
  BY <1>2a, <1>5 DEF Holds
<1>7. content # Torn
  <2>1. ReceiptOf(d).of = content
    BY <1>5 DEF ReceiptOf
  <2>2. /\ d \in Readable(files.contents) /\ files.contents[d] = content
    BY <1>6, <2>1 DEF ResearchInv, FilesInv, ReceiptsAreTrue
  <2> QED  BY <2>2 DEF Readable
<1>8. /\ \A k \in Directories : k # "admitted" => Reads(k) /\ Grows(k)
      /\ Grows("admitted") /\ FilesShape' /\ job' = next
  BY <1>1, <1>4, WrittenGrows, DirectoryNames
<1>9. /\ Readable(files'["admitted"]) = Readable(files["admitted"]) \union {id}
      /\ id \notin Readable(files["admitted"])
      /\ \A n \in Readable(files["admitted"]) :
           files'["admitted"][n] = files["admitted"][n]
  <2>1. Gains("admitted", id)
    BY <1>1, <1>4, <1>7, SaveGains, DirectoryNames
  <2> QED  BY <2>1 DEF Gains
<1>10. /\ files'["admitted"][id] = content /\ files'["documents"] = files["documents"]
       /\ files'["handoffs"] = files["handoffs"] /\ files'["receipts"] = files["receipts"]
  <2>1. Puts("admitted", id, content)
    BY <1>1, <1>4, SavePuts, DirectoryNames
  <2> QED  BY <2>1, DirectoryNames DEF Puts
<1>11. AdmittedFromDocuments'
  BY <1>5, <1>9, <1>10 DEF ResearchInv, FilesInv, AdmittedFromDocuments
<1>12. HandoffsAreBacked'
  <2>1. \A h \in Readable(files.handoffs)' : Backed(h)'
    BY <1>8, <1>10, BackedStays DEF Directories, ResearchInv, FilesInv
  <2>2. \A a \in Readable(files.admitted) : files.admitted[a] # content
    BY <1>6 DEF NotAdmitted
  <2>3. \A a, b \in Readable(files.admitted)' :
          files'.admitted[a] = files'.admitted[b] => a = b
    BY <1>9, <1>10, <2>2 DEF ResearchInv, FilesInv, HandoffsAreBacked
  <2> QED  BY <2>1, <2>3 DEF HandoffsAreBacked, Backed
<1>13. FilesInv'
  BY <1>8, <1>11, <1>12, CandidatesKept, DocumentsKept, ReceiptsKept
     DEF ResearchInv, FilesInv, Directories
<1>14. /\ DOMAIN next = RunFields /\ next.at = "handed_over" /\ next.admitted = id
       /\ next.plan = job.plan /\ next.documents = documents
  BY <1>1, <1>2, <1>3 DEF RunFields
<1>15. ASSUME NEW i \in 1..Len(documents), i >= 2
       PROVE  NotAdmitted(files.documents[documents[i]].content)'
  <2>1. documents[i] # d
    BY <1>2a, <1>5, <1>15 DEF Holds
  <2>2. files.documents[documents[i]].content # content
    BY <1>5, <2>1 DEF ResearchInv, FilesInv, OneDocumentPerContent
  <2>3. NotAdmitted(files.documents[documents[i]].content)
    BY <1>2a, <1>15 DEF Holds
  <2> QED  BY <1>9, <1>10, <2>2, <2>3 DEF NotAdmitted
<1>16. Retrieved' = Retrieved
  BY <1>10 DEF Retrieved
<1>17. \A c : ReceiptOf(c)' = ReceiptOf(c)
  BY <1>10 DEF ReceiptOf
<1>18. Holds(next, 2)'
  <2>1. /\ next.plan \in Plans
        /\ next.documents \in Seq(Readable(files.documents)')
        /\ \A i, k \in 1..Len(next.documents) :
             next.documents[i] = next.documents[k] => i = k
    <3>1. next.plan \in Plans
      BY <1>1, <1>14 DEF Holds
    <3>2. next.documents \in Seq(Readable(files.documents)')
      BY <1>5, <1>10, <1>14
    <3>3. \A i, k \in 1..Len(documents) : documents[i] = documents[k] => i = k
      BY <1>2a DEF Holds
    <3> QED  BY <1>14, <3>1, <3>2, <3>3
  <2>2. \A i \in 1..Len(next.documents) :
          /\ ReceiptOf(next.documents[i])' \in Retrieved'
          /\ files'.receipts[ReceiptOf(next.documents[i])'] = next.documents[i]
    BY <1>2a, <1>10, <1>14, <1>16, <1>17 DEF Holds
  <2> QED  BY <1>14, <1>15, <2>1, <2>2 DEF Holds
<1>19. HandingBack(next)'
  <2>1. next.documents # <<>> /\ Head(next.documents) = d
    BY <1>1, <1>2, <1>14
  <2>2. id \in Readable(files.admitted)' /\ files'.admitted[id] = content
    BY <1>9, <1>10
  <2> QED  BY <1>5, <1>10, <1>14, <1>18, <2>1, <2>2 DEF HandingBack
<1> QED  BY <1>8, <1>13, <1>19 DEF ResearchInv, JobInv, Held

\* A run that handed over its first document holds the others.
LEMMA HoldsTheRest ==
  ASSUME NEW run, NEW next, Holds(run, 2), run.documents # <<>>,
         DOMAIN next = DOMAIN run, next.plan = run.plan,
         next.documents = Tail(run.documents)
  PROVE  Holds(next, 1)
<1> DEFINE documents == run.documents
           n == Len(documents)
<1>1. documents \in Seq(Readable(files.documents)) /\ n \in Nat \ {0}
  BY DEF Holds
<1>2. /\ next.documents \in Seq(Readable(files.documents))
      /\ Len(next.documents) = n - 1
      /\ \A i \in 1..Len(next.documents) : next.documents[i] = documents[i + 1]
  BY <1>1, HeadTailProperties
<1>3. \A i \in 1..Len(next.documents) : i + 1 \in 1..n /\ i + 1 >= 2
  BY <1>1, <1>2
<1>4. ASSUME NEW i \in 1..Len(next.documents)
      PROVE  /\ ReceiptOf(next.documents[i]) \in Retrieved
             /\ files.receipts[ReceiptOf(next.documents[i])] = next.documents[i]
             /\ NotAdmitted(files.documents[next.documents[i]].content)
  BY <1>2, <1>3 DEF Holds
<1>5. \A i, k \in 1..Len(next.documents) :
        next.documents[i] = next.documents[k] => i = k
  <2>1. \A i, k \in 1..n : documents[i] = documents[k] => i = k
    BY DEF Holds
  <2> QED  BY <1>2, <1>3, <2>1
<1> QED  BY <1>2, <1>4, <1>5 DEF Holds

LEMMA SaveHandoffKeeps ==
  ASSUME ResearchInv, SaveHandoff(FALSE)
  PROVE  ResearchInv'
<1>1. /\ FilesShape /\ Holds(job, 2) /\ DOMAIN job = RunFields
      /\ job.documents # <<>> /\ Document.media = "text"
      /\ job.admitted \in Readable(files.admitted)
      /\ files.admitted[job.admitted] = Document.content
  BY HandedAt DEF SaveHandoff, HandingBack, ResearchInv, FilesInv, Holds, Document
<1>2. PICK documents, d, id, run :
        /\ documents = job.documents /\ d = Head(documents)
        /\ id = Fresh("handoffs") /\ run = job
  OBVIOUS
<1>3. PICK next : next = [job EXCEPT !.at = "hand_over", !.documents = Tail(@)]
  OBVIOUS
<1>4. PICK body : body = [document |-> d, source |-> job.admitted, receipt |-> ReceiptOf(d)]
  OBVIOUS
<1>5. Save("handoffs", id, body, FALSE, next)
  BY <1>2, <1>3, <1>4 DEF SaveHandoff, ReceiptOf, Document
<1>6. /\ documents \in Seq(Readable(files.documents)) /\ Len(documents) \in Nat \ {0}
      /\ d = documents[1] /\ 1 \in 1..Len(documents)
  <2>1. documents \in Seq(Readable(files.documents)) /\ documents # <<>>
    BY <1>1, <1>2 DEF Holds
  <2>2. Len(documents) \in Nat \ {0} /\ d = documents[1]
    BY <1>2, <2>1
  <2> QED  BY <2>1, <2>2
<1>7. /\ ReceiptOf(d) \in Retrieved /\ files.receipts[ReceiptOf(d)] = d
      /\ files.documents[d].media = "text"
      /\ files.admitted[job.admitted] = files.documents[d].content
  BY <1>1, <1>2, <1>6 DEF Holds, Document
<1>8. /\ \A k \in Directories : k # "handoffs" => Reads(k) /\ Grows(k)
      /\ FilesShape' /\ job' = next
  BY <1>1, <1>5, WrittenGrows, DirectoryNames
<1>9. /\ DOMAIN files'["handoffs"] = DOMAIN files["handoffs"] \union {id}
      /\ \A n \in DOMAIN files["handoffs"] :
           files'["handoffs"][n] = files["handoffs"][n]
      /\ files'["handoffs"][id] = body
      /\ \A k \in Directories : k # "handoffs" => files'[k] = files[k]
  <2>1. Puts("handoffs", id, body)
    BY <1>1, <1>5, SavePuts, DirectoryNames
  <2> QED  BY <2>1, DirectoryNames DEF Puts
<1>10. Retrieved' = Retrieved
  BY <1>9 DEF Retrieved, Directories
<1>11. HandoffsAreBacked'
  <2>1. ASSUME NEW h \in Readable(files.handoffs)'
        PROVE  Backed(h)'
    <3>1. CASE h = id
      BY <1>1, <1>4, <1>7, <1>9, <1>10, <3>1 DEF Backed, Directories
    <3>2. CASE h \in Readable(files.handoffs)
      <4>1. files'.handoffs[h] = files.handoffs[h]
        BY <1>9, <3>2 DEF Readable
      <4> QED  BY <1>8, <3>2, <4>1, BackedStays DEF Directories, ResearchInv, FilesInv
    <3> QED  BY <1>9, <2>1, <3>1, <3>2 DEF Readable
  <2>2. \A a, b \in Readable(files.admitted)' :
          files'.admitted[a] = files'.admitted[b] => a = b
    BY <1>9 DEF ResearchInv, FilesInv, HandoffsAreBacked, Directories
  <2> QED  BY <2>1, <2>2 DEF HandoffsAreBacked, Backed
<1>12. FilesInv'
  BY <1>8, <1>11, CandidatesKept, DocumentsKept, AdmittedKept, ReceiptsKept
     DEF ResearchInv, FilesInv, Directories
<1>13. /\ DOMAIN next = RunFields /\ next.at = "hand_over"
       /\ next.plan = run.plan /\ next.documents = Tail(run.documents)
  BY <1>1, <1>2, <1>3 DEF RunFields
<1>14. Holds(next, 1)
  BY <1>1, <1>2, <1>13, HoldsTheRest
<1>15. Working(next)'
  <2>1. Working(next)
    BY <1>13, <1>14 DEF Working, RunSteps
  <2> QED  BY <1>8, <2>1, WorkingStays DEF Directories
<1> QED  BY <1>8, <1>12, <1>15 DEF ResearchInv, JobInv, Held

-----------------------------------------------------------------------------
(* The invariant holds, and with it what the runs promise.                 *)

LEMMA SavesKeep ==
  ASSUME WritesAreWhole, ResearchInv, Progress(FALSE)
  PROVE  ResearchInv'
<1>1. CASE CreatePlan(FALSE)
  BY <1>1, CreatePlanKeeps
<1>2. CASE SaveCandidate(FALSE)
  BY <1>2, SaveCandidateKeeps
<1>3. CASE NoProvider(FALSE)
  BY <1>3, RecordFailureKeeps DEF NoProvider
<1>4. ASSUME NEW status \in Failures, ProviderFails(status, FALSE)
      PROVE  ResearchInv'
  <2>1. status # "RETRIEVED" /\ status # "DUPLICATE"
    BY ResearchAssumption DEF Statuses
  <2> QED  BY <1>4, <2>1, RecordFailureKeeps DEF ProviderFails
<1>5. ASSUME NEW content \in Contents, NEW media \in Media, Duplicate(content, media, FALSE)
      PROVE  ResearchInv'
  <2>1. PICK d \in DocumentsWith(content) : RecordFailure("DUPLICATE", d, FALSE)
    BY <1>5 DEF Duplicate
  <2>2. d \in Readable(files.documents) /\ Acquiring
    BY <1>5 DEF DocumentsWith, Duplicate
  <2> QED  BY <2>1, <2>2, RecordFailureKeeps
<1>6. ASSUME NEW content \in Contents, NEW media \in Media, SaveContent(content, media, FALSE)
      PROVE  ResearchInv'
  BY <1>6, SaveContentKeeps
<1>7. CASE SaveMetadata(FALSE)
  BY <1>7, SaveMetadataKeeps
<1>8. CASE SaveReceipt(FALSE)
  BY <1>8, SaveReceiptKeeps
<1>9. CASE Admit(FALSE)
  BY <1>9, AdmitKeeps
<1>10. CASE SaveHandoff(FALSE)
  BY <1>10, SaveHandoffKeeps
<1> QED  BY <1>1, <1>2, <1>3, <1>4, <1>5, <1>6, <1>7, <1>8, <1>9, <1>10 DEF Progress

\* A step that is cut is a write that is cut.
LEMMA CutIsASave ==
  ASSUME Progress(TRUE)
  PROVE  \E kind \in Directories : \E name, body, next : Save(kind, name, body, TRUE, next)
<1>1. CASE CreatePlan(TRUE)
  BY <1>1 DEF CreatePlan, Directories
<1>2. CASE SaveCandidate(TRUE)
  BY <1>2 DEF SaveCandidate, Directories
<1>3. ASSUME NEW status, NEW of, RecordFailure(status, of, TRUE)
      PROVE  \E kind \in Directories : \E name, body, next : Save(kind, name, body, TRUE, next)
  BY <1>3 DEF RecordFailure, Directories
<1>4. CASE NoProvider(TRUE)
  BY <1>3, <1>4 DEF NoProvider
<1>5. ASSUME NEW status \in Failures, ProviderFails(status, TRUE)
      PROVE  \E kind \in Directories : \E name, body, next : Save(kind, name, body, TRUE, next)
  BY <1>3, <1>5 DEF ProviderFails
<1>6. ASSUME NEW content \in Contents, NEW media \in Media, Duplicate(content, media, TRUE)
      PROVE  \E kind \in Directories : \E name, body, next : Save(kind, name, body, TRUE, next)
  BY <1>3, <1>6 DEF Duplicate
<1>7. ASSUME NEW content \in Contents, NEW media \in Media, SaveContent(content, media, TRUE)
      PROVE  \E kind \in Directories : \E name, body, next : Save(kind, name, body, TRUE, next)
  BY <1>7 DEF SaveContent, Directories
<1>8. CASE SaveMetadata(TRUE)
  BY <1>8 DEF SaveMetadata, Directories
<1>9. CASE SaveReceipt(TRUE)
  BY <1>9 DEF SaveReceipt, Directories
<1>10. CASE Admit(TRUE)
  BY <1>10 DEF Admit, Directories
<1>11. CASE SaveHandoff(TRUE)
  BY <1>11 DEF SaveHandoff, Directories
<1> QED  BY <1>1, <1>2, <1>4, <1>5, <1>6, <1>7, <1>8, <1>9, <1>10, <1>11 DEF Progress

\* The steps of a specification, each by its kind.
LEMMA StepsAre ==
  ASSUME Next
  PROVE  \/ \E p \in Plans, bridge \in BOOLEAN : Begin(p, bridge)
         \/ Progress(FALSE) \/ Progress(TRUE)
         \/ LoadPlan \/ SkipCandidate \/ EndDiscovery \/ EndAcquisition
         \/ EndRun \/ ContentRefused \/ HandoffRefused \/ MeetsTornFile \/ Fault
<1>1. ASSUME NEW cut \in Cuts, cut /\ Progress(cut)
      PROVE  Progress(TRUE)
  <2>1. cut = TRUE
    BY <1>1 DEF Cuts
  <2> QED  BY <1>1, <2>1
<1> QED  BY <1>1 DEF Next, Run

LEMMA InvHoldsAtFirst ==
  Init => ResearchInv
<1> SUFFICES ASSUME Init PROVE ResearchInv
  OBVIOUS
<1>1. \A kind \in Directories : files[kind] = <<>> /\ Readable(files[kind]) = {}
  BY DEF Init, Readable
<1>2. DOMAIN <<>> = {}
  OBVIOUS
<1>3. FilesShape
  BY <1>1, <1>2, FS_EmptySet DEF FilesShape, Init
<1>4. /\ Readable(files.candidates) = {} /\ Readable(files.documents) = {}
      /\ Readable(files.admitted) = {} /\ Readable(files.receipts) = {}
      /\ Readable(files.handoffs) = {}
  BY <1>1 DEF Directories
<1>5. FilesInv
  BY <1>3, <1>4 DEF FilesInv, CandidatesTaken, OneDocumentPerContent,
     AdmittedFromDocuments, ReceiptsAreTrue, HandoffsAreBacked, Retrieved
<1>6. JobInv
  BY DEF Init, JobInv, Held
<1> QED  BY <1>5, <1>6 DEF ResearchInv

LEMMA InvIsKept ==
  ASSUME WritesAreWhole
  PROVE  ResearchInv /\ [Next]_vars => ResearchInv'
<1> SUFFICES ASSUME ResearchInv, [Next]_vars PROVE ResearchInv'
  OBVIOUS
<1>1. ASSUME Next PROVE ResearchInv'
  <2>1. ASSUME NEW p \in Plans, NEW bridge \in BOOLEAN, Begin(p, bridge)
        PROVE  ResearchInv'
    BY <2>1, BeginKeeps
  <2>2. CASE Progress(FALSE)
    BY <2>2, SavesKeep
  <2>3. CASE Progress(TRUE)
    BY <2>3, CutIsASave, CutKeeps
  <2> QED  BY <1>1, <2>1, <2>2, <2>3, StepsAre, LoadPlanKeeps, SkipCandidateKeeps,
              EndDiscoveryKeeps, EndAcquisitionKeeps, EndsKeep
<1>2. ASSUME UNCHANGED vars PROVE ResearchInv'
  <2>1. files' = files /\ job' = job
    BY <1>2 DEF vars
  <2>2. FilesInv' /\ \A kind \in Directories : Reads(kind) /\ Grows(kind)
    BY <2>1, FilesStay DEF ResearchInv
  <2>3. \A run, from : Holds(run, from) => Holds(run, from)'
    BY <2>2, HoldsStays DEF Directories
  <2>4. \A content : /\ NotAdmitted(content)' <=> NotAdmitted(content)
                     /\ DocumentsWith(content)' = DocumentsWith(content)
    BY <2>1 DEF NotAdmitted, DocumentsWith
  <2>5. PICK j : j = job
    OBVIOUS
  <2>6. Working(j) => Working(j)'
    BY <2>3 DEF Working
  <2>7. HandingBack(j) => HandingBack(j)'
    BY <2>1, <2>3 DEF HandingBack
  <2>8. Writing(j) => Writing(j)'
    BY <2>1, <2>3, <2>4 DEF Writing
  <2>9. Held(j)'
    BY <2>5, <2>6, <2>7, <2>8 DEF ResearchInv, JobInv, Held
  <2> QED  BY <2>1, <2>2, <2>5, <2>9 DEF ResearchInv, JobInv
<1> QED  BY <1>1, <1>2

\* A plan's candidates are as many as the entries it took.
LEMMA FewCandidates ==
  ASSUME FilesShape, CandidatesTaken, NEW p \in Plans
  PROVE  Cardinality({id \in Readable(files.candidates) : files.candidates[id].plan = p})
           <= MaximumSources
<1> DEFINE ids == {id \in Readable(files.candidates) : files.candidates[id].plan = p}
           entry == [id \in ids |-> files.candidates[id].entry]
<1>1. entry \in Injection(ids, Taken(p))
  <2>1. \A id \in ids : entry[id] \in Taken(p)
    BY DEF CandidatesTaken
  <2>2. \A a, b \in ids : entry[a] = entry[b] => a = b
    <3> SUFFICES ASSUME NEW a \in ids, NEW b \in ids, entry[a] = entry[b] PROVE a = b
      OBVIOUS
    <3>1. /\ files.candidates[a] = [plan |-> p, entry |-> entry[a]]
          /\ files.candidates[b] = [plan |-> p, entry |-> entry[b]]
      BY DEF CandidatesTaken
    <3>2. files.candidates[a] = files.candidates[b]
      BY <3>1
    <3> QED  BY <3>2 DEF CandidatesTaken
  <2> QED  BY <2>1, <2>2 DEF Injection, IsInjective
<1>2. /\ IsFiniteSet(Taken(p)) /\ Cardinality(Taken(p)) <= MaximumSources
      /\ Cardinality(Taken(p)) \in Nat
  BY TakenIsBounded, FS_CardinalityType
<1> HIDE DEF entry, ids
<1>3. /\ IsFiniteSet(ids) /\ Cardinality(ids) \in Nat
      /\ Cardinality(ids) <= Cardinality(Taken(p))
  BY <1>1, <1>2, FS_Injection, FS_CardinalityType
<1> QED  BY <1>2, <1>3, ResearchAssumption DEF ids

LEMMA InvGivesNothingTwice ==
  ResearchInv => NothingIsKeptTwice
BY FewCandidates DEF ResearchInv, FilesInv, CandidatesTaken, OneDocumentPerContent,
   NothingIsKeptTwice

LEMMA InvAlwaysHolds ==
  ASSUME WritesAreWhole
  PROVE  Spec => []ResearchInv
<1>1. Init => ResearchInv
  BY InvHoldsAtFirst
<1>2. ResearchInv /\ [Next]_vars => ResearchInv'
  BY InvIsKept
<1> QED  BY <1>1, <1>2, PTL DEF Spec

\* Whatever was cut short, a receipt on file tells the truth about what was
\* retrieved and about what was there already.
THEOREM ReceiptsAreAlwaysTrue ==
  ASSUME WritesAreWhole
  PROVE  Spec => []ReceiptsAreTrue
<1>1. ResearchInv => ReceiptsAreTrue
  BY DEF ResearchInv, FilesInv
<1> QED  BY <1>1, InvAlwaysHolds, PTL

\* However often discovery and acquisition are cut short and repeated, no
\* candidate and no content is kept twice, and no plan takes too many.
THEOREM NothingIsEverKeptTwice ==
  ASSUME WritesAreWhole
  PROVE  Spec => []NothingIsKeptTwice
BY InvGivesNothingTwice, InvAlwaysHolds, PTL

\* Every receipt of a handoff is backed by an acquisition on one side and an
\* admitted source on the other, and no content is admitted twice.
THEOREM HandoffsAreAlwaysBacked ==
  ASSUME WritesAreWhole
  PROVE  Spec => []HandoffsAreBacked
<1>1. ResearchInv => HandoffsAreBacked
  BY DEF ResearchInv, FilesInv
<1> QED  BY <1>1, InvAlwaysHolds, PTL

-----------------------------------------------------------------------------
(* What errors and deaths leave behind.                                    *)

NoneTorn == \A kind \in Directories : Searchable(files[kind])

\* A document somebody has a receipt for, or is about to; and an admitted
\* source with its handoff, or about to have it.
Receipted(d) == \E name \in Retrieved : files.receipts[name] = d
OnItsWay(d) == job.at \in {"metadata", "receipt"} /\ job.document = d
Claimed(id) == \E h \in Readable(files.handoffs) : files.handoffs[h].source = id
BeingClaimed(id) == job.at = "handed_over" /\ job.admitted = id

LEMMA LeftBehind ==
  /\ Unreceipted = {d \in DOMAIN files.contents : ~Receipted(d) /\ ~OnItsWay(d)}
  /\ UnreceiptedHandoffs = {id \in DOMAIN files.admitted : ~Claimed(id) /\ ~BeingClaimed(id)}
BY DEF Unreceipted, UnreceiptedHandoffs, Receipted, OnItsWay, Claimed, BeingClaimed

LEMMA LeftBehindNext ==
  /\ Unreceipted' = {d \in DOMAIN files'.contents : ~Receipted(d)' /\ ~OnItsWay(d)'}
  /\ UnreceiptedHandoffs'
       = {id \in DOMAIN files'.admitted : ~Claimed(id)' /\ ~BeingClaimed(id)'}
BY DEF Unreceipted, UnreceiptedHandoffs, Receipted, OnItsWay, Claimed, BeingClaimed

\* Receipts and handoffs on file stay there.
LEMMA ReceiptedStays ==
  ASSUME Grows("receipts")
  PROVE  \A d : Receipted(d) => Receipted(d)'
BY RetrievedGrows DEF Receipted

LEMMA ClaimedStays ==
  ASSUME Grows("handoffs")
  PROVE  \A id : Claimed(id) => Claimed(id)'
BY DEF Claimed, Grows

\* A step leaves nothing more behind when what it adds is on its way and what
\* was on its way still is, or has arrived.
LEMMA NoDocumentLeft ==
  ASSUME Grows("receipts"),
         \A d \in DOMAIN files'.contents : d \in DOMAIN files.contents \/ OnItsWay(d)',
         \A d : OnItsWay(d) => OnItsWay(d)' \/ Receipted(d)'
  PROVE  Unreceipted' \subseteq Unreceipted
BY ReceiptedStays, LeftBehind, LeftBehindNext

LEMMA NoSourceLeft ==
  ASSUME Grows("handoffs"),
         \A id \in DOMAIN files'.admitted : id \in DOMAIN files.admitted \/ BeingClaimed(id)',
         \A id : BeingClaimed(id) => BeingClaimed(id)' \/ Claimed(id)'
  PROVE  UnreceiptedHandoffs' \subseteq UnreceiptedHandoffs
BY ClaimedStays, LeftBehind, LeftBehindNext

LEMMA LeftAreFinite ==
  ASSUME FilesShape
  PROVE  IsFiniteSet(Unreceipted) /\ IsFiniteSet(UnreceiptedHandoffs)
<1>1. IsFiniteSet(DOMAIN files.contents) /\ IsFiniteSet(DOMAIN files.admitted)
  BY DEF FilesShape, Directories
<1>2. /\ Unreceipted \subseteq DOMAIN files.contents
      /\ UnreceiptedHandoffs \subseteq DOMAIN files.admitted
  BY LeftBehind
<1> QED  BY <1>1, <1>2, FS_Subset

\* Two finite sets that shrink, or one that gains an element.
LEMMA NoMore ==
  ASSUME NEW S, NEW T, NEW U, NEW V, IsFiniteSet(S), IsFiniteSet(T), NEW n \in Nat,
         Cardinality(S) + Cardinality(T) <= n, U \subseteq S, V \subseteq T
  PROVE  Cardinality(U) + Cardinality(V) <= n
<1>1. /\ IsFiniteSet(U) /\ Cardinality(U) <= Cardinality(S)
      /\ IsFiniteSet(V) /\ Cardinality(V) <= Cardinality(T)
  BY FS_Subset
<1>2. /\ Cardinality(U) \in Nat /\ Cardinality(S) \in Nat
      /\ Cardinality(V) \in Nat /\ Cardinality(T) \in Nat
  BY <1>1, FS_CardinalityType
<1> QED  BY <1>1, <1>2

LEMMA OneMore ==
  ASSUME NEW S, NEW T, NEW U, NEW V, NEW x, IsFiniteSet(S), IsFiniteSet(T), NEW n \in Nat,
         Cardinality(S) + Cardinality(T) <= n, U \subseteq S \union {x}, V \subseteq T
  PROVE  Cardinality(U) + Cardinality(V) <= n + 1
<1>1. CASE x \notin S
  <2>1. /\ IsFiniteSet(S \union {x}) /\ Cardinality(S \union {x}) = Cardinality(S) + 1
        /\ Cardinality(S) \in Nat /\ Cardinality(T) \in Nat
    BY <1>1, FS_AddElement, FS_CardinalityType
  <2>2. Cardinality(S \union {x}) + Cardinality(T) <= n + 1
    BY <2>1
  <2> QED  BY <2>1, <2>2, NoMore
<1>2. CASE x \in S
  <2>1. Cardinality(U) + Cardinality(V) <= n
    BY <1>2, NoMore
  <2>2. IsFiniteSet(U) /\ IsFiniteSet(V)
    BY <1>2, FS_Subset
  <2> QED  BY <2>1, <2>2, FS_CardinalityType
<1> QED  BY <1>1, <1>2

NothingLeft ==
  /\ Unreceipted' \subseteq Unreceipted
  /\ UnreceiptedHandoffs' \subseteq UnreceiptedHandoffs

LEMMA QuietLeavesNothing ==
  ASSUME files' = files, job.at \notin {"metadata", "receipt", "handed_over"}
  PROVE  NothingLeft
<1>1. Grows("receipts") /\ Grows("handoffs")
  BY DEF Grows
<1>2. \A x : ~OnItsWay(x) /\ ~BeingClaimed(x)
  BY DEF OnItsWay, BeingClaimed
<1> QED  BY <1>1, <1>2, NoDocumentLeft, NoSourceLeft DEF NothingLeft

\* A write that is not of a document's content or of an admitted source, by a
\* run that has nothing on its way.
LEMMA WriteLeavesNothing ==
  ASSUME FilesShape, NEW kind \in {"plans", "candidates", "receipts"}, NEW name, NEW body,
         NEW next, Save(kind, name, body, FALSE, next),
         job.at \notin {"metadata", "receipt", "handed_over"}
  PROVE  NothingLeft
<1>1. kind \in Directories
  BY DEF Directories
<1>2. /\ Grows("receipts") /\ Grows("handoffs")
  BY <1>1, WrittenGrows, DirectoryNames
<1>3. files'["contents"] = files["contents"] /\ files'["admitted"] = files["admitted"]
  <2>1. \A k \in Directories : k # kind => files'[k] = files[k]
    BY <1>1, SaveWrites
  <2> QED  BY <2>1 DEF Directories
<1>4. \A x : ~OnItsWay(x) /\ ~BeingClaimed(x)
  BY DEF OnItsWay, BeingClaimed
<1> QED  BY <1>2, <1>3, <1>4, NoDocumentLeft, NoSourceLeft DEF NothingLeft

LEMMA RecordFailureLeavesNothing ==
  ASSUME FilesShape, Acquiring, NEW status, NEW of, RecordFailure(status, of, FALSE)
  PROVE  NothingLeft
<1>1. job.at \notin {"metadata", "receipt", "handed_over"}
  BY DEF Acquiring
<1>2. PICK name, next : Save("receipts", name, 0, FALSE, next) \/ files' = files
  BY DEF RecordFailure, GoOn
<1> QED  BY <1>1, <1>2, QuietLeavesNothing, WriteLeavesNothing

LEMMA SaveContentLeavesNothing ==
  ASSUME FilesShape, NEW content, NEW media, SaveContent(content, media, FALSE)
  PROVE  NothingLeft
<1>1. PICK d, run : d = Fresh("contents") /\ run = job
  OBVIOUS
<1>2. PICK next : next = [at |-> "metadata", document |-> d, content |-> content,
                          media |-> media, then |-> run]
  OBVIOUS
<1>3. Save("contents", d, content, FALSE, next) /\ job.at = "acquire"
  BY <1>1, <1>2 DEF SaveContent, Acquiring
<1>4. /\ \A k \in Directories : k # "contents" => Reads(k) /\ Grows(k)
      /\ job' = next
  BY <1>3, WrittenGrows, DirectoryNames
<1>5. /\ DOMAIN files'["contents"] = DOMAIN files["contents"] \union {d}
      /\ files'["admitted"] = files["admitted"]
  <2>1. Puts("contents", d, content)
    BY <1>3, SavePuts, DirectoryNames
  <2> QED  BY <2>1, DirectoryNames DEF Puts
<1>6. next.at = "metadata" /\ next.document = d
  BY <1>2
<1>7. OnItsWay(d)'
  BY <1>4, <1>6 DEF OnItsWay
<1>8. \A x : ~OnItsWay(x) /\ ~BeingClaimed(x)
  BY <1>3 DEF OnItsWay, BeingClaimed
<1>9. Unreceipted' \subseteq Unreceipted
  BY <1>4, <1>5, <1>7, <1>8, NoDocumentLeft DEF Directories
<1>10. UnreceiptedHandoffs' \subseteq UnreceiptedHandoffs
  BY <1>4, <1>5, <1>8, NoSourceLeft DEF Directories
<1> QED  BY <1>9, <1>10 DEF NothingLeft

LEMMA SaveMetadataLeavesNothing ==
  ASSUME ResearchInv, SaveMetadata(FALSE)
  PROVE  NothingLeft
<1>1. /\ FilesShape /\ job.at = "metadata"
      /\ DOMAIN job = {"at", "document", "content", "media", "then"}
  BY WritingAt DEF SaveMetadata, Writing, ResearchInv, FilesInv
<1>2. PICK d, body, next : /\ d = job.document /\ next = [job EXCEPT !.at = "receipt"]
                           /\ Save("documents", d, body, FALSE, next)
  BY DEF SaveMetadata
<1>3. /\ \A k \in Directories : k # "documents" => Reads(k) /\ Grows(k)
      /\ job' = next
  BY <1>1, <1>2, WrittenGrows, DirectoryNames
<1>4. files'["contents"] = files["contents"] /\ files'["admitted"] = files["admitted"]
  <2>1. Puts("documents", d, body)
    BY <1>1, <1>2, SavePuts, DirectoryNames
  <2> QED  BY <2>1, DirectoryNames DEF Puts
<1>5. next.at = "receipt" /\ next.document = d
  BY <1>1, <1>2
<1>6. \A x : OnItsWay(x) => OnItsWay(x)'
  BY <1>2, <1>3, <1>5 DEF OnItsWay
<1>7. \A x : ~BeingClaimed(x)
  BY <1>1 DEF BeingClaimed
<1>8. Unreceipted' \subseteq Unreceipted
  BY <1>3, <1>4, <1>6, NoDocumentLeft DEF Directories
<1>9. UnreceiptedHandoffs' \subseteq UnreceiptedHandoffs
  BY <1>3, <1>4, <1>7, NoSourceLeft DEF Directories
<1> QED  BY <1>8, <1>9 DEF NothingLeft

LEMMA SaveReceiptLeavesNothing ==
  ASSUME WritesAreWhole, ResearchInv, SaveReceipt(FALSE)
  PROVE  NothingLeft
<1>1. PICK d, name, next :
        /\ d = job.document /\ name.status = "RETRIEVED"
        /\ Save("receipts", name, d, FALSE, next)
  <2>1. \E name : name.status = "RETRIEVED"
                  /\ \E next : Save("receipts", name, job.document, FALSE, next)
    <3> DEFINE name == [source |-> Head(job.then.todo), status |-> "RETRIEVED",
                        of |-> job.content]
               next == Acquired([job.then EXCEPT !.documents = Append(@, job.document)])
    <3>1. Save("receipts", name, job.document, FALSE, next) /\ name.status = "RETRIEVED"
      BY DEF SaveReceipt
    <3> QED  BY <3>1
  <2> QED  BY <2>1
<1>2. FilesShape /\ d \in Nat /\ job.at = "receipt" /\ d # Torn
  BY <1>1, WritingAt DEF SaveReceipt, Writing, ResearchInv, FilesInv, WritesAreWhole
<1>3. /\ \A k \in Directories : k # "receipts" => Reads(k) /\ Grows(k)
      /\ Grows("receipts") /\ job' = next
  BY <1>1, <1>2, WrittenGrows, DirectoryNames
<1>4. /\ files'["contents"] = files["contents"] /\ files'["admitted"] = files["admitted"]
      /\ files'["receipts"][name] = d
  <2>1. Puts("receipts", name, d)
    BY <1>1, <1>2, SavePuts, DirectoryNames
  <2> QED  BY <2>1, DirectoryNames DEF Puts
<1>5. name \in Readable(files'["receipts"])
  <2>1. Gains("receipts", name)
    BY <1>1, <1>2, SaveGains, DirectoryNames
  <2> QED  BY <2>1 DEF Gains
<1>6. Receipted(d)'
  BY <1>1, <1>4, <1>5 DEF Receipted, Retrieved
<1>7. \A x : OnItsWay(x) => x = d
  BY <1>1 DEF OnItsWay
<1>8. \A x : ~BeingClaimed(x)
  BY <1>2 DEF BeingClaimed
<1>9. Unreceipted' \subseteq Unreceipted
  BY <1>3, <1>4, <1>6, <1>7, NoDocumentLeft
<1>10. UnreceiptedHandoffs' \subseteq UnreceiptedHandoffs
  BY <1>3, <1>4, <1>8, NoSourceLeft DEF Directories
<1> QED  BY <1>9, <1>10 DEF NothingLeft

LEMMA AdmitLeavesNothing ==
  ASSUME ResearchInv, Admit(FALSE)
  PROVE  NothingLeft
<1>1. FilesShape /\ DOMAIN job = RunFields /\ job.at = "hand_over"
  BY RunAt DEF Admit, HandingOver, Working, RunSteps, ResearchInv, FilesInv, Holds
<1>2. PICK id, next : /\ id = Fresh("admitted")
                      /\ next = [job EXCEPT !.at = "handed_over", !.admitted = id]
                      /\ Save("admitted", id, Document.content, FALSE, next)
  BY DEF Admit
<1>3. PICK content : Save("admitted", id, content, FALSE, next)
  BY <1>2
<1>4. /\ \A k \in Directories : k # "admitted" => Reads(k) /\ Grows(k)
      /\ job' = next
  BY <1>1, <1>3, WrittenGrows, DirectoryNames
<1>5. /\ DOMAIN files'["admitted"] = DOMAIN files["admitted"] \union {id}
      /\ files'["contents"] = files["contents"]
  <2>1. Puts("admitted", id, content)
    BY <1>1, <1>3, SavePuts, DirectoryNames
  <2> QED  BY <2>1, DirectoryNames DEF Puts
<1>6. next.at = "handed_over" /\ next.admitted = id
  BY <1>1, <1>2 DEF RunFields
<1>7. BeingClaimed(id)'
  BY <1>4, <1>6 DEF BeingClaimed
<1>8. \A x : ~OnItsWay(x) /\ ~BeingClaimed(x)
  BY <1>1 DEF OnItsWay, BeingClaimed
<1>9. Unreceipted' \subseteq Unreceipted
  BY <1>4, <1>5, <1>8, NoDocumentLeft DEF Directories
<1>10. UnreceiptedHandoffs' \subseteq UnreceiptedHandoffs
  BY <1>4, <1>5, <1>7, <1>8, NoSourceLeft DEF Directories
<1> QED  BY <1>9, <1>10 DEF NothingLeft

LEMMA SaveHandoffLeavesNothing ==
  ASSUME WritesAreWhole, ResearchInv, SaveHandoff(FALSE)
  PROVE  NothingLeft
<1>1. FilesShape /\ job.at = "handed_over"
  BY DEF SaveHandoff, ResearchInv, FilesInv
<1>2. PICK id, body, next :
        /\ body.source = job.admitted /\ body # Torn
        /\ Save("handoffs", id, body, FALSE, next)
  <2>1. PICK d, r : Save("handoffs", Fresh("handoffs"),
                         [document |-> d, source |-> job.admitted, receipt |-> r], FALSE,
                         [job EXCEPT !.at = "hand_over", !.documents = Tail(@)])
    BY DEF SaveHandoff
  <2>2. PICK body : body = [document |-> d, source |-> job.admitted, receipt |-> r]
    OBVIOUS
  <2>3. body # Torn /\ body.source = job.admitted
    BY <2>2 DEF WritesAreWhole
  <2> QED  BY <2>1, <2>2, <2>3
<1>3. /\ \A k \in Directories : k # "handoffs" => Reads(k) /\ Grows(k)
      /\ Grows("handoffs") /\ job' = next
  BY <1>1, <1>2, WrittenGrows, DirectoryNames
<1>4. /\ files'["contents"] = files["contents"] /\ files'["admitted"] = files["admitted"]
      /\ files'["handoffs"][id] = body
  <2>1. Puts("handoffs", id, body)
    BY <1>1, <1>2, SavePuts, DirectoryNames
  <2> QED  BY <2>1, DirectoryNames DEF Puts
<1>5. id \in Readable(files'["handoffs"])
  <2>1. Gains("handoffs", id)
    BY <1>1, <1>2, SaveGains, DirectoryNames
  <2> QED  BY <2>1 DEF Gains
<1>7. \A x : BeingClaimed(x) => Claimed(x)'
  BY <1>2, <1>4, <1>5 DEF Claimed, BeingClaimed
<1>8. \A x : ~OnItsWay(x)
  BY <1>1 DEF OnItsWay
<1>9. Unreceipted' \subseteq Unreceipted
  BY <1>3, <1>4, <1>8, NoDocumentLeft DEF Directories
<1>10. UnreceiptedHandoffs' \subseteq UnreceiptedHandoffs
  BY <1>3, <1>4, <1>7, NoSourceLeft
<1> QED  BY <1>9, <1>10 DEF NothingLeft

LEMMA SavesLeaveNothing ==
  ASSUME WritesAreWhole, ResearchInv, Progress(FALSE)
  PROVE  NothingLeft
<1>1. FilesShape
  BY DEF ResearchInv, FilesInv
<1>2. CASE CreatePlan(FALSE)
  <2>1. PICK plan, next : Save("plans", plan, "plan", FALSE, next)
    BY <1>2 DEF CreatePlan
  <2>2. job.at \notin {"metadata", "receipt", "handed_over"}
    BY <1>2 DEF CreatePlan
  <2> QED  BY <1>1, <2>1, <2>2, WriteLeavesNothing
<1>3. CASE SaveCandidate(FALSE)
  <2>1. PICK id, body, next : Save("candidates", id, body, FALSE, next)
    BY <1>3 DEF SaveCandidate
  <2>2. job.at \notin {"metadata", "receipt", "handed_over"}
    BY <1>3 DEF SaveCandidate
  <2> QED  BY <1>1, <2>1, <2>2, WriteLeavesNothing
<1>4. ASSUME NoProvider(FALSE)
             \/ (\E status \in Failures : ProviderFails(status, FALSE))
             \/ (\E content \in Contents, media \in Media : Duplicate(content, media, FALSE))
      PROVE  NothingLeft
  <2>1. PICK status, of : Acquiring /\ RecordFailure(status, of, FALSE)
    BY <1>4 DEF NoProvider, ProviderFails, Duplicate
  <2> QED  BY <1>1, <2>1, RecordFailureLeavesNothing
<1>5. ASSUME NEW content \in Contents, NEW media \in Media, SaveContent(content, media, FALSE)
      PROVE  NothingLeft
  BY <1>1, <1>5, SaveContentLeavesNothing
<1> QED  BY <1>2, <1>3, <1>4, <1>5, SaveMetadataLeavesNothing, SaveReceiptLeavesNothing,
            AdmitLeavesNothing, SaveHandoffLeavesNothing DEF Progress

\* A step that is not cut writes one file or none.
LEMMA SaveIsASave ==
  ASSUME Progress(FALSE)
  PROVE  /\ faults' = faults
         /\ \/ files' = files
            \/ \E kind \in Directories :
                 \E name, body, next : Save(kind, name, body, FALSE, next)
<1> DEFINE Goal == /\ faults' = faults
                   /\ \/ files' = files
                      \/ \E kind \in Directories :
                           \E name, body, next : Save(kind, name, body, FALSE, next)
<1> SUFFICES Goal
  OBVIOUS
<1>1. ASSUME NEW kind \in Directories, NEW name, NEW body, NEW next,
             Save(kind, name, body, FALSE, next)
      PROVE  Goal
  <2>1. faults' = faults
    BY <1>1 DEF Save
  <2> QED  BY <1>1, <2>1
<1> HIDE DEF Goal
<1>2. CASE CreatePlan(FALSE)
  BY <1>1, <1>2 DEF CreatePlan, Directories
<1>3. CASE SaveCandidate(FALSE)
  BY <1>1, <1>3 DEF SaveCandidate, Directories
<1>4. ASSUME NoProvider(FALSE)
             \/ (\E status \in Failures : ProviderFails(status, FALSE))
             \/ (\E content \in Contents, media \in Media : Duplicate(content, media, FALSE))
      PROVE  Goal
  <2>1. PICK status, of : RecordFailure(status, of, FALSE)
    BY <1>4 DEF NoProvider, ProviderFails, Duplicate
  <2>2. PICK name, next : \/ Save("receipts", name, 0, FALSE, next)
                          \/ files' = files /\ faults' = faults
    BY <2>1 DEF RecordFailure, GoOn
  <2>3. CASE files' = files /\ faults' = faults
    BY <2>3 DEF Goal
  <2> QED  BY <1>1, <2>2, <2>3 DEF Directories
<1>5. ASSUME NEW content \in Contents, NEW media \in Media, SaveContent(content, media, FALSE)
      PROVE  Goal
  BY <1>1, <1>5 DEF SaveContent, Directories
<1>6. CASE SaveMetadata(FALSE)
  BY <1>1, <1>6 DEF SaveMetadata, Directories
<1>7. CASE SaveReceipt(FALSE)
  BY <1>1, <1>7 DEF SaveReceipt, Directories
<1>8. CASE Admit(FALSE)
  BY <1>1, <1>8 DEF Admit, Directories
<1>9. CASE SaveHandoff(FALSE)
  BY <1>1, <1>9 DEF SaveHandoff, Directories
<1> QED  BY <1>2, <1>3, <1>4, <1>5, <1>6, <1>7, <1>8, <1>9 DEF Progress

\* Files are never removed and never change.
LEMMA FilesOnlyGrow ==
  ASSUME FilesShape, Next
  PROVE  \A kind \in Directories : \A n \in DOMAIN files[kind] :
           n \in DOMAIN files'[kind] /\ files'[kind][n] = files[kind][n]
<1>1. ASSUME NEW k \in Directories, NEW name, NEW body, NEW next, NEW cut \in BOOLEAN,
             Save(k, name, body, TRUE, next) \/ Save(k, name, body, FALSE, next)
      PROVE  \A kind \in Directories : \A n \in DOMAIN files[kind] :
               n \in DOMAIN files'[kind] /\ files'[kind][n] = files[kind][n]
  <2>1. /\ \A kind \in Directories : kind # k => files'[kind] = files[kind]
        /\ \E new : DOMAIN files'[k] = DOMAIN files[k] \union {new}
        /\ \A n \in DOMAIN files[k] : files'[k][n] = files[k][n]
    <3>1. CASE Save(k, name, body, TRUE, next)
      BY <3>1, CutWrites
    <3>2. CASE Save(k, name, body, FALSE, next)
      BY <3>2, SaveWrites
    <3> QED  BY <1>1, <3>1, <3>2
  <2> QED  BY <2>1
<1>2. CASE files' = files
  BY <1>2
<1>3. ASSUME (\E p \in Plans, bridge \in BOOLEAN : Begin(p, bridge))
             \/ LoadPlan \/ SkipCandidate \/ EndDiscovery \/ EndAcquisition
             \/ EndRun \/ ContentRefused \/ HandoffRefused \/ MeetsTornFile \/ Fault
      PROVE  files' = files
  BY <1>3 DEF Begin, LoadPlan, SkipCandidate, EndDiscovery, EndAcquisition, EndRun,
     ContentRefused, HandoffRefused, MeetsTornFile, Fault, GoOn
<1> QED  BY <1>1, <1>2, <1>3, StepsAre, SaveIsASave, CutIsASave

\* A step that meets no torn file and is no fault leaves nothing more behind.
LEMMA StepsLeaveNothing ==
  ASSUME WritesAreWhole, ResearchInv, Next, NoneTorn', ~Fault
  PROVE  NothingLeft /\ faults' = faults
<1>1. CASE Progress(FALSE)
  BY <1>1, SaveIsASave, SavesLeaveNothing
<1>2. ASSUME Progress(TRUE)
      PROVE  FALSE
  <2>1. PICK kind \in Directories : \E name, body, next : Save(kind, name, body, TRUE, next)
    BY <1>2, CutIsASave
  <2>1a. PICK name, body, next : Save(kind, name, body, TRUE, next)
    BY <2>1
  <2>2. name \in DOMAIN files'[kind] /\ files'[kind][name] = Torn
    BY <2>1a, CutWrites DEF ResearchInv, FilesInv
  <2> QED  BY <2>2 DEF NoneTorn, Searchable
<1>3. ASSUME NEW p \in Plans, NEW bridge \in BOOLEAN, Begin(p, bridge)
      PROVE  NothingLeft /\ faults' = faults
  <2>1. job.at = "idle"
    BY <1>3 DEF Begin, Idle
  <2> QED  BY <1>3, <2>1, QuietLeavesNothing DEF Begin
<1>4. ASSUME LoadPlan \/ SkipCandidate \/ EndDiscovery \/ EndAcquisition
             \/ EndRun \/ ContentRefused \/ HandoffRefused
      PROVE  NothingLeft /\ faults' = faults
  <2>1. /\ files' = files /\ faults' = faults
        /\ job.at \notin {"metadata", "receipt", "handed_over"}
    BY <1>4 DEF LoadPlan, SkipCandidate, EndDiscovery, EndAcquisition, EndRun,
       ContentRefused, HandoffRefused, GoOn, Acquiring, HandingOver
  <2> QED  BY <2>1, QuietLeavesNothing
<1>5. ASSUME MeetsTornFile
      PROVE  FALSE
  <2>1. files' = files
    BY <1>5 DEF MeetsTornFile, GoOn
  <2>2. NoneTorn
    BY <2>1 DEF NoneTorn, Searchable
  <2>3. Searched \subseteq Directories
    BY DEF Searched, Directories
  <2>4. files.plans = files["plans"] /\ Searchable(files["plans"])
    BY <2>2 DEF NoneTorn, Directories
  <2>5. DOMAIN files.plans \ Readable(files.plans) = {}
    BY <2>4 DEF Searchable, Readable
  <2> QED  BY <1>5, <2>2, <2>3, <2>5 DEF MeetsTornFile, NoneTorn
<1> QED  BY <1>1, <1>2, <1>3, <1>4, <1>5, StepsAre

LEMMA FaultLeavesLittle ==
  ASSUME ResearchInv, Fault
  PROVE  \/ \E x : /\ Unreceipted' \subseteq Unreceipted \union {x}
                   /\ UnreceiptedHandoffs' \subseteq UnreceiptedHandoffs
         \/ \E x : /\ Unreceipted' \subseteq Unreceipted
                   /\ UnreceiptedHandoffs' \subseteq UnreceiptedHandoffs \union {x}
<1>1. files' = files
  BY DEF Fault
<1>2. (\A x : Receipted(x)' <=> Receipted(x)) /\ (\A x : Claimed(x)' <=> Claimed(x))
  BY <1>1 DEF Receipted, Claimed, Retrieved
<1>3. CASE job.at = "handed_over"
  <2>1. \A x : ~OnItsWay(x)
    BY <1>3 DEF OnItsWay
  <2>2. \A x : BeingClaimed(x) => x = job.admitted
    BY DEF BeingClaimed
  <2>3. Unreceipted' \subseteq Unreceipted
    BY <1>1, <1>2, <2>1, LeftBehind, LeftBehindNext
  <2>4. UnreceiptedHandoffs' \subseteq UnreceiptedHandoffs \union {job.admitted}
    BY <1>1, <1>2, <2>2, LeftBehind, LeftBehindNext
  <2> QED  BY <2>3, <2>4
<1>4. CASE job.at # "handed_over"
  <2>1. \A x : ~BeingClaimed(x)
    BY <1>4 DEF BeingClaimed
  <2>2. \A x : OnItsWay(x) => x = job.document
    BY DEF OnItsWay
  <2>3. UnreceiptedHandoffs' \subseteq UnreceiptedHandoffs
    BY <1>1, <1>2, <2>1, LeftBehind, LeftBehindNext
  <2>4. Unreceipted' \subseteq Unreceipted \union {job.document}
    BY <1>1, <1>2, <2>2, LeftBehind, LeftBehindNext
  <2> QED  BY <2>3, <2>4
<1> QED  BY <1>3, <1>4

\* A file that is torn stays torn.
LEMMA TornStays ==
  ASSUME ResearchInv, Next, NoneTorn'
  PROVE  NoneTorn
<1>1. ASSUME NEW kind \in Directories, NEW n \in DOMAIN files[kind]
      PROVE  n \in DOMAIN files'[kind] /\ files'[kind][n] = files[kind][n]
  BY FilesOnlyGrow DEF ResearchInv, FilesInv
<1> QED  BY <1>1 DEF NoneTorn, Searchable

LeavesLittle == faults \in Nat /\ FaultsLeaveLittle

LEMMA LittleAtFirst ==
  Init => LeavesLittle
<1> SUFFICES ASSUME Init PROVE LeavesLittle
  OBVIOUS
<1>1. files["contents"] = <<>> /\ files["admitted"] = <<>>
  BY DEF Init, Directories
<1>2. DOMAIN <<>> = {}
  OBVIOUS
<1>3. Unreceipted = {} /\ UnreceiptedHandoffs = {}
  BY <1>1, <1>2, LeftBehind
<1>4. Cardinality({}) = 0
  BY FS_EmptySet
<1>5. faults = 0
  BY DEF Init
<1> QED  BY <1>3, <1>4, <1>5 DEF LeavesLittle, FaultsLeaveLittle

LEMMA LittleIsKept ==
  ASSUME WritesAreWhole
  PROVE  ResearchInv /\ LeavesLittle /\ [Next]_vars => LeavesLittle'
<1> SUFFICES ASSUME ResearchInv, LeavesLittle, [Next]_vars PROVE LeavesLittle'
  OBVIOUS
<1>1. ASSUME UNCHANGED vars PROVE LeavesLittle'
  <2>1. /\ files' = files /\ job' = job /\ faults' = faults
    BY <1>1 DEF vars
  <2>2. (\A x : Receipted(x)' <=> Receipted(x)) /\ (\A x : Claimed(x)' <=> Claimed(x))
        /\ (\A x : OnItsWay(x)' <=> OnItsWay(x)) /\ (\A x : BeingClaimed(x)' <=> BeingClaimed(x))
    BY <2>1 DEF Receipted, Claimed, Retrieved, OnItsWay, BeingClaimed
  <2>3. Unreceipted' = Unreceipted /\ UnreceiptedHandoffs' = UnreceiptedHandoffs
    BY <2>1, <2>2, LeftBehind, LeftBehindNext
  <2> QED  BY <2>1, <2>3 DEF LeavesLittle, FaultsLeaveLittle, Searchable
<1>2. ASSUME Next PROVE LeavesLittle'
  <2>1. FilesShape /\ IsFiniteSet(Unreceipted) /\ IsFiniteSet(UnreceiptedHandoffs)
    BY LeftAreFinite DEF ResearchInv, FilesInv
  <2>2. faults \in Nat
    BY DEF LeavesLittle
  <2>3. faults' \in Nat
    <3>1. CASE Progress(FALSE)
      BY <2>2, <3>1, SaveIsASave
    <3>2. CASE Progress(TRUE)
      <4>1. PICK kind \in Directories : \E name, body, next : Save(kind, name, body, TRUE, next)
        BY <3>2, CutIsASave
      <4>2. PICK name, body, next : Save(kind, name, body, TRUE, next)
        BY <4>1
      <4>3. faults' = faults + 1
        BY <2>1, <4>2, CutWrites
      <4> QED  BY <2>2, <4>3
    <3>3. ASSUME (\E p \in Plans, bridge \in BOOLEAN : Begin(p, bridge))
                 \/ LoadPlan \/ SkipCandidate \/ EndDiscovery \/ EndAcquisition
                 \/ EndRun \/ ContentRefused \/ HandoffRefused \/ MeetsTornFile \/ Fault
          PROVE  faults' \in Nat
      <4>1. CASE Fault
        <5>1. faults' = faults + 1
          BY <4>1 DEF Fault
        <5> QED  BY <2>2, <5>1
      <4>2. CASE ~Fault
        <5>1. faults' = faults
          BY <3>3, <4>2 DEF Begin, LoadPlan, SkipCandidate, EndDiscovery, EndAcquisition,
             EndRun, ContentRefused, HandoffRefused, MeetsTornFile, GoOn
        <5> QED  BY <2>2, <5>1
      <4> QED  BY <4>1, <4>2
    <3> QED  BY <1>2, <3>1, <3>2, <3>3, StepsAre
  <2>4. ASSUME NoneTorn'
        PROVE  (Cardinality(Unreceipted) + Cardinality(UnreceiptedHandoffs) <= faults)'
    <3>1. Cardinality(Unreceipted) + Cardinality(UnreceiptedHandoffs) <= faults
      BY <1>2, <2>4, TornStays DEF LeavesLittle, FaultsLeaveLittle, NoneTorn
    <3>2. CASE ~Fault
      <4>1. /\ Unreceipted' \subseteq Unreceipted
            /\ UnreceiptedHandoffs' \subseteq UnreceiptedHandoffs
            /\ faults' = faults
        BY <1>2, <2>4, <3>2, StepsLeaveNothing DEF NothingLeft
      <4> QED  BY <2>1, <2>2, <3>1, <4>1, NoMore
    <3>3. CASE Fault
      <4>1. faults' = faults + 1
        BY <3>3 DEF Fault
      <4>2. ASSUME NEW x, Unreceipted' \subseteq Unreceipted \union {x},
                   UnreceiptedHandoffs' \subseteq UnreceiptedHandoffs
            PROVE  Cardinality(Unreceipted') + Cardinality(UnreceiptedHandoffs') <= faults + 1
        BY <2>1, <2>2, <3>1, <4>2, OneMore
      <4>3. ASSUME NEW x, Unreceipted' \subseteq Unreceipted,
                   UnreceiptedHandoffs' \subseteq UnreceiptedHandoffs \union {x}
            PROVE  Cardinality(Unreceipted') + Cardinality(UnreceiptedHandoffs') <= faults + 1
        <5>1. Cardinality(UnreceiptedHandoffs) + Cardinality(Unreceipted) <= faults
          BY <2>1, <3>1, FS_CardinalityType
        <5>2. Cardinality(UnreceiptedHandoffs') + Cardinality(Unreceipted') <= faults + 1
          BY <2>1, <2>2, <4>3, <5>1, OneMore
        <5>3. IsFiniteSet(Unreceipted') /\ IsFiniteSet(UnreceiptedHandoffs')
          BY <2>1, <4>3, FS_Subset, FS_AddElement
        <5> QED  BY <5>2, <5>3, FS_CardinalityType
      <4> QED  BY <3>3, <4>1, <4>2, <4>3, FaultLeavesLittle
    <3> QED  BY <3>2, <3>3
  <2> QED  BY <2>3, <2>4 DEF LeavesLittle, FaultsLeaveLittle, NoneTorn
<1> QED  BY <1>1, <1>2

\* However many runs are made, as long as no file is torn an error or a death
\* leaves at most one document without a receipt, or one admitted source
\* without its handoff: nothing that was cut off is acquired again.
THEOREM FaultsAlwaysLeaveLittle ==
  ASSUME WritesAreWhole
  PROVE  Spec => []FaultsLeaveLittle
<1>1. Init => ResearchInv /\ LeavesLittle
  BY InvHoldsAtFirst, LittleAtFirst
<1>2. ResearchInv /\ LeavesLittle /\ [Next]_vars => ResearchInv' /\ LeavesLittle'
  BY InvIsKept, LittleIsKept
<1>3. LeavesLittle => FaultsLeaveLittle
  BY DEF LeavesLittle
<1> QED  BY <1>1, <1>2, <1>3, PTL DEF Spec
=============================================================================
