------------------------------ MODULE Research ------------------------------
(***************************************************************************)
(* Research acquisition (AIN-303.1) and the bridge that hands what it      *)
(* retrieved to the evidence lifecycle (AIN-303.2).  Everything a run      *)
(* keeps is in write-once files; what it holds in memory is lost when it   *)
(* raises or dies, and a later run of the same request starts over on the  *)
(* files it left.                                                          *)
(*                                                                         *)
(* One action is one file written.  A plan stands for the deterministic    *)
(* identifier of its logical request, an entry for one source of the       *)
(* catalog; candidates, documents and admitted sources have fresh          *)
(* identifiers (uuid4).  Providers use one acquisition method.             *)
(***************************************************************************)
EXTENDS Naturals, Sequences, FiniteSets, SequencesExt, WriteOnce

CONSTANTS
  Plans,           \* logical research requests
  Entries,         \* entries of the source catalog
  Matching,        \* Matching[p]: the entries a plan's criteria select
  Authority,       \* Authority[e]: the rank of an entry, highest first
  MaximumSources,  \* entries a plan takes
  Contents,        \* contents a provider may return, by their hash
  Media,           \* the media type it may return them with
  Failures,        \* the failures it may report
  MaxRuns,         \* bound: runs begun
  MaxFaults        \* bound: errors and deaths

VARIABLES files, job, runs, faults

vars == <<files, job, runs, faults>>

\* Acquisition and admission both take text; a binary document is acquired
\* and not admitted, and any other media type is refused by acquisition.
MediaTypes == {"text", "binary", "other"}

Statuses == {"NOT_FOUND", "ACCESS_DENIED", "TIMEOUT", "FAILED"}

ASSUME ResearchAssumption ==
  /\ IsFiniteSet(Entries)
  /\ Matching \in [Plans -> SUBSET Entries]
  /\ Authority \in [Entries -> Nat]
  /\ \A d, e \in Entries : Authority[d] = Authority[e] => d = e
  /\ Media \subseteq MediaTypes /\ Failures \subseteq Statuses
  /\ MaximumSources \in Nat \ {0} /\ MaxRuns \in Nat /\ MaxFaults \in Nat

Directories ==
  {"plans", "candidates", "contents", "documents", "receipts", "admitted",
   "handoffs"}

Idle == [at |-> "idle"]

Init ==
  /\ files = [kind \in Directories |-> <<>>]
  /\ job = Idle
  /\ runs = 0
  /\ faults = 0

-----------------------------------------------------------------------------

\* Entries by their authority: the one at i has i - 1 others above it.
Ranked(entries) ==
  [i \in 1..Cardinality(entries) |->
     CHOOSE e \in entries :
       Cardinality({d \in entries : Authority[d] > Authority[e]}) = i - 1]

Cuts == IF faults < MaxFaults THEN BOOLEAN ELSE {FALSE}

Fresh(kind) == Cardinality(DOMAIN files[kind]) + 1

\* The run writes a file and goes on, or dies writing it.
Save(kind, name, body, cut, next) ==
  /\ name \notin DOMAIN files[kind]
  /\ files' = [files EXCEPT
                 ![kind] = Written(@, name, IF cut THEN Torn ELSE body)]
  /\ job' = IF cut THEN Idle ELSE next
  /\ faults' = IF cut THEN faults + 1 ELSE faults
  /\ UNCHANGED runs

GoOn(next) == job' = next /\ UNCHANGED <<files, runs, faults>>

\* The candidates a plan has on file, by fingerprint.
Candidates(plan, entries) ==
  {id \in Readable(files.candidates) :
     /\ files.candidates[id].plan = plan
     /\ files.candidates[id].entry \in entries}

Entry(id) == files.candidates[id].entry

-----------------------------------------------------------------------------

\* The bridge plans and discovers, registers its provider for what was
\* discovered, and executes, which plans and discovers once more.  A direct
\* execution has a provider for every URL and hands nothing over.
Begin(p, bridge) ==
  /\ job = Idle
  /\ runs < MaxRuns
  /\ runs' = runs + 1
  /\ job' = [at |-> "plan", plan |-> p, bridge |-> bridge, given |-> ~bridge,
             served |-> {}, todo |-> <<>>, found |-> <<>>, documents |-> <<>>,
             admitted |-> 0]
  /\ UNCHANGED <<files, faults>>

Discovering ==
  LET ranked == Ranked(Matching[job.plan])
  IN [job EXCEPT !.at = "discover", !.found = <<>>,
        !.todo = IF Len(ranked) > MaximumSources
                 THEN SubSeq(ranked, 1, MaximumSources) ELSE ranked]

\* create_plan: the plan on file, if there is one, is the plan.
CreatePlan(cut) ==
  /\ job.at = "plan"
  /\ Save("plans", job.plan, "plan", cut, Discovering)

LoadPlan ==
  /\ job.at = "plan"
  /\ job.plan \in Readable(files.plans)
  /\ GoOn(Discovering)

\* discover: an entry is saved as a candidate unless it was one already, and
\* only what was saved is returned.
SaveCandidate(cut) ==
  /\ job.at = "discover" /\ job.todo # <<>>
  /\ Searchable(files.candidates)
  /\ Candidates(job.plan, {Head(job.todo)}) = {}
  /\ LET id == Fresh("candidates")
     IN Save("candidates", id, [plan |-> job.plan, entry |-> Head(job.todo)],
             cut, [job EXCEPT !.todo = Tail(@), !.found = Append(@, id)])

SkipCandidate ==
  /\ job.at = "discover" /\ job.todo # <<>>
  /\ Searchable(files.candidates)
  /\ Candidates(job.plan, {Head(job.todo)}) # {}
  /\ GoOn([job EXCEPT !.todo = Tail(@)])

\* discover_sources: nothing new means a retry, which takes every candidate
\* of the plan.
EndDiscovery ==
  LET existing ==
        SetToSortSeq(Candidates(job.plan, Entries),
                     LAMBDA a, b : Authority[Entry(a)] > Authority[Entry(b)])
      sources == IF job.found # <<>> THEN job.found ELSE existing
  IN /\ job.at = "discover" /\ job.todo = <<>>
     /\ Searchable(files.candidates)
     /\ GoOn(IF job.given
             THEN [job EXCEPT !.at = "acquire", !.todo = sources]
             ELSE [job EXCEPT !.at = "plan", !.given = TRUE,
                     !.served = {sources[i] : i \in DOMAIN sources}])

-----------------------------------------------------------------------------

Source == Head(job.todo)
Served == ~job.bridge \/ Source \in job.served

Acquiring == job.at = "acquire" /\ job.todo # <<>>
Acquired(next) == [next EXCEPT !.at = "acquire", !.todo = Tail(@)]

\* Mutant: only the documents of this plan are looked at.
DocumentsOfPlanWith(content) ==
  {d \in Readable(files.documents) :
     /\ files.documents[d].content = content
     /\ files.candidates[files.documents[d].source].plan = job.plan}

\* find_document_by_hash, among the documents of every plan.
DocumentsWith(content) ==
  {d \in Readable(files.documents) : files.documents[d].content = content}

\* create_failure_receipt: the receipt of the same failure is replayed.
RecordFailure(status, of, cut) ==
  LET name == [source |-> Source, status |-> status, of |-> of]
  IN /\ Searchable(files.receipts)
     /\ \/ Save("receipts", name, 0, cut, Acquired(job))
        \/ /\ name \in DOMAIN files.receipts
           /\ ~cut
           /\ GoOn(Acquired(job))

NoProvider(cut) ==
  Acquiring /\ ~Served /\ RecordFailure("NOT_FOUND", "no_provider", cut)

ProviderFails(status, cut) ==
  Acquiring /\ Served /\ RecordFailure(status, "provider", cut)

\* Mutant: the document there is goes on to the evidence lifecycle again.
DuplicateHandedOn(content, media, cut) ==
  /\ Acquiring /\ Served
  /\ media # "other"
  /\ \E d \in DocumentsWith(content) :
       /\ ~cut
       /\ GoOn(Acquired([job EXCEPT !.documents = Append(@, d)]))

\* Content that is already there is not acquired again, by whatever source.
Duplicate(content, media, cut) ==
  /\ Acquiring /\ Served
  /\ media # "other"
  /\ Searchable(files.documents)
  /\ \E d \in DocumentsWith(content) : RecordFailure("DUPLICATE", d, cut)

\* Mutant: the metadata is not written.
SaveContentOnly(content, media, cut) ==
  /\ Acquiring /\ Served
  /\ media # "other"
  /\ Searchable(files.documents)
  /\ DocumentsWith(content) = {}
  /\ LET d == Fresh("contents")
     IN Save("contents", d, content, cut,
             [at |-> "receipt", document |-> d, content |-> content,
              media |-> media, then |-> job])

\* A document is its content, then its metadata, then its receipt.
SaveContent(content, media, cut) ==
  /\ Acquiring /\ Served
  /\ media # "other"
  /\ Searchable(files.documents)
  /\ DocumentsWith(content) = {}
  /\ LET d == Fresh("contents")
     IN Save("contents", d, content, cut,
             [at |-> "metadata", document |-> d, content |-> content,
              media |-> media, then |-> job])

SaveMetadata(cut) ==
  /\ job.at = "metadata"
  /\ Save("documents", job.document,
          [source |-> Head(job.then.todo), content |-> job.content,
           media |-> job.media],
          cut, [job EXCEPT !.at = "receipt"])

SaveReceipt(cut) ==
  LET run == job.then
      name == [source |-> Head(run.todo), status |-> "RETRIEVED",
               of |-> job.content]
  IN /\ job.at = "receipt"
     /\ Searchable(files.receipts)
     /\ Save("receipts", name, job.document, cut,
             Acquired([run EXCEPT !.documents = Append(@, job.document)]))

EndAcquisition ==
  /\ job.at = "acquire" /\ job.todo = <<>>
  /\ GoOn(IF job.bridge THEN [job EXCEPT !.at = "hand_over"] ELSE Idle)

-----------------------------------------------------------------------------

Document == files.documents[Head(job.documents)]
HandingOver == job.at = "hand_over" /\ job.documents # <<>>

\* handoff admits the document as a fresh source of the evidence lifecycle,
\* then writes its own receipt.
Admit(cut) ==
  /\ HandingOver
  /\ Document.media = "text"
  /\ LET id == Fresh("admitted")
     IN Save("admitted", id, Document.content, cut,
             [job EXCEPT !.at = "handed_over", !.admitted = id])

\* Mutant: the receipt of the handoff is forgotten.
SaveHandoffForgotten(cut) ==
  /\ job.at = "handed_over"
  /\ ~cut
  /\ GoOn([job EXCEPT !.at = "hand_over", !.documents = Tail(@)])

SaveHandoff(cut) ==
  /\ job.at = "handed_over"
  /\ LET id == Fresh("handoffs")
     IN Save("handoffs", id,
             [document |-> Head(job.documents), source |-> job.admitted,
              receipt |-> [source |-> Document.source,
                           status |-> "RETRIEVED", of |-> Document.content]],
             cut, [job EXCEPT !.at = "hand_over", !.documents = Tail(@)])

EndRun ==
  /\ job.at = "hand_over" /\ job.documents = <<>>
  /\ GoOn(Idle)

-----------------------------------------------------------------------------

\* What a provider returned is outside the try block of acquire_with_provider,
\* and a handoff outside any: refused content ends the run.
ContentRefused ==
  /\ Acquiring /\ Served
  /\ "other" \in Media
  /\ GoOn(Idle)

HandoffRefused ==
  /\ HandingOver
  /\ Document.media # "text"
  /\ GoOn(Idle)

\* The directories a step searches; a torn file in one ends the run.
Searched ==
  CASE job.at = "discover" -> {"candidates"}
    [] Acquiring -> IF Served THEN {"documents", "receipts"} ELSE {"receipts"}
    [] job.at = "receipt" -> {"receipts"}
    [] OTHER -> {}

\* Mutant: a torn plan is waited for.
MeetsTornFileInSearch ==
  /\ \E kind \in Searched : ~Searchable(files[kind])
  /\ GoOn(Idle)

MeetsTornFile ==
  /\ \/ \E kind \in Searched : ~Searchable(files[kind])
     \/ job.at = "plan" /\ job.plan \in DOMAIN files.plans \ Readable(files.plans)
  /\ GoOn(Idle)

Fault ==
  /\ job # Idle
  /\ faults < MaxFaults
  /\ faults' = faults + 1
  /\ job' = Idle
  /\ UNCHANGED <<files, runs>>

\* What a run does on its own, a write completing or not.
Progress(cut) ==
  \/ CreatePlan(cut)
  \/ SaveCandidate(cut)
  \/ NoProvider(cut)
  \/ \E status \in Failures : ProviderFails(status, cut)
  \/ \E content \in Contents, media \in Media :
       \/ Duplicate(content, media, cut)
       \/ SaveContent(content, media, cut)
  \/ SaveMetadata(cut)
  \/ SaveReceipt(cut)
  \/ Admit(cut)
  \/ SaveHandoff(cut)

Run ==
  \/ Progress(FALSE)
  \/ LoadPlan \/ SkipCandidate \/ EndDiscovery \/ EndAcquisition \/ EndRun
  \/ ContentRefused \/ HandoffRefused \/ MeetsTornFile

Next ==
  \/ \E p \in Plans, bridge \in BOOLEAN : Begin(p, bridge)
  \/ Run
  \/ \E cut \in Cuts : cut /\ Progress(cut)
  \/ Fault

\* A run waits for nobody: a provider returns or times out.
Fairness == WF_vars(Run)

Spec == Init /\ [][Next]_vars /\ Fairness
=============================================================================
