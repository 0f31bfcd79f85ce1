------------------------- MODULE CommercialPipeline -------------------------
(***************************************************************************)
(* The commercial intelligence pipeline: four stages over the registry,    *)
(* run for a request, with a manifest and a receipt on file.  A clerk is a *)
(* process that gives registry commands or runs the pipeline; its pipeline *)
(* remembers in memory the receipts of the requests it completed.          *)
(*                                                                         *)
(* Manifests and receipts are written in place, one file per action.  Runs *)
(* are numbered for their uuid4.                                           *)
(***************************************************************************)
EXTENDS CommercialRegistry, WriteOnce

CONSTANTS
  Requests,    \* what a run may be asked for, up to the fingerprint
  Reporting,   \* the clerks whose pipeline has a report service
  MaxRuns,     \* bound: runs started
  MaxWork      \* bound: commands and runs together

VARIABLES
  files,       \* the receipt directory
  completed,   \* completed[c]: the requests c completed, with their runs
  runs         \* runs started

vars == <<db, job, calls, faults, files, completed, runs>>

Init ==
  /\ RegistryInit
  /\ files = [manifests |-> <<>>, receipts |-> <<>>]
  /\ completed = [c \in Clerks |-> {}]
  /\ runs = 0

Cuts == IF faults < MaxFaults THEN BOOLEAN ELSE {FALSE}

\* Clerk c writes a file over what was there.  If the write is cut short the
\* file is torn and the process gone, with what it remembered.
Save(c, cut, kind, id, body, next, remembered) ==
  /\ files' = [files EXCEPT
                 ![kind] = Written(@, id, IF cut THEN Torn ELSE body)]
  /\ job' = [job EXCEPT ![c] = IF cut THEN Idle ELSE next]
  /\ completed' = [completed EXCEPT ![c] = IF cut THEN {} ELSE remembered]
  /\ faults' = IF cut THEN faults + 1 ELSE faults
  /\ UNCHANGED <<db, calls>>

Remembered(c, request) ==
  \E done \in completed[c] : done.request = request

\* A request this process completed gets its receipt back and changes
\* nothing.
StartRun(c, request, cut) ==
  /\ job[c].at = "idle"
  /\ runs < MaxRuns /\ calls + runs < MaxWork
  /\ ~Remembered(c, request)
  /\ runs' = runs + 1
  /\ Save(c, cut, "manifests", runs + 1, [request |-> request, ended |-> FALSE],
          [at |-> "validate", run |-> runs + 1, request |-> request,
           status |-> "Running", seen |-> <<>>], completed[c])

\* A stage: it reads, and the run goes on.
Stage(c, at, next) ==
  /\ job[c].at = at
  /\ job' = [job EXCEPT ![c] = next]
  /\ UNCHANGED <<db, calls, faults, files, completed, runs>>

\* An invalid request raises, after its manifest was written.
Validate(c) ==
  Stage(c, "validate",
        IF job[c].request.valid THEN [job[c] EXCEPT !.at = "resolve"] ELSE Idle)

Resolved(c) == job[c].request.organization \in DOMAIN Rows("organization")

\* Mutant: the registry's exception is not caught.
ResolveRaises(c) ==
  Stage(c, "resolve", IF Resolved(c) THEN [job[c] EXCEPT !.at = "profile"] ELSE Idle)

Resolve(c) ==
  Stage(c, "resolve",
        IF Resolved(c) THEN [job[c] EXCEPT !.at = "profile"]
        ELSE [job[c] EXCEPT !.at = "manifest", !.status = "Revalidation_Required"])

Scores(c) ==
  [model \in Models \union {"Index"} |->
     Latest(job[c].request.organization, model)]

\* A profile reads the scorecards once for its tiles and again for its
\* decision; a brief is made of a profile of its own.
Read(c, at, next) ==
  Stage(c, at, [job[c] EXCEPT !.at = next, !.seen = Append(@, Scores(c))])

ReadTiles(c) == Read(c, "profile", "decision")

ReadDecision(c) == Read(c, "decision", "report")

\* Mutant: a brief that cannot be made is skipped.
ReportSkipped(c) ==
  Stage(c, "report",
        IF job[c].request.brief /\ c \in Reporting
        THEN [job[c] EXCEPT !.at = "brief_tiles"]
        ELSE [job[c] EXCEPT !.at = "manifest", !.status = "Completed"])

\* A brief nobody asked for is skipped; one that cannot be made fails its
\* stage and the run is partial.
Report(c) ==
  Stage(c, "report",
        IF job[c].request.brief /\ c \in Reporting
        THEN [job[c] EXCEPT !.at = "brief_tiles"]
        ELSE [job[c] EXCEPT !.at = "manifest",
                !.status = IF job[c].request.brief THEN "Partially_Completed"
                           ELSE "Completed"])

ReadBriefTiles(c) == Read(c, "brief_tiles", "brief_decision")

ReadBriefDecision(c) ==
  Stage(c, "brief_decision",
        [job[c] EXCEPT !.at = "manifest", !.status = "Completed",
                       !.seen = Append(@, Scores(c))])

\* The manifest is written again, now with the time of its completion.
EndManifest(c, cut) ==
  /\ job[c].at = "manifest"
  /\ Save(c, cut, "manifests", job[c].run,
          [request |-> job[c].request, ended |-> TRUE],
          [job[c] EXCEPT !.at = "receipt"], completed[c])
  /\ UNCHANGED runs

\* Only a completed run is remembered.
SaveReceipt(c, cut) ==
  /\ job[c].at = "receipt"
  /\ Save(c, cut, "receipts", job[c].run,
          [request |-> job[c].request, status |-> job[c].status,
           seen |-> job[c].seen,
           manifest |-> [request |-> job[c].request, ended |-> TRUE]],
          Idle,
          IF job[c].status = "Completed"
          THEN completed[c] \union {[request |-> job[c].request, run |-> job[c].run]}
          ELSE completed[c])
  /\ UNCHANGED runs

RunStep(c) ==
  \/ Validate(c)
  \/ Resolve(c)
  \/ ReadTiles(c)
  \/ ReadDecision(c)
  \/ Report(c)
  \/ ReadBriefTiles(c)
  \/ ReadBriefDecision(c)
  \/ EndManifest(c, FALSE)
  \/ SaveReceipt(c, FALSE)

CutShort(c) ==
  /\ faults < MaxFaults
  /\ EndManifest(c, TRUE) \/ SaveReceipt(c, TRUE)

\* A stage raises, or a transaction does: the process goes on.  Resolution
\* catches whatever its read raises.
Raise(c) ==
  /\ job[c].at # "resolve"
  /\ Fail(c)
  /\ UNCHANGED <<files, completed, runs>>

ResolutionFails(c) ==
  /\ job[c].at = "resolve"
  /\ faults < MaxFaults
  /\ faults' = faults + 1
  /\ job' = [job EXCEPT ![c].at = "manifest", ![c].status = "Revalidation_Required"]
  /\ UNCHANGED <<db, calls, files, completed, runs>>

\* The process dies between two writes, and loses something.
Die(c) ==
  /\ job[c].at # "idle" \/ completed[c] # {}
  /\ faults < MaxFaults
  /\ faults' = faults + 1
  /\ job' = [job EXCEPT ![c] = Idle]
  /\ completed' = [completed EXCEPT ![c] = {}]
  /\ UNCHANGED <<db, calls, files, runs>>

Next ==
  \E c \in Clerks :
    \/ /\ Command(c)
       /\ calls' + runs <= MaxWork
       /\ UNCHANGED <<files, completed, runs>>
    \/ \E request \in Requests, cut \in Cuts : StartRun(c, request, cut)
    \/ RunStep(c)
    \/ CutShort(c)
    \/ Raise(c)
    \/ ResolutionFails(c)
    \/ Die(c)

\* A process carries out what it began without waiting for another.
Fairness ==
  \A c \in Clerks :
    WF_vars((CommandStep(c) /\ UNCHANGED <<files, completed, runs>>) \/ RunStep(c))

Spec == Init /\ [][Next]_vars /\ Fairness
=============================================================================
