# AnchorOS: formal models, checks and proofs

This directory holds TLA+ models of AnchorOS, the TLC configurations that check
them on small instances, and proofs that TLAPS checks for every instance.  The
source is the reference: every definition that stands for code names its lines
in `PROJECT.json` ("map"), and where a document and the code disagree, the
models follow the code.

Contents: 1 inventory, 2 modules and how they correspond to the code, 3 runs,
bounds and fairness, 4 disagreements, 5 proofs, 6 what is not modelled and plan.

## 1. Inventory

| Component | State it keeps | Operations | What is hard |
|---|---|---|---|
| AnchorIntel store (`repository.py`) | tables of opportunities, evidence, reviews, assessments, dossiers, archives; audit log | one read or one write transaction per call | identifiers chosen outside the write lock; checks and writes on different connections |
| AnchorIntel decision lifecycle (`service.py`, `app.py`, `server.py`) | none beyond the request: several store calls per request, one thread each; `AR-n.zip` files | edit, close, evidence, review, complete, assess, revalidate, dossier, archive | interleaving of requests; file and row installed one after the other; crash between them |
| Knowledge module and assessment adapter (`knowledge.py`, `assessment.py`) | opportunity, evidence, review, stored assessment | edit, promote evidence, review, assess, replay, revalidate | made-up defaults that weigh like facts; replay on another day; two validators of one field |
| S.P.A.T.I.A.L. engine | none | score, confidence, gates, recommendation | thresholds and the precedence of overrides |
| Platform kernel (`core/`, `startup.py`, `services/`) | module lifecycle states, subscribers, framework states, manifest, audit | boot, start, stop, restart, publish | partial start, raising subscribers, two records of one state |
| Customer onboarding pipeline | records, transitions with chained hashes, assignments in Security Core | start, execute, replay, verify; nine stages | publishing inside the stage's try block; identifier checked first and stored last; a platform that changes on the way |
| Evidence pipeline (AIN-302) | JSON files of sources, findings, receipts, reviews, commits | admit, extract, review, commit | two stores written one after the other; write-once files; objects that outlive a fault |
| Commercial registry | markets, organizations, sources, evidence, scorecards, COF sequences, audit | create, import, link, score, approve | commands of several transactions; imported numbers; supersession by date |
| Pipeline orchestrator (AIN-201) | manifests, receipts; completed runs in memory | run | retry of a run cut short; a registry that changes between two reads |
| Research acquisition (AIN-303) | plans, candidates, documents, receipts, handoffs | plan, discover, acquire, hand off | a document is saved before its receipt; repeated runs; one content from several sources |
| Infrastructure registry | versioned organizations and facilities | create, update, move, transition | read, check and write on separate connections; whole-row updates |
| AnchorStack continuation validity | none | evaluate | precedence of overlapping conditions |
| Security Core (BOOT-0021, delivered in `src/archive`) | identities, roles, policies, receipts, idempotency keys | start, stop, health, register, assign, authorize, replay | publishing after everything is stored; services and settings that change; a retry of what was answered as failed |
| Gap resolution; web, reporting and data exchange; pipeline framework; Mission Control; earlier copies | files, pages, snapshots | sequential | see section 6 |

**How they interact.**  The kernel (`Platform`) starts frameworks and services
and delivers their events on the event bus; onboarding reads the manifest, the
health and the service states the kernel keeps, asks Security Core for its
assignments, and its subscribers run inside `publish`.  Research acquisition hands documents to the evidence pipeline, which
commits findings to the commercial registry through an adapter, transaction by
transaction; the pipeline orchestrator reads the same registry.  AnchorIntel is a
service of its own; its shared state is its database and its two directories, and
its assessments are the adapter's input to the engine.

**What makes each one correct.**  AnchorIntel: an archived opportunity stays
archived with its chain and its package, and takes no write but those on their way
when it was closed; no derived record refers to what it was not derived from; what nobody assessed
authorizes nothing.  Onboarding: the chained transitions verify, Operational
means assigned, replay is deterministic.  Security Core: what is stored, allowed
and replayed follows from its receipts, and a key acts once.  Kernel: what is stopped is stopped.
Registries: no number is issued twice, and a command that is not cut short
finishes.  Evidence: a finding is committed once, only when approved, and the two
stores agree.  Research: every receipt is true, nothing is kept twice.
Orchestrator: a receipt is true and can be replayed.

What is hard to test, line by line, is in `PROJECT.json` ("hazards").

## 2. Modules

| Modules | Content |
|---|---|
| `LifecycleStore`, `Lifecycle`, `LifecycleProperties`, `MCLifecycle` | AnchorIntel: tables and package directory; the requests, one action per read, transaction or file-system call; crash |
| `LifecycleOverlap`, `MCOverlap` | which requests were in flight together, and what holds of those that were not |
| `Closure` | the abstract promise of closing an opportunity |
| `LifecycleProofs` | proofs: types and references; the ledger of derived records; archive packages; progress of requests; closing; what depends on who overlapped |
| `SpatialEngine`, `Assessment`, `AssessmentProperties`, `AssessmentProofs`, `MCAssessment` | the engine as a function; records, review, adapter, assessments, replay |
| `Platform`, `Onboarding`, `OnboardingProperties`, `OnboardingProofs`, `MCOnboarding` | the kernel, and the onboarding engine on it |
| `WriteOnce`, `CommercialStore` | what two or more components share: a directory of write-once files; the registry's tables and transactions |
| `EvidenceLedger` | the abstract promise of the evidence lifecycle |
| `Evidence`, `EvidenceProperties`, `EvidenceProofs`, `MCEvidence` | the evidence lifecycle on its files and the registry, implementing the ledger |
| `Research`, `ResearchProperties`, `ResearchProofs`, `MCResearch` | research acquisition and its handoff |
| `CommercialRegistry`, `CommercialPipeline`, `CommercialProperties`, `CommercialProofs`, `MCPipeline` | the registry's commands, and the pipeline that runs over them |
| `Infrastructure`, `InfrastructureProperties`, `InfrastructureProofs`, `MCInfrastructure` | the infrastructure registry under concurrent callers |
| `SecurityCore`, `SecurityProperties`, `SecurityProofs` | Security Core and what its receipts are evidence of |
| `ContinuationValidity` | AnchorStack's evaluator; its theorems are in `AssessmentProofs` |

`...Properties` modules say what a component promises, `MC...` modules give TLC
its instances.  Operators marked "Mutant" are faulty variants of the definition
they precede.  They are no part of a specification; each shows that some
property notices the fault.

### AnchorIntel decision lifecycle

`opp`, `evid`, `reviews`, `assessments`, `dossiers`, `archives` are the tables of
`repository.py`, one record per row; `packages` is the directory of `AR-n.zip`
files with the request that wrote each one.  Derived rows are never deleted, so
`_next_*_id`, "the lowest unused number", is the length of the table plus one,
and a table is a sequence.  A row's `prov` is what it remembers of its inputs:
the opportunity's revision, the active evidence with its revisions (`trace`), the
review with its revision, the assessment, the dossier.  `by` is the request that
inserted the row; the code has it in the audit log only, the properties need it
to tell a row from another one with the same number.

`req[s]` is one HTTP request: the fields the client sent, what its handler has
read so far, and the answer.  `server.py` serves every request on a thread of its
own (`ThreadingHTTPServer`), and `Repository.connect` opens a new connection for
every call, whose transaction begins with the first INSERT or UPDATE.  So a
handler is a sequence of atomic steps, and the model has one action for each:
`ArchiveReady`, `ArchiveStage`, `ArchiveLink`, `ArchiveTidy`, `ArchiveAdmit`,
`ArchiveInsert`, `ArchiveConfirm`, `ArchiveUnlink` are `create_archive` of `service.py` with the
`create_archive` of `repository.py` it calls.  A write action is the whole
transaction: `InsertReview` also supersedes the prior review, `InsertAssessment`
also sets the opportunity's lifecycle state, `InsertArchive` also closes the
opportunity.  A slot makes one request; the number of slots bounds every counter,
so no run needs a state constraint.  `Crash` loses every request in flight and
keeps the store.

`LifecycleOverlap` adds `met`, the pairs of requests that were in flight together
about one opportunity.  It is a history variable: no step reads it.  Requests about
one opportunity that overlap may each write what they checked before the other's
write, so what the documents say of a revision or of an archive does not hold of
them.  The properties of this module name the pair that must have met, and so say
that nothing else has that effect.

Abstractions:

- The content of records, reports and packages, the audit log and the
  `lifecycle_events` table, which no guard reads.  Merging the fields a client did
  not send into the record read before is content, too.
- A readiness computation (several SELECTs) is one step, and so is reading an
  opportunity and its evidence.  A row derived from a torn read is stale from the
  start, like one derived from a read just before the write that tore it.
- Consecutive reads whose conditions only turn from true to false are one step,
  taken at the later read.  So is an identifier and the check after it: if it is
  still free then, as if both were read then, otherwise as if both were read first.
- "Newest" is the highest identifier; the code sorts on `created_at`.
- A review has the statuses Draft, Incomplete, Completed and Superseded; the code
  treats Ready like Draft and never sets Archived.
- The optional edit of a revalidation is an edit request of the same client.
- Verification and reclassification of evidence are updates of evidence.
- Opportunities exist from the start: creating one touches nothing else.
- `:memory:` databases, which share one connection, are for tests and not modelled;
  nor are evidence files and the read-only routes.
- The knowledge module has one version, fixed by the deployment.

### Assessment and engine

`Assessment` is the sequential side of the same service: what the records, the
review and the engine say, where `Lifecycle` is about who wrote when.  One action
is one request.  `opportunity` and `evidence` hold what the Florida review, the
adapter and the engine ask of a record: whether a text is there and which topics
it touches, the state of a piece of evidence, the dimensions, gates, fatal
constraints and lifecycle controls an analyst gave, dates as days.  `EngineInput`
is `build_engine_input`: every dimension, gate and control nobody gave is derived
as the adapter derives it.  `Analyze` of `SpatialEngine` is `SpatialEngine.analyze`
with its validation, in integers: dimension scores in tenths, the total in
hundredths, so that `round(..., 2)` has nothing to round (scores with more digits,
which it would round, are left out).  The rounding of the evidence confidence is immaterial below a
hundred items.  Left out: the dates of evidence, rationale texts, the wording of
warnings, and keys of a record that neither the adapter nor the engine reads.

What reading the adapter next to the engine showed, apart from section 4:

- The engine's rule that a missing lifecycle control fails gate L
  (`spatial-opportunity-engine/README.md`, SIO-001) never applies to an operational
  assessment, because the adapter supplies all four controls as soon as one is
  missing.  Completing them by hand with a review date in the past can therefore
  lower a recommendation.
- Archiving a piece of evidence that stored dimensions, gates or constraints cite
  makes the engine refuse the opportunity until it is edited.
- The confidence is a weighted mean, so it can be HIGH with an assumption among
  the material evidence; `PursuitRestsOnVerifiedEvidence` is what does hold.
- The exception in `ImprovingNeverLowers`: what a gate or a constraint held is
  rejected once nothing holds it, if it scores below 25.

### Platform and onboarding

`Platform` is `startup.boot`, the module manager with its lifecycle manager, the
service registry, the bus with its audit and health subscribers, the manifest and
the boot pipeline.  A handler of the bus runs inside `publish`, so starting or
stopping a module is one step together with its events.  `lifecycle` and `status`
are the code's two records of a module's state, which disagree when a start
raises.  A module in `Unstable` may raise in `start()` or `stop()`.

`Onboarding` extends it.  One action is one stage: handler, transition, event.
Between two stages Security Core may come or go, and a foreign subscriber may
raise or command the module manager.  Hashes are injective, so a transition
stands for its own hash.  A request names the stage that refuses it for what it
says.  `disturbed` remembers the identifiers whose surroundings changed since
their record began; it is a history variable of `UndisturbedReplayVerifies`.

### Security Core

`SecurityCore` is the service of `services/security_core` in the archived packages
of BOOT-0022 and BOOT-0023, which hold the same copy of it; the platform outside
the archive has its interface only, and `Onboarding` models it from there, as
external.  One action is one call.  The in-memory repositories are `stores`,
`receipts` and `idempotency`; a receipt has the input, the state before and after,
and the reason, and its place in the list is its number.  `settings` and `running`
belong to the Configuration service and the other platform services and may change
between any two calls.  `Issue` has the one interruption of a call: what was done
is stored, and then a subscriber raises, so that the caller is told it failed.
Hashes are injective; a chain in memory that is only appended to verifies.  Which
services are required is fixed.  There is no run: the four statements of
`SecurityProperties` are theorems.

### Evidence, research, commercial registry

`WriteOnce` is a directory of JSON files written in place: a process that dies
while it writes leaves a file that exists and cannot be parsed (`Torn`).
`CommercialStore` has the registry's tables and one operator per committed
transaction; a row's internal identifier is its place.

In `Evidence` a clerk is a process that uses the service.  `memory[c]` are the
objects it was given, which survive an error and not a death; `job[c]` is the
operation it is in the middle of.  `commit_evidence` is a chain of actions,
`BeginCommit`, `FindSource`, `CreateSource`, `AuditSource`, `RecordChecksum`,
`FindAgain`, `DrawNumber`, `AddEvidence` or `SubjectUnknown`, `AuditEvidence`,
`SaveCommit`: one registry transaction or one file each, with faults between any
two.  `EvidenceLedger` is the abstract promise, and `ImplementsLedger` the
refinement mapping: entries are the commit files, rows the registry's evidence,
approvals the reviews on file.

`Research` is a run of a plan in its steps, one file written at a time; the
provider and the criteria of a plan are choices of the environment.  It is bridged
to the evidence side by the admitted sources it writes, so that both sides of the
handoff are in one state.

`CommercialRegistry` has every command of the registry and the scoring service:
draw or reserve the number, insert, amend, audit, each a transaction, by several
processes.  `CommercialPipeline` runs the four stages over it and keeps a manifest
and a receipt per run; what a process completed it remembers in memory only.

### Infrastructure registry

A service call is a series of reads, each on its own connection, and one write of
a whole row.  `job[c].seen` is the row a call read, `listed` the tables it compared
its row with; both are what the properties need to tell a stale call.  Assets,
asset types and relationships have no service.

### Continuation validity

`ContinuationEvaluator.evaluate` is a pure function, `Evaluate`; its fixed order of
precedence is the order of the IFs.  There is nothing to run: both statements are
proved for every snapshot.

## 3. Runs

| Run | Instance | Properties |
|---|---|---|
| `overlap` | 3 requests of any kind about one opportunity, overlapping at every step, 1 crash | `ArchivedChainCurrent`, `SupersededIsFinal`, `OneCurrentAssessment`, `ConditionalWritesExclusive`, `ImplementsClosure` |
| `together` | 3 overlapping requests on two opportunities with a chain, failing inserts and confirmations, 1 crash | `TypeOK`, `OneDossierPerInput`, `ReferentialIntegrity`, `NoForkedReviews`, `LedgerAppendOnly` |
| `packages` | 3 overlapping requests that archive or close an opportunity or edit its evidence, 2 opportunities, failing inserts and file accesses, 1 crash, fair | `RowHasItsOwnPackage`, `NoOrphanPackage`, `PackageSettles` |
| `assessment` | 4 initial records from empty to all in favour, 2 changes, 2 days | `DefaultsNeverAuthorize`, `PursuitRestsOnVerifiedEvidence`, `ReplayReproduces`, `ImprovingNeverLowers` |
| `onboarding` | 2 services, 1 framework, modules that raise, 2 commands, 2 calls, 2 requests under one identifier, 1 change of Security Core, answers that cannot be hashed | `QuietRecordsVerify`, `OperationalIsBacked`, `StopAllStopsASoundPlatform`, `KeysKeepTheirMeaning`, `UndisturbedReplayVerifies` |
| `evidence` | 1 clerk, 2 captures of a page, 2 findings, 2 reviews, 3 commits begun, 2 faults | `ChainReconstructs`, `CommitsAreBacked`, `FaultsLeaveLittle`, `ImplementsLedger`, `BegunCommitsAreMade` |
| `research` | 3 runs of 2 plans that share a catalog entry, 1 fault | `ReceiptsAreTrue`, `NothingIsKeptTwice`, `HandoffsAreBacked`, `FaultsLeaveLittle`, `RunsEnd` |
| `pipeline` | 2 processes, new registry or demonstration data, 3 commands and runs, 1 fault | `NumbersAreIssuedOnce`, `FaultsLeaveLittle`, `IndexHasItsComponents`, `ReceiptsAreTrue`, `ReadsNeverGoBack`, `RunsGetTheirReceipt` |
| `infrastructure` | 2 callers, 2 organizations, 2 facilities of one name, identifiers in two spellings, 3 calls | `LivesGoForward`, `DuplicatesComeFromStaleReads` |

The runs that end in a counterexample are in section 4.  In AnchorIntel's runs an
opportunity starts with the review, assessment and dossier that three requests
leave behind, as `reference.py` does for the reference opportunity.

**Faults.**  AnchorIntel: the process dies with all its requests (`Crash`), or a
database or file access of an archive request fails: linking the package, removing its
temporary name, the insert, reading back the committed row, removing the package.  Evidence, research, pipeline: a write of a file is cut short and
leaves a torn file, an operation raises between two transactions and its caller
goes on with the objects it has, or the process dies and they are gone; a later
call is a retry.  Onboarding: modules and subscribers raise, Security Core is down,
answers with an invalid receipt or with one that passes its checks and cannot be
hashed, so that the stage's artifact is kept and no transition is made of it, or its
answer is lost after it acted.

**Why the bounds are enough.**  A lost race needs two requests; the third shows
the damage (an archive of what a race left behind).  Two opportunities are needed
where rows could be confused or package names collide, and the third evidence
identifier of `together` is one that no chain has yet. `together` leaves out updates of
evidence, to stay within minutes: they write one row that no other request's guard
distinguishes from an edit; `overlap` and `packages` have them. In `evidence` the second
commit of one page meets the registry source of the first, three attempts at two
findings leave one retry, and two faults make a retry that is cut short, too.
`research`: the second plan meets the documents of the first, the third run repeats one
of the two. `pipeline`: two commands and a run, or one and two, put another process's
command between any two reads of a run.
`infrastructure`: two calls interleave, the third follows on what they left.
`onboarding`: the second call is the duplicate, the second request under the same
identifier, or the replay; the first command restarts a module before the second
stops them all.  `assessment`: two changes make the record before and
after an improvement, with scores on and one tenth beside the thresholds.

**Deadlock** is checked in `overlap`, `together`, `packages` and `assessment`
(when every request was answered, `Finished` stutters).  The other specifications
may stop: their bounds on calls, runs and faults run out.

**Fairness.**  `FairSpec` of `Lifecycle`: weak fairness of each started request's
next step.  Every handler runs on its own thread and never waits for another one;
the only wait is for SQLite's write lock, which the busy timeout bounds.
`Evidence`, `Research` and `CommercialPipeline`: weak fairness of the next step of
an operation that was begun, since the service runs it to its end without waiting
for anyone.  Whether and which requests arrive, whether a fault happens, is left
open; the liveness properties say "or a fault came in between".

**Overlap.**  All the requests of `overlap` may interleave, and so in a step of it one
request writes what another has checked.  Each property excepts the requests that can
disturb it, and no others:

- `ConditionalWritesExclusive`: two requests with one If-Match both succeed when both
  compare the revision before either increments it.  They must have met; a request that
  starts after the other was answered is refused, whatever else overlaps either one.
- `SupersededIsFinal`: a review is active again after it was superseded when it is
  completed by hand while it is rerun.  The rerun and the completion must have met.
- `OneCurrentAssessment`: a second assessment is current when evidence is added while it
  is made and archived afterwards, so that it was stale when it looked for the one to
  supersede, or when two are made at once.  One of the opportunity's assessments must
  have met another request of the opportunity.
- `ArchivedChainCurrent`: an archive goes stale when an edit's UPDATE comes after the
  archive transaction, and is inconsistent when the review is rerun while it is packed.
  The archive request must have met another of its opportunity; what overlapped before
  and after it does no harm.

`ImplementsClosure` excepts nothing.  A closed opportunity and archived evidence are not
read only at once: each request that had already looked at the archived flag may still
write, once.  `Closure` says that it is only those, that nobody is admitted afterwards,
and that there is one attestation, which is final.  All these have one cause, a check on
one connection and a write on the next, and one remedy: the condition in the UPDATE's
WHERE clause, or a transaction that begins before the read (`BEGIN IMMEDIATE`).

## 4. Disagreements the runs show

| Run | Violated | What the code does |
|---|---|---|
| `evidence_retry` | `RetriesDoNotDuplicate` | the registry row is committed before the commit file is written, so a retry after an error in between adds a second verified row of the finding |
| `research_retry` | `RetriesReturnTheReceipt` | a repeated acquisition looks for a document before it looks for a receipt, so it gets a new receipt that calls its own document a duplicate |
| `verified_source` | `VerifiedHasSource` | the page that edits managed evidence checks its own fields only and can take the source from verified evidence; no assessment can be run from then on |

Each quotes what the repository says of the program (`PROJECT.json`, "findings").
Two more were met and have no run of their own.  `src/apps/anchorintel/api/README.md`
(lines 80-83) calls an archived opportunity read only, and the code lets a request that
looked at it before write after: `Closure` states what is true instead.  And `examples/seed_cps_energy.py` inserts explicit
identifiers through `RegistryDatabase` and so bypasses the reservation that
`CommercialIntelligenceRegistryService` makes for imported ones; the first numbers
drawn afterwards collide with them.  The model's demonstration data is that of
`seed_and_run_web.py`, which goes through the service.

What modelling Security Core showed:

- Its README says that a replay "reconstructs the operation from its stored input
  and prior state".  A replayed decision is made with the roles configured now, so
  it is not reproduced once its role has been added to, or taken from, the
  configuration, nor while no role is configured at all, when the replay raises and
  leaves no receipt, even of a decision that was denied for that very reason;
  `ReplaysVerify` proves that there is no other exception.
- A call whose subscriber raises is answered with FAIL although everything is
  stored with a PASS receipt.  Trying again with the key gets that receipt
  (`KeysAreIdempotent`), trying again with another key acts again.
- `start()` from Degraded always fails; only `health()` leads back to Operational.

## 5. Proofs

For every value of the constants, except where a condition is given:

| Theorem | Statement | Module |
|---|---|---|
| `TypeCorrect` | `Spec => []TypeOK` | `LifecycleProofs` |
| `ReferencesCorrect` | `Spec => []ReferentialIntegrity` | `LifecycleProofs` |
| `DossiersUnique` | `Spec => []OneDossierPerInput` | `LifecycleProofs` |
| `LedgerIsAppendOnly` | `Spec => LedgerAppendOnly` | `LifecycleProofs` |
| `ReviewsDoNotFork` | `Spec => []NoForkedReviews` if no review is completed by hand | `LifecycleProofs` |
| `RowsHaveTheirPackages` | `Spec => []RowHasItsOwnPackage` if a committed archive row can be read back | `LifecycleProofs` |
| `PackagesAreAccountedFor` | `Spec => []NoOrphanPackage` under the same condition | `LifecycleProofs` |
| `ClosureImplemented` | `Spec => ImplementsClosure` | `LifecycleProofs` |
| `ClosedIsSettled` | `Spec => Closing!ClosedSettles` | `LifecycleProofs` |
| `AttestedOnceOnly` | `Spec => []Closing!AttestedOnce` | `LifecycleProofs` |
| `ConditionalWritesExclude` | `OSpec => []ConditionalWritesExclusive` | `LifecycleProofs` |
| `SupersededStaysFinal` | `OSpec => []SupersededIsFinal` | `LifecycleProofs` |
| `CurrentAssessmentIsUnique` | `OSpec => []OneCurrentAssessment` | `LifecycleProofs` |
| `ArchivesStayCurrent` | `OSpec => []ArchivedChainCurrent` | `LifecycleProofs` |
| `RequestsProceed` | `Spec => []RequestsAreHandled /\ [][RequestsGoForward]_vars` | `LifecycleProofs` |
| `LivesAlwaysGoForward` | `Spec => LivesGoForward` | `InfrastructureProofs` |
| `DuplicatesAlwaysComeFromStaleReads` | `Spec => DuplicatesComeFromStaleReads` | `InfrastructureProofs` |
| `ChainsReconstruct` | `Spec => []ChainReconstructs` | `EvidenceProofs` |
| `CommitsBacked` | `Spec => []CommitsAreBacked` | `EvidenceProofs` |
| `EvidenceFaultsLeaveLittle` | `Spec => []FaultsLeaveLittle` | `EvidenceProofs` |
| `LedgerImplemented` | `Spec => ImplementsLedger` with one clerk | `EvidenceProofs` |
| `LedgerKept` | `Spec => [](Ledger!CommittedOnce /\ Ledger!CommittedIsBacked)` with one clerk | `EvidenceProofs` |
| `LedgerBacked` | `Spec => []Ledger!CommittedIsBacked` | `EvidenceProofs` |
| `CommitsProceed` | `Spec => []CommitsNeverWait /\ [][CommitsGoForward]_vars` | `EvidenceProofs` |
| `AllowsAreEarned` | `Spec => []AllowIsEarned` | `SecurityProofs` |
| `KeysAreIdempotent` | `Spec => []KeysAssignOnce` | `SecurityProofs` |
| `StoresFollowReceipts` | `Spec => []StoresAreEvidenced` | `SecurityProofs` |
| `ReplaysVerify` | `Spec => []ReplaysDependOnConfiguration` | `SecurityProofs` |
| `RecommendIsMonotone` | better score, confidence, gates and constraints, no lower recommendation | `AssessmentProofs` |
| `DefaultsAreConservative` | `Spec => []DefaultsNeverAuthorize` | `AssessmentProofs` |
| `AssessmentsReplay` | `Spec => []ReplayReproduces` | `AssessmentProofs` |
| `PursuitAlwaysRestsOnVerifiedEvidence` | `Spec => []PursuitRestsOnVerifiedEvidence` | `AssessmentProofs` |
| `ImprovingNeverLowersTheRecommendation` | `Spec => ImprovingNeverLowers` | `AssessmentProofs` |
| `DoubtNeverRelaxes` | a worse snapshot, no weaker determination | `AssessmentProofs` |
| `ValidMeansNothingInDoubt` | valid exactly if all dimensions are | `AssessmentProofs` |
| `QuietRecordsAlwaysVerify` | `Spec => []QuietRecordsVerify` | `OnboardingProofs` |
| `OperationalIsAlwaysBacked` | `Spec => []OperationalIsBacked` | `OnboardingProofs` |
| `KeysAlwaysKeepTheirMeaning` | `Spec => KeysKeepTheirMeaning` with one call at a time | `OnboardingProofs` |
| `UndisturbedReplaysAlwaysVerify` | `Spec => UndisturbedReplayVerifies` with one call at a time | `OnboardingProofs` |
| `StopAllAlwaysStopsASoundPlatform` | `Spec => StopAllStopsASoundPlatform` | `OnboardingProofs` |
| `ReceiptsAreAlwaysTrue` | `Spec => []ReceiptsAreTrue` | `ResearchProofs` |
| `NothingIsEverKeptTwice` | `Spec => []NothingIsKeptTwice` | `ResearchProofs` |
| `HandoffsAreAlwaysBacked` | `Spec => []HandoffsAreBacked` | `ResearchProofs` |
| `FaultsAlwaysLeaveLittle` | `Spec => []FaultsLeaveLittle` | `ResearchProofs` |
| `NumbersAreAlwaysIssuedOnce` | `Spec => []NumbersAreIssuedOnce` | `CommercialProofs` |
| `CommercialFaultsAlwaysLeaveLittle` | `Spec => []FaultsLeaveLittle` | `CommercialProofs` |
| `IndexAlwaysHasItsComponents` | `Spec => []IndexHasItsComponents` | `CommercialProofs` |
| `PipelineReceiptsAreAlwaysTrue` | `Spec => []ReceiptsAreTrue` | `CommercialProofs` |
| `ReadsNeverGoBackInTime` | `Spec => []ReadsNeverGoBack` | `CommercialProofs` |

The conditions are what the code needs.  Without the first, completing by hand
makes a superseded review active again, so that it is superseded twice; without the
second, the clean-up removes the package of a committed row.
They are conditions on the constants (`"complete" \notin Kinds`,
`"confirm" \notin FaultPoints`).  The theorems about closing and about overlap have no
condition: `OSpec` is `Spec` with the history variable `met`.  The
theorems about evidence assume that a review on file is not what a torn file holds
(`ReviewsAreWhole`), and the one about faults the same of a commit
(`CommitsAreWhole`): `Torn` is a value of its own.  `LedgerImplemented` and `LedgerKept`
also assume `OneClerk`: nothing in the code keeps two processes from committing the same
finding at once, since each looks for a commit of it before either has written one.  The theorems
about research and about the pipeline's receipts say the same of `Torn` for what
their files hold (`WritesAreWhole`, `ManifestsAreWhole`).  Two about onboarding assume
`OneCaller`, one call at a time, which is how the run has it, too: the identifier is
looked up in the first stage and stored after the last, so overlapping calls of one
identifier get through, and nothing in the repository makes such calls.  The other
three hold for any number of callers.
The named ASSUMEs of the modules are all evaluated
by TLC in the runs.

**Types and references.**  Neither invariant is inductive.  A row that a request
inserts refers to what the request read steps before, so references are correct
only if the request's own are; and a request's references are correct only as long
as no table loses or reassigns a row.  The inductive invariant is

    Consistent == TypeOK /\ ReferentialIntegrity /\ RequestRefs

where `RequestRefs` says of a request at each step of its handler which of its
fields already refer to rows of its own opportunity.  `Init` implies it; each write
transaction preserves the rows the others rely on (the `...Kept` lemmas: every
table only grows, and no row ever changes its opportunity); each handler's steps
preserve it (the `...StepsKept` lemmas); `NextConsistent` puts them together.

**The ledger.**  `NextWrites` says which five transactions touch the tables of
derived records; each of them appends one row or changes the status and revision
of one review, which the provenance of a row does not mention.  The UNIQUE
constraint, evaluated inside the transaction, keeps dossiers apart although every
request looked for an existing one long before.  For the reviews the constraint
that helps is the primary key: the invariant `Unforked` adds to `NoForkedReviews`
that a superseded review stays so, and that a request whose identifier is still
the next one has checked a review that is still not superseded
(`AdmittedReviews`), because superseding a review takes an insert, and an insert
takes the identifier.

**The packages.**  `PackageInv` is the ownership argument: a number names one
package (`os.link` refuses a taken name); a request between its link and its
answer owns the package under its number (`InstalledKeeps`); the author of a row
is past its insert (`AuthorsDone`), so whoever reaches the clean-up wrote no row
and owns the name it removes; and the number a request holds is a row's or the
next one (`NumbersKnown`), so that a row is inserted under the number of its own
package.

**The progress of requests.**  `RequestsProceed` needs no condition on the requests.  One
order (`Place`) is the order of the steps in every handler, so a handler has no loop
(`HandlersInOrder`); each action takes its own request ahead in it or answers it
(`GoesOn`), and no other, and an answer or a loss is final.

**Closing.**  A request writes data once, in the step after the last look at the archived
flags, and is answered in that step (`WriteIsLast`).  What it may write then is a
function of its place and its fields (`Grants`), and what it does write is in there:
rows of other opportunities and other evidence stay as they are (`WritesAtHome`).  For
that an evidence record has to belong to the opportunity of the request that found it
there, and a request that has looked at a record knows whose it is (`Home`).
`ClosureImplemented` maps every step: the step that looks (`AdmissionLooks`) is `Admit`,
of what was open in that step, the write is `Write`, the death of the process is
`Abandon`, and every other step is a stutter (`StepCloses`).  That there is one
attestation needs `OneArchive`, which holds because the INSERT of an archive looks for
another one in its own transaction.  `ClosedIsSettled` and `AttestedOnceOnly` are
consequences of the steps of `Closure` alone.

**Who met whom.**  `MetOnce` says that `met` has all the pairs in flight, so that two
requests that are under way about one opportunity have met (`Meet`); no pair is removed.
`ConditionalWritesExclude` adds what a revision tells: those of opportunities and
evidence never go back (`RevisionsGrow`), a conditional request that is about to write
compared its If-Match with the revision of then, and one that succeeded has passed it
(`Comparing`).  So a request that compares after a rival succeeded is refused, and one
that has compared and still waits is in flight when its rival writes, so that the two have
met (`Compared`).  The invariant `Finals` of `SupersededStaysFinal` says besides that a
superseded review is Superseded or Completed, and that a request about to complete a
review that was superseded meanwhile has met the request that did it: it looked while the
review was open, so both were in flight when the successor was inserted.

For `CurrentAssessmentIsUnique` and `ArchivesStayCurrent` the invariants say what a
request that met nobody knows, and that it is still so: nobody writes to its opportunity
while it is in flight (`WritesAtHome`, `Meet`).  `Judged` says that such a request for an
assessment read a review that is current at the revision it noted, and supersedes the one
assessment that is current.  An assessment so made is of the inputs its review is of
(`FromReviews`), and since revisions of reviews grow, one that is not live never comes to
life again (`LiveBefore`); two live ones of the same inputs are one (`OneLive`).
`Standing` says that an archive made so stands: its opportunity is closed, its chain is
current, and no request of the opportunity is about to write, except one that completes
another review (`Harmless`).  Whoever comes to write has looked at the archived flag after
that, or completes a review that was open (`LateSteps`), and the chain's is Completed.

**Infrastructure.**  `Inv` types the tables and the jobs and says what a job knows
(`Good`): the row it is about to write may follow the row it read, and it was
compared with the tables the job lists, or agrees with the row it read in all that
is compared.  Tables lose no row, so this survives every step of other callers
(`Frame`).  Both action properties follow from it at the step that writes.

**Evidence.**  `ChainInv` says that what a clerk holds, what its commit was begun
with, and what every commit names is on file.  A file is never replaced
(`SaveWrites`), so all three only have to be established once (`GrownKeeps`); a
commit's steps leave its chain alone (`StepKeeps`), and a torn write takes the
clerk's objects with it.  `BackInv` is the registry's part: what a commit knows of
its rows at each step (`Knows`).  A commit reuses a source that another made only
by its hash, and a source with a hash never changes again (`Grows`); the sources
without one, between their insertion and their checksum, are different rows for
different commits, so recording a checksum does not touch what anyone else relies
on.  The run has one clerk; both theorems have any number, each interleaving its
transactions with the others'.

`EvidenceFaultsLeaveLittle` counts, also for any number of clerks.  A commit that is cut
short leaves two things, its row and its torn file, so torn commits are counted beside
the others: neither sum exceeds the faults.  `TidyInv` follows the
numbers: a commit has none until it draws one, which is nobody else's, and a row's
number is one row's.  So what a commit answers for is one thing at a time, the source
it is to hash or the row it has inserted (`CarriesLate`): a step that is no fault hands
it on or finishes it (`NothingIsLeft`), and a fault leaves at most that one
(`FaultLeavesOne`).

`LedgerImplemented` shows step by step that the lifecycle implements
`EvidenceLedger`.  `AddEvidence` is `Register`, `SaveCommit` is `Commit`, or `Damage` when the
write is cut short, a review's decision is `Approve` if it is one and its file is
whole, and every other step leaves the ledger unchanged (`Stutters`).
`Register` wants a number that no row has, `Commit` a finding that is not on record:
`LedgerInv` adds that numbers are drawn before they are used, that a number about
to be inserted is no row's, and that what is being committed is not on record while
no commit file is damaged.  The last is where one clerk is needed.  From there
`LedgerKept` takes `CommittedOnce` from the ledger's steps alone, and
`CommittedIsBacked` from `ChainInv` and `BackInv`, which is `LedgerBacked` and holds
for any number of clerks.

`CommitsProceed` is what liveness rests on.  The steps of a commit are in an order
that no step goes against (`Onward`), and two of them could still be stopped by a store:
`create_evidence` looks up the source it has just hashed, and the commit file is written
only where none is.  `FindsInv` keeps the first true, as a source with a hash never
changes; `NamesInv` the second, as evidence identifiers are drawn one after the other
and a commit under way holds one that no other commit and no file has.  So a
commit ends only by an error of a store, a death of its process or an unknown subject.

**Security Core.**  `Inv` relates the stores to the list of receipts: every
assigned role has a receipt (`Backed`), every key knows the one receipt it got
(`Known`), each receipt follows from its own input and prior state (`Follows`), and
the last receipt about a subject says what is stored of it.  Receipts are only appended,
so what earlier ones say stays; the work is in the four calls that issue one, and in
the failed receipt that may follow.  Services, settings and lifecycle occur in no
conjunct, which is why restarts and outages keep them all.

**Assessment.**  `RecommendIsMonotone` is a case analysis on the bands and the
overrides before them.  `DefaultsAreConservative` needs that derived dimensions
come to less than 45 points with any findings of a review and any evidence.
`AssessmentsReplay` strengthens "replays today" to "replays on every day"
(`Timeless`), which is inductive because the adapter dates every input
(`InputsAreDated`) and the engine looks at the clock only without a date
(`DatedInputs`).
The other two are about the mean over the evidence, of any number of items.
`RecordsInv` keeps what was assessed: a valid input, finitely many items in one of the five
states, and the engine's result of it.  The sum in `Confidence` is a fold of the
community modules, a function chosen by its recursive equation; that such a
function exists for every finite set (`SumsReach`), and what it sums to
(`WithoutVerified`, `BetterEvidence`), is shown on a set of least cardinality for
which it would fail, because the library's induction theorems cannot be instantiated.
Evidence that is not Verified comes to 15 twentieths an item at most, and a high
confidence takes 15.99 in the mean, rounding included; a state that is no worse weighs no less, and so do
scores (`ScoreIsMonotone`, the weights being positive), so `RecommendIsMonotone` applies.
Assumed is that what is on file at the start has finitely many items in one of the five states
(`RecordsAssumption`), which TLC evaluates in `assessment`.

**Continuation validity.**  `DoubtNeverRelaxes` follows from what worsening does to
the three sets the evaluator computes: an invalid dimension stays invalid, a stale
one is stale or invalid, an unknown one is in one of the three.

**Onboarding.**  `RecordInv` says that what a call has done so far is a chain
already: its transitions are the stages up to where it is, each from the state and
the hash the last one left, and what its passed stages needed is assigned.  Records
are only what calls leave when they end, so both invariants are the same statement
of calls and records.  A chain is accepted exactly when no stage of it was left half
done: the stage whose subscriber raised is there twice, and the one of which no
transition could be made has an artifact and no transition that passed.  `TracedCalls` strengthens it for replay: as long as an identifier is
undisturbed, what its call and its record contain is a function of the request
(`Traced`), so a replay that ends undisturbed has rebuilt the record.  For that every
guard of a stage has to be the same then and now, and all it reads is unchanged or marks
the identifier as disturbed (`RefusalStays`).  `SoundInv` relates the two
states the module manager keeps to where `stop_all` is: modules after its position
are stopped, the others agree in both as long as none failed.

**Research.**  `ResearchInv` says what a run knows at each of its steps: what it has
looked up is still so when it writes, because nobody else writes in between and its
own writes are of other names.  That is an argument about one process; the model has one
because the services hold their files alone.  Whatever a fault interrupts is
either not on file or torn, and the look-ups treat a torn file as an error, which is why
nothing is kept twice even after one.  `LeavesLittle` counts: a step that completes a
document or an admission moves its job on, the next one writes its receipt, and the
only step that leaves the job between the two is a fault.

**Commercial registry.**  Four inductive invariants, each over all processes.
`NumbersInv`: a number held before its insert is behind the sequence, and no two drawn
ones are equal (`DrawnApart`), since drawing and moving the sequence is one
transaction.  `IndexInv`: what a calculation has read is on file with a number below the
one it will draw, because rows are never removed, renumbered or moved to another
organization.  `RunsInv`: the readings of a run are in order (`InOrder`), and none is
newer than what is on file (`OnFile`), so that the next one cannot be older; its
manifest is its own, as no two runs have one number, and is ended before the
receipt is begun.  `TidyInv`: every row is finished, or in the hands of the command that
works on it, or counted by a fault; a fault adds at most the row that its command
holds (`Counts`).  Excepted are scorecards that cite evidence that is not there, or the
same evidence twice: linking them fails after they were approved.

**Model-checked only.**  Liveness (`PackageSettles`, `BegunCommitsAreMade`,
`RunsEnd`, `RunsGetTheirReceipt`), which the prover does not do under fairness.
Of the commits and the requests what does not need fairness is proved for every value of the
constants: they only go forward, through finitely many steps (`CommitsProceed`,
`RequestsProceed`), and no store stops a commit.  Of research runs and of pipeline
runs the progress is checked on the runs' instances only.

## 6. Not modelled, and what is left to do

- *Earlier copies.*  `src/archive` holds packages as they were delivered, and
  `AIN-201_1_...`, `AIN-302_...` and the files directly in `src/apps/anchorintel/api`
  are earlier states of components that are modelled; more than half of the
  repository's Python lines are such copies.  Their definitions are those of the
  modelled originals or superseded ones, so the map does not name them a second time.
  Of the implementation outside the archive it names about a third.
  Three parts exist in the archive only.  Security Core is modelled.
- *Pipeline framework* (BOOT-0022): its one user in the sources, customer onboarding,
  has the loop of ordered stages in its own engine, which is modelled; the framework's
  `run` is called by its tests only and keeps nothing between calls.
- *Mission Control* (BOOT-0023): a page over a snapshot of the platform and the last
  250 events, read under one lock; it changes nothing that it shows.
- *Web pages, OpenAPI document, reports, dossier and package rendering, data
  exchange*: wording and file conversion without a protocol of their own.
- *Gap resolution*: pure functions of a profile or of the evidence supplied, that
  add one requirement per independent condition and keep nothing between calls.
- *AnchorStack*: reason codes and digests of a determination, and the three events
  of a submission, which nothing but the audit log receives.
- *Infrastructure repository*: `delete`, assets, asset types and relationships,
  which no service calls.
- *AnchorIntel*: evidence files, creation of opportunities, read-only routes; the
  loading and validation of knowledge-module files.

Left to do: a repaired lifecycle, with the conditions inside the write transactions, in
which a closed opportunity is read only at once; evidence files and the crash between the
file and its row.
