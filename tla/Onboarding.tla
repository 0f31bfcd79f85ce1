----------------------------- MODULE Onboarding -----------------------------
(***************************************************************************)
(* The customer onboarding pipeline on the running platform: the engine    *)
(* takes a request through CP-001 to CP-009, reading the platform's        *)
(* manifest, health, service states and boot results, and asking Security  *)
(* Core for two assignments on the way.                                    *)
(*                                                                         *)
(* One action is one stage, with what it does up to its end or up to where *)
(* it raises: its handler, the artifact kept, the transition the lifecycle *)
(* makes and the event published for it.  The bus calls its subscribers    *)
(* inside publish, so between two stages Security Core may come or go, and *)
(* a subscriber may command the module manager; the stages go on when the  *)
(* command has returned (doing = "idle").                                  *)
(*                                                                         *)
(* Hashes are injective, so a transition stands for its own hash, and the  *)
(* previous hash of a list that is only appended to needs no field.  What  *)
(* an artifact contains follows from its stage and the request.            *)
(***************************************************************************)
EXTENDS Platform, FiniteSets, FiniteSetsExt

CONSTANTS
  Callers,         \* who calls the engine
  Requests,        \* the onboarding requests they make
  RequiredServices,\* customer_pipeline.required_platform_services
  SecurityAnswers, \* how Security Core may answer an assignment
  RaisingEvents,   \* the stage events on which a foreign subscriber may raise
  MaxCalls,        \* bound: calls made
  MaxOutages       \* bound: times Security Core changes its availability

\* A request: its identifier, the organization its slug hashes to, who is to
\* get its roles, the frameworks it asks for, and the stage that refuses it
\* for what it says (0: none).
Request ==
  [id: STRING, organization: STRING, identity: STRING,
   frameworks: SUBSET ToSet(Frameworks), refusedAt: 0..7]

\* A receipt may pass every check on it and still hold what cannot be hashed.
AllSecurityAnswers == {"receipt", "bad_receipt", "lost_answer", "unhashable"}

ASSUME OnboardingAssumption ==
  /\ Requests \subseteq Request
  /\ RequiredServices \subseteq ToSet(Services)
  /\ SecurityAnswers \subseteq AllSecurityAnswers
  /\ RaisingEvents \subseteq {"stage.completed", "stage.failed"}
  /\ MaxCalls \in Nat /\ MaxOutages \in Nat

VARIABLES
  engine,      \* the engine's Module.status is Running
  securityUp,  \* Security Core reports itself operational
  assigned,    \* assignments Security Core was asked for
  records,     \* the stored records, by onboarding identifier
  call,        \* the call each caller has in progress
  calls,       \* calls made
  outages,     \* changes of securityUp
  disturbed    \* identifiers whose surroundings changed since their record began

onboardingVars == <<engine, securityUp, assigned, records, call, calls, outages,
                    disturbed>>
vars == <<platformVars, onboardingVars>>

Ids == {r.id : r \in Requests}

States == <<"Registered", "Provisioned", "IdentityAssigned", "LicenseAssigned",
            "FrameworksEnabled", "SecurityPolicyAssigned", "DeploymentPrepared",
            "Validated", "Operational">>
StageCount == Len(States)
Entry(k) == IF k = 1 THEN "Pending" ELSE States[k - 1]
Exit(k) == States[k]

NewRecord(r) ==
  [request |-> r, state |-> "Pending", last |-> "Pending", artifacts |-> {},
   transitions |-> <<>>]

Snapshot(rec) ==
  [state |-> rec.state, last |-> rec.last, artifacts |-> rec.artifacts]

Idle == [kind |-> "idle"]

OnboardingInit ==
  /\ engine = FALSE
  /\ securityUp \in BOOLEAN
  /\ assigned = {}
  /\ records = <<>>
  /\ call = [c \in Callers |-> Idle]
  /\ calls = 0
  /\ outages = 0
  /\ disturbed = {}

-----------------------------------------------------------------------------
(* CustomerLifecycleManager *)

LastPassed(T, n) ==
  LET passed == {j \in 1..n : T[j].ok}
  IN  IF passed = {} THEN "Pending" ELSE T[Max(passed)].to

Verify(rec) ==
  LET T == rec.transitions
      n == Len(T)
      before(k) ==
        [state |-> IF k = 1 THEN "Pending" ELSE T[k - 1].to,
         last |-> LastPassed(T, k - 1),
         artifacts |-> {T[j].stage : j \in {i \in 1..(k - 1) : T[i].ok}}]
  IN  /\ n <= StageCount
      /\ \A k \in 1..n :
           /\ T[k].stage = k
           /\ T[k].from = before(k).state
           /\ T[k].input = before(k)
           /\ T[k].ok => T[k].to = Exit(k) /\ k \in rec.artifacts
           /\ ~T[k].ok => /\ T[k].to = "Failed"
                          /\ k = n
                          /\ k \notin rec.artifacts
                          /\ T[k].last = before(k).last
      /\ Snapshot(rec) = before(n + 1)

\* Mutant: the last successful state is not kept up.
AdvancedForgettingLast(rec, k, input) ==
  [rec EXCEPT
    !.state = Exit(k),
    !.transitions = Append(@,
      [stage |-> k, from |-> rec.state, to |-> Exit(k), ok |-> TRUE,
       input |-> input, last |-> "", reason |-> ""])]

Advanced(rec, k, input) ==
  [request |-> rec.request,
   state |-> Exit(k),
   last |-> Exit(k),
   artifacts |-> rec.artifacts,
   transitions |-> Append(rec.transitions,
     [stage |-> k, from |-> rec.state, to |-> Exit(k), ok |-> TRUE,
      input |-> input, last |-> "", reason |-> ""])]

Failed(rec, k, input, reason) ==
  [request |-> rec.request,
   state |-> "Failed",
   last |-> rec.last,
   artifacts |-> rec.artifacts,
   transitions |-> Append(rec.transitions,
     [stage |-> k, from |-> rec.state, to |-> "Failed", ok |-> FALSE,
      input |-> input, last |-> rec.last, reason |-> reason])]

-----------------------------------------------------------------------------
(* the handlers of the stages *)

\* Mutant: a taken identifier is not refused.
TakenNever(id) == FALSE

Taken(id) == id \in DOMAIN records

\* Why a stage refuses, "" when it does not; a stage's checks in code order.
Refusal(rec, k, enforceUnique) ==
  LET r == rec.request
      contents == k = r.refusedAt
  IN  IF rec.state # Entry(k) THEN "state"
      ELSE IF k = 1 /\ r.id = "" THEN "contents"
      ELSE IF k = 1 /\ enforceUnique /\ Taken(r.id) THEN "duplicate"
      ELSE IF k = 1 /\ contents THEN "contents"
      ELSE IF k \in {3, 6} /\ ~securityUp THEN "security_core"
      ELSE IF k \in 3..7 /\ contents THEN "contents"
      ELSE IF k = 5 /\ ~(r.frameworks \subseteq manifest) THEN "not_registered"
      ELSE IF k = 5 /\ ~(r.frameworks \subseteq healthStates) THEN "not_running"
      ELSE IF k = 8 /\ ~(1..7 \subseteq rec.artifacts) THEN "evidence"
      ELSE IF k = 8 /\ ~Verify(rec) THEN "chain"
      ELSE IF k = 8 /\ bootPassed # BootStages THEN "boot_pipeline"
      ELSE IF k = 8 /\ \E s \in RequiredServices : status[s] # "Running" THEN "services"
      ELSE IF k = 8 /\ ~securityUp THEN "security_core"
      ELSE IF k = 9 /\ 8 \notin rec.artifacts THEN "validation"
      ELSE ""

AsksSecurity(k) == k \in {3, 6}

Assignment(r, k) ==
  [key |-> <<r.id, k>>, organization |-> r.organization,
   what |-> IF k = 3 THEN r.identity ELSE "policy"]

-----------------------------------------------------------------------------
(* CustomerPipelineEngine *)

\* What the handler returned is kept before the transition is made.
Filed(rec, k) ==
  [request |-> rec.request, state |-> rec.state, last |-> rec.last,
   artifacts |-> rec.artifacts \cup {k}, transitions |-> rec.transitions]

Done(rec, k) == Advanced(Filed(rec, k), k, Snapshot(rec))

\* An application starts the engine once boot() has returned, or raised.
StartEngine ==
  /\ ~engine
  /\ doing = "idle"
  /\ \A s \in ToSet(Services) : status[s] = "Running"
  /\ engine' = TRUE
  /\ UNCHANGED <<platformVars, securityUp, assigned, records, call, calls,
                 outages, disturbed>>

Begin(c, kind, r) ==
  /\ engine
  /\ doing = "idle"
  /\ call[c] = Idle
  /\ calls < MaxCalls
  /\ calls' = calls + 1
  /\ call' = [call EXCEPT ![c] =
       [kind |-> kind, record |-> NewRecord(r), next |-> 1]]
  /\ UNCHANGED <<platformVars, engine, securityUp, assigned, records, outages>>

BeginExecute(c, r) ==
  /\ Begin(c, "execute", r)
  /\ disturbed' = IF r.id \in DOMAIN records THEN disturbed ELSE disturbed \ {r.id}

BeginReplay(c, id) ==
  /\ id \in DOMAIN records
  /\ Begin(c, "replay", records[id].request)
  /\ UNCHANGED disturbed

\* The locals of _run once a stage is through.
InCall(c, rec, next) == [kind |-> call[c].kind, record |-> rec, next |-> next]

\* Mutant: a replay is run as a first execution is.
EmitsAlways(c) == TRUE

Emits(c) == call[c].kind = "execute"

Publish(c, kind, k) ==
  audit' = IF Emits(c) THEN Append(audit, Event(kind, call[c].record.request.id, k))
                       ELSE audit

\* The exceptions of a stage, those of its own event's subscribers included,
\* become a failed transition, unless publishing that one raises too.
FailStage(c, rec, k, input, reason, published) ==
  LET failed == Failed(rec, k, input, reason)
      log == audit \o published
      id == rec.request.id
  IN  /\ audit' = IF Emits(c) THEN Append(log, Event("stage.failed", id, k)) ELSE log
      /\ \/ call' = [call EXCEPT ![c] = InCall(c, failed, StageCount + 1)]
         \/ /\ Emits(c)
            /\ "stage.failed" \in RaisingEvents
            /\ call' = [call EXCEPT ![c] = Idle]

Ask(c, k, answers) ==
  LET r == call[c].record.request
  IN  IF AsksSecurity(k)
        THEN \E a \in answers :
               assigned' = IF a = "bad_receipt" THEN assigned
                                                ELSE assigned \cup {Assignment(r, k)}
        ELSE UNCHANGED assigned

InStage(c) ==
  doing = "idle" /\ call[c].kind # "idle" /\ call[c].next <= StageCount

Unaffected == UNCHANGED
  <<doing, at, order, lifecycle, status, subscribed, healthStates, manifest,
    bootPassed, declared, commands, engine, securityUp, records, calls, outages>>

\* Mutant: the receipt of Security Core is not verified.
StagePassesUnverified(c) ==
  /\ InStage(c)
  /\ LET rec == call[c].record
         k == call[c].next
     IN  /\ Refusal(rec, k, Emits(c)) = ""
         /\ Ask(c, k, SecurityAnswers)
         /\ call' = [call EXCEPT ![c] = InCall(c, Done(rec, k), k + 1)]
         /\ Publish(c, "stage.completed", k)
  /\ UNCHANGED disturbed
  /\ Unaffected

StagePasses(c) ==
  /\ InStage(c)
  /\ LET rec == call[c].record
         k == call[c].next
     IN  /\ Refusal(rec, k, Emits(c)) = ""
         /\ Ask(c, k, SecurityAnswers \cap {"receipt"})
         /\ call' = [call EXCEPT ![c] = InCall(c, Done(rec, k), k + 1)]
         /\ Publish(c, "stage.completed", k)
  /\ UNCHANGED disturbed
  /\ Unaffected

StageRefused(c) ==
  /\ InStage(c)
  /\ LET rec == call[c].record
         k == call[c].next
         why == Refusal(rec, k, Emits(c))
     IN  /\ why # ""
         /\ FailStage(c, rec, k, Snapshot(rec), why, <<>>)
  /\ UNCHANGED <<assigned, disturbed>>
  /\ Unaffected

\* Security Core raises after it acted, or returns what is not a receipt.
AssignmentFails(c) ==
  /\ InStage(c)
  /\ LET rec == call[c].record
         k == call[c].next
     IN  /\ Refusal(rec, k, Emits(c)) = ""
         /\ AsksSecurity(k)
         /\ Ask(c, k, SecurityAnswers \cap {"bad_receipt", "lost_answer"})
         /\ FailStage(c, rec, k, Snapshot(rec), "receipt", <<>>)
         /\ disturbed' = disturbed \cup {rec.request.id}
  /\ Unaffected

\* The receipt is kept, and then no transition can be made of it.
TransitionRaises(c) ==
  /\ InStage(c)
  /\ LET rec == call[c].record
         k == call[c].next
     IN  /\ Refusal(rec, k, Emits(c)) = ""
         /\ AsksSecurity(k)
         /\ Ask(c, k, SecurityAnswers \cap {"unhashable"})
         /\ FailStage(c, Filed(rec, k), k, Snapshot(rec), "hash", <<>>)
         /\ disturbed' = disturbed \cup {rec.request.id}
  /\ Unaffected

\* The transition is recorded as passed and published; a subscriber raises.
SubscriberRaises(c) ==
  /\ InStage(c)
  /\ Emits(c)
  /\ "stage.completed" \in RaisingEvents
  /\ LET rec == call[c].record
         k == call[c].next
     IN  /\ Refusal(rec, k, TRUE) = ""
         /\ Ask(c, k, SecurityAnswers \cap {"receipt"})
         /\ FailStage(c, Done(rec, k), k, Snapshot(rec), "publish",
                      <<Event("stage.completed", rec.request.id, k)>>)
         /\ disturbed' = disturbed \cup {rec.request.id}
  /\ Unaffected

\* The end of _run: the first record of an identifier is kept.
Store(c) ==
  LET rec == call[c].record
  IN  records' = IF rec.request.id \in DOMAIN records THEN records
                 ELSE [i \in DOMAIN records \cup {rec.request.id} |->
                         IF i = rec.request.id THEN rec ELSE records[i]]

EndExecute(c) ==
  /\ call[c].kind = "execute"
  /\ call[c].next > StageCount
  /\ Store(c)
  /\ call' = [call EXCEPT ![c] = Idle]
  /\ UNCHANGED <<platformVars, engine, securityUp, assigned, calls, outages, disturbed>>

Replayed(expected, actual) ==
  /\ Verify(expected)
  /\ Verify(actual)
  /\ expected.state = actual.state
  /\ expected.transitions = actual.transitions

EndReplay(c) ==
  /\ call[c].kind = "replay"
  /\ call[c].next > StageCount
  /\ LET actual == call[c].record
         id == actual.request.id
     IN  audit' = Append(audit,
           Event(IF Replayed(records[id], actual) THEN "replay.verified"
                                                  ELSE "replay.failed", id, 0))
  /\ call' = [call EXCEPT ![c] = Idle]
  /\ UNCHANGED <<doing, at, order, lifecycle, status, subscribed, healthStates,
                 manifest, bootPassed, declared, commands, engine, securityUp,
                 assigned, records, calls, outages, disturbed>>

-----------------------------------------------------------------------------

SecurityCoreChanges ==
  /\ outages < MaxOutages
  /\ outages' = outages + 1
  /\ securityUp' = ~securityUp
  /\ disturbed' = Ids
  /\ UNCHANGED <<platformVars, engine, assigned, records, call, calls>>

PlatformSteps ==
  /\ PlatformNext
  /\ disturbed' = Ids
  /\ UNCHANGED <<engine, securityUp, assigned, records, call, calls, outages>>

Init == PlatformInit /\ OnboardingInit

Next ==
  \/ PlatformSteps
  \/ SecurityCoreChanges
  \/ StartEngine
  \/ \E c \in Callers :
       \/ \E r \in Requests : BeginExecute(c, r)
       \/ \E id \in Ids : BeginReplay(c, id)
       \/ StagePasses(c) \/ StageRefused(c) \/ AssignmentFails(c)
       \/ TransitionRaises(c) \/ SubscriberRaises(c)
       \/ EndExecute(c) \/ EndReplay(c)

Spec == Init /\ [][Next]_vars
=============================================================================
