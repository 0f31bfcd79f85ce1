---------------------------- MODULE SecurityCore ----------------------------
(***************************************************************************)
(* Security Core of BOOT-0021, as the BOOT-0022 package delivers it: the   *)
(* service that the onboarding pipeline asks for its assignments.  It      *)
(* keeps identities, roles and policies by organization, answers a request *)
(* with a receipt, and keeps the receipts in a list.                       *)
(*                                                                         *)
(* One action is one call; nothing interrupts it but a subscriber that     *)
(* raises when the call publishes its receipt.  Hashes are injective: a    *)
(* receipt stands for its own hash, and the list, in memory and only       *)
(* appended to, always verifies.  What a failed receipt holds besides the  *)
(* input is not told apart.                                                *)
(***************************************************************************)
EXTENDS Naturals, Sequences

CONSTANTS
  Organizations, Identities,
  Roles, Policies,   \* the identifiers that are well formed
  Keys,              \* idempotency keys
  Required,          \* the platform services it requires
  NoPolicy,          \* no policy is assigned
  MaxReceipts        \* bound: receipts issued by the operations and by start

VARIABLES
  state,        \* SecurityLifecycle
  status,       \* Module.status
  running,      \* the required services that are Running
  settings,     \* the values of the Configuration service
  identities,   \* the registered identities, by organization
  roles,        \* the roles assigned to each, {} if there is no record
  policies,     \* the policy of each organization
  receipts,     \* the receipts, in order of issue
  idempotency   \* the receipt each key got, 0 if none

stores == <<identities, roles, policies>>
vars == <<state, status, running, settings, stores, receipts, idempotency>>

Subjects == Organizations \X Identities

Settings == [enabled: BOOLEAN, roles: SUBSET Roles, policies: SUBSET Policies]

Init ==
  /\ state = "Uninitialized"
  /\ status = "Offline"
  /\ running \in SUBSET Required
  /\ settings \in Settings
  /\ identities = {}
  /\ roles = [s \in Subjects |-> {}]
  /\ policies = [o \in Organizations |-> NoPolicy]
  /\ receipts = <<>>
  /\ idempotency = [k \in Keys |-> 0]

-----------------------------------------------------------------------------
(* Receipts *)

\* _identity_role_state and _policy_state
View(s) == [registered |-> s \in identities, roles |-> roles[s]]

Passed(input, prior, resulting, reason) ==
  [input |-> input, outcome |-> "PASS", prior |-> prior, resulting |-> resulting,
   reason |-> reason]

Failure(input) == [input |-> input, outcome |-> "FAIL"]

\* The receipt of what was done.  It is published when everything is stored: if
\* a subscriber raises then, a failed receipt follows and is the answer.
Issue(passed) ==
  \/ receipts' = Append(receipts, passed)
  \/ receipts' = Append(Append(receipts, passed), Failure(passed.input))

Fail(input) ==
  /\ receipts' = Append(receipts, Failure(input))
  /\ UNCHANGED <<stores, idempotency>>

-----------------------------------------------------------------------------
(* Lifecycle *)

Sound ==
  /\ running = Required
  /\ settings.enabled /\ settings.roles # {} /\ settings.policies # {}

\* A start that is refused, from Degraded for any reason, or that meets a
\* raising subscriber ends in Failed.
Start ==
  /\ state # "Operational"
  /\ \/ /\ state # "Degraded" /\ Sound
        /\ state' = "Operational" /\ status' = "Running"
        /\ UNCHANGED <<receipts, stores, idempotency>>
     \/ /\ state' = "Failed" /\ status' = "Offline"
        /\ Fail([operation |-> "start"])
  /\ UNCHANGED <<running, settings>>

Stop ==
  /\ state' = "Stopped" /\ status' = "Stopped"
  /\ UNCHANGED <<running, settings, stores, receipts, idempotency>>

\* health() notices an outage, and the end of one.
Noticed ==
  IF state = "Operational" /\ running # Required THEN "Degraded"
  ELSE IF state = "Degraded" /\ running = Required /\ status = "Running"
         THEN "Operational"
  ELSE state

Available == status = "Running" /\ Noticed = "Operational" /\ running = Required

CheckHealth ==
  /\ state' = Noticed
  /\ UNCHANGED <<status, running, settings, stores, receipts, idempotency>>

-----------------------------------------------------------------------------
(* Assignments *)

\* The key was given with other input.
Conflict(input) ==
  LET kept == idempotency[input.key]
  IN  kept # 0 /\ receipts[kept].input # input

\* What every assignment does around its own update: the health check, the
\* refusals, and the answer of a call that was made before.
Assign(input, configured, update) ==
  /\ state' = Noticed
  /\ UNCHANGED <<status, running, settings>>
  /\ \/ /\ ~Available \/ ~configured \/ Conflict(input)
        /\ Fail(input)
     \/ /\ Available /\ configured /\ ~Conflict(input)
        /\ idempotency[input.key] # 0
        /\ UNCHANGED <<stores, receipts, idempotency>>
     \/ /\ Available /\ configured
        /\ idempotency[input.key] = 0
        /\ update
        /\ idempotency' = [idempotency EXCEPT ![input.key] = Len(receipts) + 1]

RegisterIdentity(s, k) ==
  LET input == [operation |-> "register_identity", subject |-> s, key |-> k]
  IN  Assign(input, TRUE,
        /\ identities' = identities \union {s}
        /\ UNCHANGED <<roles, policies>>
        /\ Issue(Passed(input, View(s), View(s)', "IDENTITY_REGISTERED")))

AssignRoles(s, asked, k) ==
  LET input == [operation |-> "assign_identity_and_roles", subject |-> s,
                roles |-> asked, key |-> k]
  IN  Assign(input, asked \subseteq settings.roles,
        /\ identities' = identities \union {s}
        /\ roles' = [roles EXCEPT ![s] = @ \union asked]
        /\ UNCHANGED policies
        /\ Issue(Passed(input, View(s), View(s)', "ROLES_ASSIGNED")))

AssignPolicy(o, p, k) ==
  LET input == [operation |-> "assign_policy", subject |-> o, policy |-> p, key |-> k]
  IN  Assign(input, p \in settings.policies,
        /\ policies' = [policies EXCEPT ![o] = p]
        /\ UNCHANGED <<identities, roles>>
        /\ Issue(Passed(input, policies[o], policies'[o], "POLICY_ASSIGNED")))

\* Input that is not well formed is refused before anything is looked at.
RefuseInput(operation) ==
  /\ Fail([operation |-> operation])
  /\ UNCHANGED <<state, status, running, settings>>

-----------------------------------------------------------------------------
(* Authorization and replay *)

\* ALLOW is the one reason that is not a denial.
Decide(view, role, configured) ==
  IF role \notin configured THEN "ROLE_NOT_CONFIGURED"
  ELSE IF ~view.registered THEN "UNKNOWN_IDENTITY"
  ELSE IF role \notin view.roles THEN "REQUIRED_ROLE_NOT_ASSIGNED"
  ELSE "REQUIRED_ROLE_ASSIGNED"

Authorize(s, role) ==
  LET input == [operation |-> "authorize", subject |-> s, role |-> role]
  IN  /\ state' = Noticed
      /\ UNCHANGED <<status, running, settings>>
      /\ \/ /\ ~Available \/ settings.roles = {}
            /\ Fail(input)
         \/ /\ Available /\ settings.roles # {}
            /\ Issue(Passed(input, View(s), View(s),
                            Decide(View(s), role, settings.roles)))
            /\ UNCHANGED <<stores, idempotency>>

\* _replay_resulting_state
ResultOf(input, prior) ==
  IF input.operation = "register_identity"
    THEN [registered |-> TRUE, roles |-> prior.roles]
  ELSE IF input.operation = "assign_identity_and_roles"
         THEN [registered |-> TRUE, roles |-> prior.roles \union input.roles]
  ELSE IF input.operation = "assign_policy" THEN input.policy
  ELSE prior

Decided(receipt) == receipt.outcome = "PASS" /\ receipt.input.operation = "authorize"

\* _verify_replay_target: the decision is made again with the roles that are
\* configured now, and not at all if none is.
Reproduced(receipt) ==
  receipt.outcome = "PASS" =>
    /\ ResultOf(receipt.input, receipt.prior) = receipt.resulting
    /\ Decided(receipt) =>
         /\ settings.roles # {}
         /\ receipt.reason = Decide(receipt.prior, receipt.input.role, settings.roles)

\* A replay of a decision raises when no role is configured: no receipt then.
Replay(n) ==
  LET input == [operation |-> "replay", receipt |-> n]
  IN  /\ Decided(receipts[n]) => settings.roles # {}
      /\ receipts' = Append(receipts,
           IF Reproduced(receipts[n]) THEN Passed(input, n, n, "REPLAY_VERIFIED")
                                      ELSE Failure(input))
      /\ UNCHANGED <<state, status, running, settings, stores, idempotency>>

-----------------------------------------------------------------------------

ServicesChange ==
  /\ running' \in SUBSET Required
  /\ UNCHANGED <<state, status, settings, stores, receipts, idempotency>>

Configure ==
  /\ settings' \in Settings
  /\ UNCHANGED <<state, status, running, stores, receipts, idempotency>>

Operations ==
  {"register_identity", "assign_identity_and_roles", "assign_policy", "authorize"}

Call ==
  \/ \E s \in Subjects :
       \/ \E k \in Keys : \/ RegisterIdentity(s, k)
                          \/ \E asked \in SUBSET Roles \ {{}} : AssignRoles(s, asked, k)
       \/ \E role \in Roles : Authorize(s, role)
  \/ \E o \in Organizations, p \in Policies, k \in Keys : AssignPolicy(o, p, k)
  \/ \E operation \in Operations : RefuseInput(operation)
  \/ \E n \in DOMAIN receipts : Replay(n)

Next ==
  \/ Len(receipts) < MaxReceipts /\ (Call \/ Start)
  \/ Stop
  \/ CheckHealth
  \/ ServicesChange
  \/ Configure

Spec == Init /\ [][Next]_vars
=============================================================================
