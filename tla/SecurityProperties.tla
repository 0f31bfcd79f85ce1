------------------------- MODULE SecurityProperties -------------------------
(***************************************************************************)
(* What the receipts of Security Core are evidence of.                     *)
(***************************************************************************)
EXTENDS SecurityCore

Did(receipt, operation) ==
  receipt.outcome = "PASS" /\ receipt.input.operation = operation

AboutSubject(receipt, s) ==
  /\ \E operation \in {"register_identity", "assign_identity_and_roles", "authorize"} :
       Did(receipt, operation)
  /\ receipt.input.subject = s

AboutPolicy(receipt, o) == Did(receipt, "assign_policy") /\ receipt.input.subject = o

\* An ALLOW was earned: an earlier receipt in the list assigned that role to
\* that identity in that organization, however the configuration, the services
\* and the lifecycle changed in between (policy.py decide_role_authorization).
AllowIsEarned ==
  \A n \in DOMAIN receipts :
    Did(receipts[n], "authorize") /\ receipts[n].reason = "REQUIRED_ROLE_ASSIGNED" =>
      \E m \in 1..(n - 1) :
        /\ Did(receipts[m], "assign_identity_and_roles")
        /\ receipts[m].input.subject = receipts[n].input.subject
        /\ receipts[n].input.role \in receipts[m].input.roles

Keyed(receipt) ==
  \E operation \in {"register_identity", "assign_identity_and_roles", "assign_policy"} :
    Did(receipt, operation)

\* A key assigns once: no two receipts of assignments have the same key, though
\* a call that met a raising subscriber was answered with a failure, and its
\* caller tries again (engine.py _idempotent_result).
KeysAssignOnce ==
  \A n, m \in DOMAIN receipts :
    /\ Keyed(receipts[n]) /\ Keyed(receipts[m])
    /\ receipts[n].input.key = receipts[m].input.key
    => n = m

\* The last receipt about s, if there is one, tells what is stored of it.
SubjectEvidenced(s) ==
  \/ /\ s \notin identities /\ roles[s] = {}
     /\ \A n \in DOMAIN receipts :
          AboutSubject(receipts[n], s) => Did(receipts[n], "authorize")
  \/ \E n \in DOMAIN receipts :
       /\ AboutSubject(receipts[n], s) /\ receipts[n].resulting = View(s)
       /\ \A m \in DOMAIN receipts : m > n => ~AboutSubject(receipts[m], s)

PolicyEvidenced(o) ==
  \/ /\ policies[o] = NoPolicy
     /\ \A n \in DOMAIN receipts : ~AboutPolicy(receipts[n], o)
  \/ \E n \in DOMAIN receipts :
       /\ AboutPolicy(receipts[n], o) /\ receipts[n].resulting = policies[o]
       /\ \A m \in DOMAIN receipts : m > n => ~AboutPolicy(receipts[m], o)

\* The receipts tell what is stored: what Security Core holds of an identity,
\* or of an organization's policy, is what the last receipt about it says, and
\* nothing if there is none.  No failure, conflict or restart changes it.
StoresAreEvidenced ==
  /\ \A s \in Subjects : SubjectEvidenced(s)
  /\ \A o \in Organizations : PolicyEvidenced(o)

\* Every receipt can be replayed at any time, whatever was stored since, except
\* that a decision is not reproduced if its role has become configured, or has
\* stopped being so, since it was taken, nor while no role is configured at
\* all, not even one that was denied for that (engine.py _verify_replay_target).
ReplaysDependOnConfiguration ==
  \A n \in DOMAIN receipts :
    Reproduced(receipts[n]) <=>
      (Decided(receipts[n]) =>
         /\ settings.roles # {}
         /\ receipts[n].input.role \in settings.roles
              <=> receipts[n].reason # "ROLE_NOT_CONFIGURED")
=============================================================================
