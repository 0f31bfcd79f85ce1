--------------------------- MODULE SecurityProofs ---------------------------
(***************************************************************************)
(* What the receipts of Security Core are evidence of, for any number of   *)
(* organizations, identities, roles, policies, keys and calls.  Receipts   *)
(* are only appended, and what is stored changes only with a receipt that  *)
(* says so.                                                                *)
(***************************************************************************)
EXTENDS SecurityProperties, SequenceTheorems, TLAPS

\* Every role that is assigned has a receipt.
Backed ==
  /\ DOMAIN roles = Subjects
  /\ \A s \in Subjects : \A role \in roles[s] :
       \E m \in DOMAIN receipts :
         /\ Did(receipts[m], "assign_identity_and_roles")
         /\ receipts[m].input.subject = s /\ role \in receipts[m].input.roles

\* A key knows the receipt that it got.
Known ==
  /\ DOMAIN idempotency = Keys
  /\ \A n \in DOMAIN receipts :
       Keyed(receipts[n]) => /\ receipts[n].input.key \in Keys
                             /\ idempotency[receipts[n].input.key] = n

\* What was done follows from what was there before, and what was decided from
\* that and whether the role was configured.
Follows(receipt) ==
  receipt.outcome = "PASS" =>
    /\ receipt.resulting = ResultOf(receipt.input, receipt.prior)
    /\ receipt.input.operation = "authorize" =>
         receipt.reason \in {"ROLE_NOT_CONFIGURED",
                             Decide(receipt.prior, receipt.input.role,
                                    {receipt.input.role})}

Inv ==
  /\ \E S : receipts \in Seq(S)
  /\ DOMAIN policies = Organizations
  /\ \A n \in DOMAIN receipts : Follows(receipts[n])
  /\ Backed
  /\ Known
  /\ AllowIsEarned
  /\ StoresAreEvidenced

-----------------------------------------------------------------------------

\* One receipt more, and perhaps one of a failure after it.
Logged(r) ==
  LET end == Len(receipts) + 1 IN
  /\ end \in Nat \ {0}
  /\ DOMAIN receipts = 1..(end - 1)
  /\ DOMAIN receipts' \in {1..end, 1..(end + 1)}
  /\ \A n \in DOMAIN receipts : receipts'[n] = receipts[n]
  /\ receipts'[end] = r
  /\ \A n \in DOMAIN receipts' : n > end => receipts'[n].outcome = "FAIL"

LEMMA AppendLogs ==
  ASSUME NEW S, receipts \in Seq(S), NEW r, receipts' = Append(receipts, r)
  PROVE  Logged(r) /\ \E T : receipts' \in Seq(T)
<1>1. receipts \in Seq(S \union {r}) /\ r \in S \union {r}
  <2>1. \A n \in 1..Len(receipts) : receipts[n] \in S
    OBVIOUS
  <2> QED  BY <2>1, SeqDef
<1>2. receipts' \in Seq(S \union {r})
  BY <1>1
<1>3. Logged(r)
  BY <1>1 DEF Logged
<1> QED  BY <1>2, <1>3

LEMMA IssueLogs ==
  ASSUME NEW S, receipts \in Seq(S), NEW r, Issue(r)
  PROVE  Logged(r) /\ \E T : receipts' \in Seq(T)
<1> DEFINE failure == Failure(r.input)
           U == S \union {r, failure}
<1>1. CASE receipts' = Append(receipts, r)
  BY <1>1, AppendLogs
<1>2. CASE receipts' = Append(Append(receipts, r), failure)
  <2>1. receipts \in Seq(U) /\ r \in U /\ failure \in U
    <3>1. \A n \in 1..Len(receipts) : receipts[n] \in S
      OBVIOUS
    <3> QED  BY <3>1, SeqDef
  <2>2. failure.outcome = "FAIL"
    BY DEF Failure
  <2> HIDE DEF U, failure
  <2>3. Append(receipts, r) \in Seq(U)
    BY <2>1
  <2>4. receipts' \in Seq(U)
    BY <1>2, <2>1, <2>3
  <2>5. Logged(r)
    BY <1>2, <2>1, <2>2, <2>3 DEF Logged
  <2> QED  BY <2>4, <2>5
<1> QED  BY <1>1, <1>2 DEF Issue

\* What the receipts add up to, whichever operation added one.
LEMMA LoggedKeeps ==
  ASSUME Inv, NEW r, Logged(r), Follows(r), \E T : receipts' \in Seq(T),
         DOMAIN policies' = Organizations, Backed', Known',
         /\ Did(r, "authorize") /\ r.reason = "REQUIRED_ROLE_ASSIGNED"
         => \E s \in Subjects : r.input.subject = s /\ r.input.role \in roles[s],
         StoresAreEvidenced'
  PROVE  Inv'
<1> DEFINE end == Len(receipts) + 1
<1>1. \A n \in DOMAIN receipts' :
        \/ n \in DOMAIN receipts /\ n < end /\ receipts'[n] = receipts[n]
        \/ receipts'[n].outcome = "FAIL"
        \/ n = end /\ receipts'[n] = r
  BY DEF Logged
<1>2. end \in Nat /\ DOMAIN receipts = 1..(end - 1)
  BY DEF Logged
<1> HIDE DEF end
<1>3. \A n \in DOMAIN receipts' : Follows(receipts'[n])
  BY <1>1 DEF Inv, Follows
<1>4. AllowIsEarned'
  <2> SUFFICES ASSUME NEW n \in DOMAIN receipts', Did(receipts'[n], "authorize"),
                      receipts'[n].reason = "REQUIRED_ROLE_ASSIGNED"
               PROVE  \E m \in 1..(n - 1) :
                        /\ Did(receipts'[m], "assign_identity_and_roles")
                        /\ receipts'[m].input.subject = receipts'[n].input.subject
                        /\ receipts'[n].input.role \in receipts'[m].input.roles
    BY DEF AllowIsEarned
  <2>1. CASE n \in DOMAIN receipts /\ receipts'[n] = receipts[n]
    <3>1. PICK m \in 1..(n - 1) :
            /\ Did(receipts[m], "assign_identity_and_roles")
            /\ receipts[m].input.subject = receipts[n].input.subject
            /\ receipts[n].input.role \in receipts[m].input.roles
      BY <2>1 DEF Inv, AllowIsEarned
    <3>2. m \in DOMAIN receipts
      BY <1>2, <2>1
    <3> QED  BY <2>1, <3>1, <3>2 DEF Logged
  <2>2. CASE n = end /\ receipts'[n] = r
    <3>1. PICK m \in DOMAIN receipts :
            /\ Did(receipts[m], "assign_identity_and_roles")
            /\ receipts[m].input.subject = r.input.subject
            /\ r.input.role \in receipts[m].input.roles
      BY <2>2 DEF Inv, Backed
    <3>2. m \in 1..(n - 1) /\ receipts'[m] = receipts[m]
      BY <1>2, <2>2 DEF Logged
    <3> QED  BY <2>2, <3>1, <3>2
  <2> QED  BY <1>1, <2>1, <2>2 DEF Did
<1> QED  BY <1>3, <1>4 DEF Inv

LEMMA BackedGrows ==
  ASSUME Backed, NEW r, Logged(r), DOMAIN roles' = Subjects,
         \A s \in Subjects : \A role \in roles'[s] :
           \/ role \in roles[s]
           \/ /\ Did(r, "assign_identity_and_roles")
              /\ r.input.subject = s /\ role \in r.input.roles
  PROVE  Backed'
<1>1. /\ DOMAIN receipts \subseteq DOMAIN receipts'
      /\ Len(receipts) + 1 \in DOMAIN receipts'
  BY DEF Logged
<1> QED  BY <1>1 DEF Backed, Logged

\* A key that is given a receipt had none.
LEMMA KnownGrows ==
  ASSUME Known, NEW r, Logged(r),
         \/ ~Keyed(r) /\ idempotency' = idempotency
         \/ /\ r.input.key \in Keys /\ idempotency[r.input.key] = 0
            /\ idempotency' = [idempotency EXCEPT ![r.input.key] = Len(receipts) + 1]
  PROVE  Known'
<1>1. \A n \in DOMAIN receipts' :
        \/ n \in DOMAIN receipts /\ n # 0 /\ receipts'[n] = receipts[n]
        \/ ~Keyed(receipts'[n])
        \/ n = Len(receipts) + 1 /\ receipts'[n] = r
  BY DEF Logged, Keyed, Did
<1> QED  BY <1>1 DEF Known

Untouched(s) == (s \in identities' <=> s \in identities) /\ roles'[s] = roles[s]

LEMMA SubjectKept ==
  ASSUME NEW r, Logged(r), NEW s, SubjectEvidenced(s), Untouched(s),
         ~AboutSubject(r, s)
  PROVE  SubjectEvidenced(s)'
<1>1. \A n \in DOMAIN receipts' :
        \/ n \in DOMAIN receipts /\ receipts'[n] = receipts[n]
        \/ ~AboutSubject(receipts'[n], s)
  BY DEF Logged, AboutSubject, Did
<1>2. DOMAIN receipts \subseteq DOMAIN receipts'
  BY DEF Logged
<1>3. View(s)' = View(s)
  BY DEF View, Untouched
<1> QED  BY <1>1, <1>2, <1>3 DEF SubjectEvidenced, Logged, Untouched

LEMMA SubjectRecorded ==
  ASSUME NEW r, Logged(r), NEW s, AboutSubject(r, s), r.resulting = View(s)'
  PROVE  SubjectEvidenced(s)'
<1>1. \A n \in DOMAIN receipts' :
        n > Len(receipts) + 1 => ~AboutSubject(receipts'[n], s)
  BY DEF Logged, AboutSubject, Did
<1>2. Len(receipts) + 1 \in DOMAIN receipts' /\ receipts'[Len(receipts) + 1] = r
  BY DEF Logged
<1> QED  BY <1>1, <1>2 DEF SubjectEvidenced

LEMMA PolicyKept ==
  ASSUME NEW r, Logged(r), NEW o, PolicyEvidenced(o), policies'[o] = policies[o],
         ~AboutPolicy(r, o)
  PROVE  PolicyEvidenced(o)'
<1>1. \A n \in DOMAIN receipts' :
        \/ n \in DOMAIN receipts /\ receipts'[n] = receipts[n]
        \/ ~AboutPolicy(receipts'[n], o)
  BY DEF Logged, AboutPolicy, Did
<1>2. DOMAIN receipts \subseteq DOMAIN receipts'
  BY DEF Logged
<1> QED  BY <1>1, <1>2 DEF PolicyEvidenced, Logged

LEMMA PolicyRecorded ==
  ASSUME NEW r, Logged(r), NEW o, AboutPolicy(r, o), r.resulting = policies'[o]
  PROVE  PolicyEvidenced(o)'
<1>1. \A n \in DOMAIN receipts' :
        n > Len(receipts) + 1 => ~AboutPolicy(receipts'[n], o)
  BY DEF Logged, AboutPolicy, Did
<1>2. Len(receipts) + 1 \in DOMAIN receipts' /\ receipts'[Len(receipts) + 1] = r
  BY DEF Logged
<1> QED  BY <1>1, <1>2 DEF PolicyEvidenced

-----------------------------------------------------------------------------

\* A receipt of a failure, a replay or a start.
LEMMA NothingDone ==
  ASSUME Inv, NEW r, receipts' = Append(receipts, r), Follows(r),
         \A operation \in Operations : ~Did(r, operation),
         UNCHANGED <<stores, idempotency>>
  PROVE  Inv'
<1>1. Logged(r) /\ \E T : receipts' \in Seq(T)
  BY AppendLogs DEF Inv
<1>2. UNCHANGED <<identities, roles, policies, idempotency>>
  BY DEF stores
<1>3. ~Keyed(r) /\ ~Did(r, "authorize") /\ \A s : ~AboutSubject(r, s) /\ ~AboutPolicy(r, s)
  BY DEF Keyed, AboutSubject, AboutPolicy, Operations
<1>4. Backed' /\ Known'
  BY <1>1, <1>2, <1>3, BackedGrows, KnownGrows DEF Inv, Backed
<1>5. \A s : Untouched(s)
  BY <1>2 DEF Untouched
<1>6. StoresAreEvidenced'
  BY <1>1, <1>2, <1>3, <1>5, SubjectKept, PolicyKept DEF Inv, StoresAreEvidenced
<1> QED  BY <1>1, <1>2, <1>3, <1>4, <1>6, LoggedKeeps DEF Inv

LEMMA FailKeeps ==
  ASSUME Inv, NEW input, Fail(input)
  PROVE  Inv'
<1>1. Failure(input).outcome = "FAIL"
  BY DEF Failure
<1>2. Follows(Failure(input)) /\ \A operation \in Operations : ~Did(Failure(input), operation)
  BY <1>1 DEF Follows, Did
<1>3. receipts' = Append(receipts, Failure(input)) /\ UNCHANGED <<stores, idempotency>>
  BY DEF Fail
<1> QED  BY <1>2, <1>3, NothingDone

LEMMA ReplayKeeps ==
  ASSUME Inv, NEW n, Replay(n)
  PROVE  Inv'
<1> DEFINE input == [operation |-> "replay", receipt |-> n]
           passed == Passed(input, n, n, "REPLAY_VERIFIED")
<1>1. /\ receipts' = Append(receipts, passed) \/ receipts' = Append(receipts, Failure(input))
      /\ UNCHANGED <<stores, idempotency>>
  BY DEF Replay
<1>2. Follows(passed) /\ \A operation \in Operations : ~Did(passed, operation)
  BY DEF Passed, Follows, ResultOf, Did, Operations
<1>3. CASE receipts' = Append(receipts, passed)
  BY <1>1, <1>2, <1>3, NothingDone
<1>4. CASE receipts' = Append(receipts, Failure(input))
  BY <1>1, <1>4, FailKeeps DEF Fail
<1> QED  BY <1>1, <1>3, <1>4

LEMMA AuthorizeKeeps ==
  ASSUME Inv, NEW s \in Subjects, NEW role, Authorize(s, role)
  PROVE  Inv'
<1> DEFINE input == [operation |-> "authorize", subject |-> s, role |-> role]
           r == Passed(input, View(s), View(s), Decide(View(s), role, settings.roles))
<1>1. CASE Fail(input)
  BY <1>1, FailKeeps
<1>2. CASE Issue(r) /\ UNCHANGED <<stores, idempotency>>
  <2>1. Logged(r) /\ \E T : receipts' \in Seq(T)
    BY <1>2, IssueLogs DEF Inv
  <2>2. UNCHANGED <<identities, roles, policies, idempotency>>
    BY <1>2 DEF stores
  <2>3. /\ r.input.operation = "authorize" /\ r.input.subject = s /\ r.input.role = role
        /\ r.outcome = "PASS" /\ r.prior = View(s) /\ r.resulting = View(s)
        /\ r.reason = Decide(View(s), role, settings.roles)
    BY DEF Passed
  <2> HIDE DEF r
  <2>4. Follows(r)
    BY <2>3 DEF Follows, ResultOf, Decide
  <2>5. /\ ~Keyed(r) /\ ~Did(r, "assign_identity_and_roles") /\ AboutSubject(r, s)
        /\ \A t : t # s => ~AboutSubject(r, t)
        /\ \A o : ~AboutPolicy(r, o)
    BY <2>3 DEF Keyed, AboutSubject, AboutPolicy, Did
  <2>6. Backed' /\ Known'
    BY <2>1, <2>2, <2>5, BackedGrows, KnownGrows DEF Inv, Backed
  <2>7. View(s)' = View(s) /\ \A t : Untouched(t)
    BY <2>2 DEF Untouched, View
  <2>8. StoresAreEvidenced'
    BY <2>1, <2>2, <2>3, <2>5, <2>7, SubjectKept, SubjectRecorded, PolicyKept
       DEF Inv, StoresAreEvidenced
  <2>9. r.reason = "REQUIRED_ROLE_ASSIGNED" => role \in roles[s]
    BY <2>3 DEF Decide, View
  <2> QED  BY <2>1, <2>2, <2>3, <2>4, <2>6, <2>8, <2>9, LoggedKeeps DEF Inv
<1> QED  BY <1>1, <1>2 DEF Authorize

-----------------------------------------------------------------------------

LEMMA RefusalKeeps ==
  ASSUME Inv, NEW input, Fail(input) \/ UNCHANGED <<stores, receipts, idempotency>>
  PROVE  Inv'
<1>1. CASE Fail(input)
  BY <1>1, FailKeeps
<1>2. CASE UNCHANGED <<stores, receipts, idempotency>>
  <2>1. UNCHANGED <<identities, roles, policies, receipts, idempotency>>
    BY <1>2 DEF stores
  <2>2. \A s : View(s)' = View(s)
    BY <2>1 DEF View
  <2>3. StoresAreEvidenced'
    BY <2>1, <2>2 DEF Inv, StoresAreEvidenced, SubjectEvidenced, PolicyEvidenced
  <2> QED  BY <2>1, <2>3 DEF Inv, Backed, Known, AllowIsEarned
<1> QED  BY <1>1, <1>2

\* An assignment is stored with its receipt and its key.
LEMMA AssignmentKeeps ==
  ASSUME Inv, NEW r, Issue(r), Keyed(r), ~Did(r, "authorize"), Follows(r),
         r.input.key \in Keys, idempotency[r.input.key] = 0,
         idempotency' = [idempotency EXCEPT ![r.input.key] = Len(receipts) + 1],
         DOMAIN policies' = Organizations, DOMAIN roles' = Subjects,
         \A s \in Subjects : \A role \in roles'[s] :
           \/ role \in roles[s]
           \/ /\ Did(r, "assign_identity_and_roles")
              /\ r.input.subject = s /\ role \in r.input.roles,
         \A s \in Subjects :
           \/ AboutSubject(r, s) /\ r.resulting = View(s)'
           \/ ~AboutSubject(r, s) /\ Untouched(s),
         \A o \in Organizations :
           \/ AboutPolicy(r, o) /\ r.resulting = policies'[o]
           \/ ~AboutPolicy(r, o) /\ policies'[o] = policies[o]
  PROVE  Inv'
<1>1. Logged(r) /\ \E T : receipts' \in Seq(T)
  BY IssueLogs DEF Inv
<1>2. Backed' /\ Known'
  BY <1>1, BackedGrows, KnownGrows DEF Inv
<1>3. StoresAreEvidenced'
  <2>1. \A s \in Subjects : SubjectEvidenced(s)'
    BY <1>1, SubjectKept, SubjectRecorded DEF Inv, StoresAreEvidenced
  <2>2. \A o \in Organizations : PolicyEvidenced(o)'
    BY <1>1, PolicyKept, PolicyRecorded DEF Inv, StoresAreEvidenced
  <2> QED  BY <2>1, <2>2 DEF StoresAreEvidenced
<1> QED  BY <1>1, <1>2, <1>3, LoggedKeeps

LEMMA RegisterIdentityKeeps ==
  ASSUME Inv, NEW s \in Subjects, NEW k \in Keys, RegisterIdentity(s, k)
  PROVE  Inv'
<1> DEFINE input == [operation |-> "register_identity", subject |-> s, key |-> k]
           prior == View(s)
           resulting == View(s)'
           r == Passed(input, prior, resulting, "IDENTITY_REGISTERED")
<1>1. CASE Fail(input) \/ UNCHANGED <<stores, receipts, idempotency>>
  BY <1>1, RefusalKeeps
<1>2. CASE /\ idempotency[k] = 0
           /\ idempotency' = [idempotency EXCEPT ![k] = Len(receipts) + 1]
           /\ identities' = identities \union {s} /\ UNCHANGED <<roles, policies>>
           /\ Issue(r)
  <2>1. /\ r.input.operation = "register_identity" /\ r.input.subject = s /\ r.input.key = k
        /\ r.outcome = "PASS" /\ r.prior = prior /\ r.resulting = resulting
    BY DEF Passed
  <2>2. resulting = [registered |-> TRUE, roles |-> prior.roles]
    BY <1>2 DEF View
  <2> HIDE DEF r
  <2>3. Follows(r)
    BY <2>1, <2>2 DEF Follows, ResultOf
  <2>4. /\ Keyed(r) /\ AboutSubject(r, s) /\ ~Did(r, "authorize")
        /\ \A t : t # s => ~AboutSubject(r, t)
        /\ \A o : ~AboutPolicy(r, o)
    BY <2>1 DEF Keyed, AboutSubject, AboutPolicy, Did
  <2>5. \A t : t # s => Untouched(t)
    BY <1>2 DEF Untouched
  <2> QED  BY <1>2, <2>1, <2>3, <2>4, <2>5, AssignmentKeeps DEF Inv, Backed
<1> QED  BY <1>1, <1>2 DEF RegisterIdentity, Assign

LEMMA AssignRolesKeeps ==
  ASSUME Inv, NEW s \in Subjects, NEW asked, NEW k \in Keys, AssignRoles(s, asked, k)
  PROVE  Inv'
<1> DEFINE input == [operation |-> "assign_identity_and_roles", subject |-> s,
                     roles |-> asked, key |-> k]
           prior == View(s)
           resulting == View(s)'
           r == Passed(input, prior, resulting, "ROLES_ASSIGNED")
<1>1. CASE Fail(input) \/ UNCHANGED <<stores, receipts, idempotency>>
  BY <1>1, RefusalKeeps
<1>2. CASE /\ idempotency[k] = 0
           /\ idempotency' = [idempotency EXCEPT ![k] = Len(receipts) + 1]
           /\ identities' = identities \union {s}
           /\ roles' = [roles EXCEPT ![s] = @ \union asked] /\ UNCHANGED policies
           /\ Issue(r)
  <2>1. /\ r.input.operation = "assign_identity_and_roles" /\ r.input.subject = s
        /\ r.input.roles = asked /\ r.input.key = k
        /\ r.outcome = "PASS" /\ r.prior = prior /\ r.resulting = resulting
    BY DEF Passed
  <2>2. DOMAIN roles = Subjects
    BY DEF Inv, Backed
  <2>3. resulting = [registered |-> TRUE, roles |-> prior.roles \union asked]
    BY <1>2, <2>2 DEF View
  <2> HIDE DEF r
  <2>4. Follows(r)
    BY <2>1, <2>3 DEF Follows, ResultOf
  <2>5. /\ Keyed(r) /\ AboutSubject(r, s) /\ ~Did(r, "authorize")
        /\ Did(r, "assign_identity_and_roles")
        /\ \A t : t # s => ~AboutSubject(r, t)
        /\ \A o : ~AboutPolicy(r, o)
    BY <2>1 DEF Keyed, AboutSubject, AboutPolicy, Did
  <2>6. /\ \A t \in Subjects : t # s => Untouched(t)
        /\ DOMAIN roles' = Subjects /\ roles'[s] = roles[s] \union asked
        /\ \A t \in Subjects : t # s => roles'[t] = roles[t]
    BY <1>2, <2>2 DEF Untouched
  <2> QED  BY <1>2, <2>1, <2>4, <2>5, <2>6, AssignmentKeeps DEF Inv
<1> QED  BY <1>1, <1>2 DEF AssignRoles, Assign

LEMMA AssignPolicyKeeps ==
  ASSUME Inv, NEW o \in Organizations, NEW p, NEW k \in Keys, AssignPolicy(o, p, k)
  PROVE  Inv'
<1> DEFINE input == [operation |-> "assign_policy", subject |-> o, policy |-> p, key |-> k]
           prior == policies[o]
           resulting == policies'[o]
           r == Passed(input, prior, resulting, "POLICY_ASSIGNED")
<1>1. CASE Fail(input) \/ UNCHANGED <<stores, receipts, idempotency>>
  BY <1>1, RefusalKeeps
<1>2. CASE /\ idempotency[k] = 0
           /\ idempotency' = [idempotency EXCEPT ![k] = Len(receipts) + 1]
           /\ policies' = [policies EXCEPT ![o] = p] /\ UNCHANGED <<identities, roles>>
           /\ Issue(r)
  <2>1. /\ r.input.operation = "assign_policy" /\ r.input.subject = o
        /\ r.input.policy = p /\ r.input.key = k
        /\ r.outcome = "PASS" /\ r.prior = prior /\ r.resulting = resulting
    BY DEF Passed
  <2>2. resulting = p /\ DOMAIN policies = Organizations /\ DOMAIN roles = Subjects
    BY <1>2 DEF Inv, Backed
  <2> HIDE DEF r
  <2>3. Follows(r)
    BY <2>1, <2>2 DEF Follows, ResultOf
  <2>4. /\ Keyed(r) /\ AboutPolicy(r, o) /\ ~Did(r, "authorize")
        /\ \A other : other # o => ~AboutPolicy(r, other)
        /\ \A t : ~AboutSubject(r, t)
    BY <2>1 DEF Keyed, AboutSubject, AboutPolicy, Did
  <2>5. /\ \A t : Untouched(t)
        /\ \A other : other # o => policies'[other] = policies[other]
    BY <1>2 DEF Untouched
  <2> QED  BY <1>2, <2>1, <2>2, <2>3, <2>4, <2>5, AssignmentKeeps
<1> QED  BY <1>1, <1>2 DEF AssignPolicy, Assign

-----------------------------------------------------------------------------

LEMMA StepKeeps ==
  ASSUME Inv, [Next]_vars
  PROVE  Inv'
<1>1. ASSUME Call PROVE Inv'
  <2>1. ASSUME NEW operation, RefuseInput(operation) PROVE Inv'
    BY <2>1, FailKeeps DEF RefuseInput
  <2> QED  BY <1>1, <2>1, RegisterIdentityKeeps, AssignRolesKeeps, AuthorizeKeeps,
              AssignPolicyKeeps, ReplayKeeps DEF Call
<1>2. ASSUME Start PROVE Inv'
  BY <1>2, RefusalKeeps DEF Start
<1>3. ASSUME Stop \/ CheckHealth \/ ServicesChange \/ Configure \/ UNCHANGED vars
      PROVE  Inv'
  BY <1>3, RefusalKeeps DEF Stop, CheckHealth, ServicesChange, Configure, vars
<1> QED  BY <1>1, <1>2, <1>3 DEF Next

LEMMA InitHolds == Init => Inv
<1> SUFFICES ASSUME Init PROVE Inv
  OBVIOUS
<1>1. receipts \in Seq({}) /\ DOMAIN receipts = {}
  BY DEF Init
<1>2. Backed /\ Known /\ AllowIsEarned
  BY <1>1 DEF Init, Backed, Known, AllowIsEarned
<1>3. StoresAreEvidenced
  BY <1>1 DEF Init, StoresAreEvidenced, SubjectEvidenced, PolicyEvidenced
<1> QED  BY <1>1, <1>2, <1>3 DEF Init, Inv

LEMMA InvariantHolds == Spec => []Inv
BY InitHolds, StepKeeps, PTL DEF Spec

\* No ALLOW without an assignment, whatever is configured, fails or restarts
\* (engine.py authorize).
THEOREM AllowsAreEarned == Spec => []AllowIsEarned
<1>1. Inv => AllowIsEarned
  BY DEF Inv
<1> QED  BY <1>1, InvariantHolds, PTL

\* However often a call is repeated, its key assigns once, though the first
\* answer was a failure (engine.py _idempotent_result).
THEOREM KeysAreIdempotent == Spec => []KeysAssignOnce
<1>1. Inv => KeysAssignOnce
  BY DEF Inv, Known, KeysAssignOnce
<1> QED  BY <1>1, InvariantHolds, PTL

\* The receipts account for what is stored (engine.py _issue_success).
THEOREM StoresFollowReceipts == Spec => []StoresAreEvidenced
<1>1. Inv => StoresAreEvidenced
  BY DEF Inv
<1> QED  BY <1>1, InvariantHolds, PTL

\* Replays verify whatever was stored since, and decisions as long as a role is
\* configured, and theirs is, or is not, as it was (_verify_replay_target).
THEOREM ReplaysVerify == Spec => []ReplaysDependOnConfiguration
<1>1. Inv => ReplaysDependOnConfiguration
  <2> SUFFICES ASSUME NEW receipt, Follows(receipt)
               PROVE  Reproduced(receipt) <=>
                        (Decided(receipt) =>
                           /\ settings.roles # {}
                           /\ receipt.input.role \in settings.roles
                                <=> receipt.reason # "ROLE_NOT_CONFIGURED")
    BY DEF Inv, ReplaysDependOnConfiguration
  <2> QED  BY DEF Follows, Reproduced, Decided, Decide
<1> QED  BY <1>1, InvariantHolds, PTL
=============================================================================
