-------------------------- MODULE OnboardingProofs --------------------------
(***************************************************************************)
(* Theorems about the platform and the onboarding pipeline on it, for any  *)
(* number of modules, requests, calls and outages.                         *)
(***************************************************************************)
EXTENDS OnboardingProperties, SequenceTheorems, TLAPS

-----------------------------------------------------------------------------
(* What a record looks like.  The stages leave no choice: a record that got *)
(* through n of them, and one that failed in the next, are determined by    *)
(* its request and the reason.                                              *)

PassedStage(k) ==
  [stage |-> k, from |-> Entry(k), to |-> Exit(k), ok |-> TRUE,
   input |-> [state |-> Entry(k), last |-> Entry(k), artifacts |-> 1..(k - 1)],
   last |-> "", reason |-> ""]

Through(r, n) ==
  [request |-> r, state |-> Entry(n + 1), last |-> Entry(n + 1), artifacts |-> 1..n,
   transitions |-> [k \in 1..n |-> PassedStage(k)]]

FailedAt(r, k, why) ==
  Failed(Through(r, k - 1), k, Snapshot(Through(r, k - 1)), why)

\* The artifact of the stage was kept, and then no transition could be made.
FailedHalfway(r, k) ==
  Failed(Filed(Through(r, k - 1), k), k, Snapshot(Through(r, k - 1)), "hash")

\* The stage passed, and then a subscriber raised.
FailedAfter(r, k) ==
  Failed(Through(r, k), k, Snapshot(Through(r, k - 1)), "publish")

LEMMA MaxUpTo ==
  ASSUME NEW n \in Nat \ {0}
  PROVE  Max(1..n) = n
<1>1. n \in 1..n /\ \A y \in 1..n : n >= y
  OBVIOUS
<1>2. \A x \in 1..n : (\A y \in 1..n : x >= y) => x = n
  OBVIOUS
<1> QED  BY <1>1, <1>2 DEF Max

LEMMA ThroughBegins ==
  ASSUME NEW r
  PROVE  NewRecord(r) = Through(r, 0)
<1>1. [k \in 1..0 |-> PassedStage(k)] = << >>
  OBVIOUS
<1>2. 1..0 = {} /\ Entry(0 + 1) = "Pending"
  BY DEF Entry
<1> QED  BY <1>1, <1>2 DEF NewRecord, Through

LEMMA ThroughGoesOn ==
  ASSUME NEW r, NEW n \in 0..(StageCount - 1)
  PROVE  Done(Through(r, n), n + 1) = Through(r, n + 1)
<1> DEFINE T == [k \in 1..n |-> PassedStage(k)]
           U == [k \in 1..(n + 1) |-> PassedStage(k)]
<1>1. StageCount = 9
  BY DEF StageCount, States
<1>2. Append(T, PassedStage(n + 1)) = U
  BY <1>1
<1>3. Exit(n + 1) = Entry(n + 2)
  BY <1>1 DEF Exit, Entry
<1>4. Snapshot(Through(r, n)) = [state |-> Entry(n + 1), last |-> Entry(n + 1), artifacts |-> 1..n]
  BY DEF Snapshot, Through
<1>5. (1..n) \cup {n + 1} = 1..(n + 1)
  BY <1>1
<1>6. (n + 1) - 1 = n /\ (n + 1) + 1 = n + 2
  BY <1>1
<1>7. PassedStage(n + 1) =
        [stage |-> n + 1, from |-> Entry(n + 1), to |-> Exit(n + 1), ok |-> TRUE,
         input |-> Snapshot(Through(r, n)), last |-> "", reason |-> ""]
  BY <1>4, <1>6 DEF PassedStage
<1> HIDE DEF T, U
<1>8. /\ Through(r, n) = [request |-> r, state |-> Entry(n + 1), last |-> Entry(n + 1),
                          artifacts |-> 1..n, transitions |-> T]
      /\ Through(r, n + 1) = [request |-> r, state |-> Entry(n + 2), last |-> Entry(n + 2),
                          artifacts |-> 1..(n + 1), transitions |-> U]
  BY <1>6 DEF Through, T, U
<1>9. /\ Through(r, n).request = r /\ Through(r, n).state = Entry(n + 1)
      /\ Through(r, n).transitions = T /\ Through(r, n).artifacts = 1..n
  BY <1>8
<1>10. PassedStage(n + 1) =
        [stage |-> n + 1, from |-> Through(r, n).state, to |-> Exit(n + 1), ok |-> TRUE,
         input |-> Snapshot(Through(r, n)), last |-> "", reason |-> ""]
  BY <1>7, <1>9
<1>11. Done(Through(r, n), n + 1) =
         [request |-> r, state |-> Exit(n + 1), last |-> Exit(n + 1),
          artifacts |-> (1..n) \cup {n + 1}, transitions |-> Append(T, PassedStage(n + 1))]
  <2>1. Filed(Through(r, n), n + 1) =
          [request |-> r, state |-> Entry(n + 1), last |-> Entry(n + 1),
           artifacts |-> (1..n) \cup {n + 1}, transitions |-> T]
    BY <1>8, <1>9 DEF Filed
  <2>2. /\ Filed(Through(r, n), n + 1).request = r
        /\ Filed(Through(r, n), n + 1).state = Through(r, n).state
        /\ Filed(Through(r, n), n + 1).artifacts = (1..n) \cup {n + 1}
        /\ Filed(Through(r, n), n + 1).transitions = T
    BY <1>9, <2>1
  <2> QED  BY <1>10, <2>2 DEF Done, Advanced
<1> QED  BY <1>2, <1>3, <1>5, <1>8, <1>11

\* What is there before stage k, when all stages so far passed.
Reached(k) == [state |-> Entry(k), last |-> Entry(k), artifacts |-> 1..(k - 1)]

\* Of m transitions, the first n passed.
PassedUpTo(T, n, m) ==
  /\ \A j \in 1..n : T[j].ok = TRUE /\ T[j].to = Exit(j)
  /\ \A j \in (n + 1)..m : T[j].ok = FALSE

LEMMA LastOfPassed ==
  ASSUME NEW T, NEW n \in Nat, NEW m \in Nat, n <= m, PassedUpTo(T, n, m)
  PROVE  LastPassed(T, m) = Entry(n + 1)
<1>1. {j \in 1..m : T[j].ok} = 1..n
  BY DEF PassedUpTo
<1>2. CASE n = 0
  BY <1>1, <1>2 DEF LastPassed, Entry
<1>3. CASE n # 0
  <2>1. n \in Nat \ {0}
    BY <1>3
  <2>2. n \in 1..n /\ Max(1..n) = n
    BY <2>1, MaxUpTo
  <2>3. LastPassed(T, m) = T[n].to
    BY <1>1, <2>2 DEF LastPassed
  <2> QED  BY <2>1, <2>2, <2>3 DEF Entry, Exit, PassedUpTo
<1> QED  BY <1>2, <1>3

LEMMA PassedFields ==
  ASSUME NEW k
  PROVE  /\ PassedStage(k).stage = k /\ PassedStage(k).from = Entry(k)
         /\ PassedStage(k).to = Exit(k) /\ PassedStage(k).input = Reached(k)
         /\ PassedStage(k).ok = TRUE
BY DEF PassedStage, Reached

\* A record whose stages passed in order, but for the last one, verifies.
LEMMA ChainVerifies ==
  ASSUME NEW rec, NEW n \in 0..StageCount, NEW m \in {n, n + 1}, m <= StageCount,
         Len(rec.transitions) = m,
         \A k \in 1..n : rec.transitions[k] = PassedStage(k),
         m = n => Snapshot(rec) = Reached(n + 1),
         m = n + 1 =>
           /\ Snapshot(rec) = [Reached(n + 1) EXCEPT !.state = "Failed"]
           /\ rec.transitions[m].stage = m /\ rec.transitions[m].from = Entry(m)
           /\ rec.transitions[m].to = "Failed" /\ rec.transitions[m].ok = FALSE
           /\ rec.transitions[m].input = Reached(m) /\ rec.transitions[m].last = Entry(m)
  PROVE  Verify(rec)
<1> DEFINE T == rec.transitions
           before(k) ==
             [state |-> IF k = 1 THEN "Pending" ELSE T[k - 1].to,
              last |-> LastPassed(T, k - 1),
              artifacts |-> {T[j].stage : j \in {i \in 1..(k - 1) : T[i].ok}}]
<1>1. StageCount = 9 /\ n \in Nat /\ m \in Nat
  BY DEF StageCount, States
<1>2. \A k \in 1..n : /\ T[k].stage = k /\ T[k].from = Entry(k) /\ T[k].ok = TRUE
                      /\ T[k].to = Exit(k) /\ T[k].input = Reached(k)
  <2> SUFFICES ASSUME NEW k \in 1..n
               PROVE  /\ T[k].stage = k /\ T[k].from = Entry(k) /\ T[k].ok = TRUE
                      /\ T[k].to = Exit(k) /\ T[k].input = Reached(k)
    OBVIOUS
  <2>1. T[k] = PassedStage(k)
    OBVIOUS
  <2>2. /\ PassedStage(k).stage = k /\ PassedStage(k).from = Entry(k)
        /\ PassedStage(k).to = Exit(k) /\ PassedStage(k).input = Reached(k)
        /\ PassedStage(k).ok = TRUE
    BY PassedFields
  <2> HIDE DEF T
  <2> QED  BY <2>1, <2>2
<1>3. rec.artifacts = 1..n
  BY <1>1 DEF Snapshot, Reached
<1>4. ASSUME NEW k \in 1..(n + 1) PROVE before(k) = Reached(k)
  <2>1. LastPassed(T, k - 1) = Entry(k)
    <3>1. k - 1 \in Nat /\ k - 1 <= k - 1 /\ (k - 1) + 1 = k
      BY <1>1
    <3>2. PassedUpTo(T, k - 1, k - 1)
      BY <1>1, <1>2 DEF PassedUpTo
    <3> HIDE DEF T
    <3> QED  BY <3>1, <3>2, LastOfPassed
  <2>2. {T[j].stage : j \in {i \in 1..(k - 1) : T[i].ok}} = 1..(k - 1)
    <3>1. \A i \in 1..(k - 1) : T[i].ok = TRUE /\ T[i].stage = i
      BY <1>1, <1>2
    <3> HIDE DEF T
    <3> QED  BY <3>1
  <2>3. (IF k = 1 THEN "Pending" ELSE T[k - 1].to) = Entry(k)
    <3>1. CASE k = 1
      BY <3>1 DEF Entry
    <3>2. CASE k # 1
      <4>1. k - 1 \in 1..n
        BY <1>1, <3>2
      <4>2. T[k - 1].to = States[k - 1]
        BY <1>2, <4>1 DEF Exit
      <4> HIDE DEF T
      <4> QED  BY <3>2, <4>2 DEF Entry
    <3> QED  BY <3>1, <3>2
  <2> QED  BY <2>1, <2>2, <2>3 DEF Reached
<1>5. ASSUME m = n + 1 PROVE before(m + 1) = [Reached(m) EXCEPT !.state = "Failed"]
  <2>1. LastPassed(T, m) = Entry(m)
    <3>1. PassedUpTo(T, n, m)
      BY <1>1, <1>2, <1>5 DEF PassedUpTo
    <3> HIDE DEF T
    <3> QED  BY <1>1, <1>5, <3>1, LastOfPassed
  <2>2. {T[j].stage : j \in {i \in 1..m : T[i].ok}} = 1..(m - 1)
    <3>1. /\ \A i \in 1..(m - 1) : T[i].ok = TRUE /\ T[i].stage = i
          /\ T[m].ok = FALSE /\ m \in Nat
      BY <1>1, <1>2, <1>5
    <3>2. {i \in 1..m : T[i].ok} = 1..(m - 1)
      <4> HIDE DEF T
      <4> QED  BY <3>1
    <3> HIDE DEF T
    <3> QED  BY <3>1, <3>2
  <2>3. T[m].to = "Failed" /\ m + 1 # 1 /\ (m + 1) - 1 = m
    BY <1>1, <1>5
  <2>4. before(m + 1) = [state |-> "Failed", last |-> Entry(m), artifacts |-> 1..(m - 1)]
    BY <2>1, <2>2, <2>3
  <2>5. [Reached(m) EXCEPT !.state = "Failed"]
          = [state |-> "Failed", last |-> Entry(m), artifacts |-> 1..(m - 1)]
    BY DEF Reached
  <2> HIDE DEF before
  <2> QED  BY <2>4, <2>5
<1> HIDE DEF before
<1>6. Snapshot(rec) = before(m + 1)
  BY <1>1, <1>4, <1>5
<1>7. ASSUME NEW k \in 1..m
      PROVE  /\ T[k].stage = k
             /\ T[k].from = before(k).state
             /\ T[k].input = before(k)
             /\ T[k].ok => T[k].to = Exit(k) /\ k \in rec.artifacts
             /\ ~T[k].ok => /\ T[k].to = "Failed"
                            /\ k = m
                            /\ k \notin rec.artifacts
                            /\ T[k].last = before(k).last
  <2>1. k \in 1..(n + 1) /\ before(k) = Reached(k)
    BY <1>1, <1>4
  <2>2. CASE k \in 1..n
    BY <1>2, <1>3, <2>1, <2>2 DEF Reached
  <2>3. CASE k = n + 1
    BY <1>1, <1>3, <1>7, <2>1, <2>3 DEF Reached
  <2> QED  BY <1>1, <2>1, <2>2, <2>3
<1> QED  BY <1>1, <1>6, <1>7 DEF Verify, before

LEMMA ThroughVerifies ==
  ASSUME NEW r, NEW n \in 0..StageCount
  PROVE  Verify(Through(r, n))
<1> DEFINE rec == Through(r, n)
<1>1. StageCount = 9
  BY DEF StageCount, States
<1>2. /\ Len(rec.transitions) = n
      /\ \A k \in 1..n : rec.transitions[k] = PassedStage(k)
  BY <1>1 DEF Through
<1>3. Snapshot(rec) = Reached(n + 1)
  BY <1>1, (n + 1) - 1 = n DEF Snapshot, Through, Reached
<1> HIDE DEF rec
<1>4. n # n + 1
  BY <1>1
<1>5. n \in {n, n + 1} /\ n <= StageCount
  BY <1>1
<1>6. Verify(rec)
  BY <1>2, <1>3, <1>4, <1>5, ChainVerifies
<1> QED  BY <1>6 DEF rec

LEMMA FailedVerifies ==
  ASSUME NEW r, NEW k \in 1..StageCount, NEW why
  PROVE  Verify(FailedAt(r, k, why))
<1> DEFINE n == k - 1
           before == Through(r, n)
           rec == FailedAt(r, k, why)
<1>1. StageCount = 9 /\ n \in 0..8 /\ k = n + 1 /\ n # k
  BY DEF StageCount, States
<1>2. /\ before.state = Entry(k) /\ before.last = Entry(k) /\ before.artifacts = 1..n
      /\ Snapshot(before) = Reached(k)
      /\ before.transitions = [j \in 1..n |-> PassedStage(j)]
  BY <1>1 DEF Through, Snapshot, Reached
<1> HIDE DEF before
<1> DEFINE final == [stage |-> k, from |-> before.state, to |-> "Failed", ok |-> FALSE,
                     input |-> Snapshot(before), last |-> before.last, reason |-> why]
<1>3. /\ rec.state = "Failed" /\ rec.last = Entry(k) /\ rec.artifacts = 1..n
      /\ rec.transitions = Append(before.transitions, final)
  BY <1>2 DEF FailedAt, Failed, before
<1>4. /\ final.stage = k /\ final.from = Entry(k) /\ final.to = "Failed"
      /\ final.ok = FALSE /\ final.input = Reached(k) /\ final.last = Entry(k)
  BY <1>2
<1> HIDE DEF rec, final
<1>5. /\ Len(rec.transitions) = k /\ rec.transitions[k] = final
      /\ \A j \in 1..n : rec.transitions[j] = PassedStage(j)
  BY <1>1, <1>2, <1>3
<1>6. Snapshot(rec) = [Reached(k) EXCEPT !.state = "Failed"]
  BY <1>3 DEF Snapshot, Reached
<1>7. rec.transitions[k].stage = k /\ rec.transitions[k].from = Entry(k)
      /\ rec.transitions[k].to = "Failed" /\ rec.transitions[k].ok = FALSE
      /\ rec.transitions[k].input = Reached(k) /\ rec.transitions[k].last = Entry(k)
  BY <1>4, <1>5
<1>8. n \in 0..StageCount /\ k \in {n, n + 1} /\ k <= StageCount
  BY <1>1
<1> HIDE DEF n
<1>9. Verify(rec)
  BY <1>1, <1>5, <1>6, <1>7, <1>8, ChainVerifies
<1> QED  BY <1>9 DEF rec

-----------------------------------------------------------------------------
(* Every record, in progress or stored, is of one of these forms.          *)

HalfDone == {"publish", "hash"}

Formed(rec, next) ==
  \/ next \in 1..(StageCount + 1) /\ rec = Through(rec.request, next - 1)
  \/ /\ next = StageCount + 1
     /\ \E k \in 1..StageCount :
          \/ \E why : why \notin HalfDone /\ rec = FailedAt(rec.request, k, why)
          \/ rec = FailedHalfway(rec.request, k)
          \/ rec = FailedAfter(rec.request, k)

Quiet(rec) == \A k \in DOMAIN rec.transitions : rec.transitions[k].reason \notin HalfDone

PassedStages(n) == [j \in 1..n |-> PassedStage(j)]

\* Stage k failed for that reason after m stages had passed.
FailureFound(T, m, k, why) ==
  /\ Len(T) = m + 1 /\ DOMAIN T = 1..(m + 1)
  /\ \A j \in 1..m : T[j].reason = ""
  /\ T[m + 1].stage = k /\ T[m + 1].ok = FALSE /\ T[m + 1].reason = why

\* What a failure appends to a record.
LEMMA FailureAppended ==
  ASSUME NEW rec, NEW k, NEW input, NEW why, NEW m \in Nat, NEW T,
         rec.transitions = PassedStages(m),
         T = Failed(rec, k, input, why).transitions
  PROVE  FailureFound(T, m, k, why)
<1> PICK final : final = [stage |-> k, from |-> rec.state, to |-> "Failed", ok |-> FALSE,
                          input |-> input, last |-> rec.last, reason |-> why]
  OBVIOUS
<1>1. T = Append([j \in 1..m |-> PassedStage(j)], final)
  BY DEF Failed, PassedStages
<1>2. final.stage = k /\ final.ok = FALSE /\ final.reason = why
  OBVIOUS
<1>3. /\ Len(T) = m + 1 /\ DOMAIN T = 1..(m + 1) /\ T[m + 1] = final
      /\ \A j \in 1..m : T[j] = PassedStage(j)
  BY <1>1
<1>4. \A j : PassedStage(j).reason = ""
  BY DEF PassedStage
<1> QED  BY <1>2, <1>3, <1>4 DEF FailureFound

\* What was left half done is not quiet and does not verify.
LEMMA FailedAfterIsFound ==
  ASSUME NEW r, NEW k \in 1..StageCount
  PROVE  ~Quiet(FailedAfter(r, k)) /\ ~Verify(FailedAfter(r, k))
<1> PICK T, rec, input :
      /\ T = FailedAfter(r, k).transitions
      /\ rec = Through(r, k) /\ input = Snapshot(Through(r, k - 1))
  OBVIOUS
<1>1. k \in Nat
  BY DEF StageCount, States
<1>2. rec.transitions = PassedStages(k)
  BY DEF Through, PassedStages
<1>3. T = Failed(rec, k, input, "publish").transitions
  BY DEF FailedAfter
<1>4. /\ Len(T) = k + 1 /\ DOMAIN T = 1..(k + 1)
      /\ T[k + 1].stage = k /\ T[k + 1].reason = "publish"
  <2>1. FailureFound(T, k, k, "publish")
    BY <1>1, <1>2, <1>3, FailureAppended
  <2> QED  BY <2>1 DEF FailureFound
<1>5. k + 1 \in 1..(k + 1) /\ k # k + 1
  BY <1>1
<1> QED  BY <1>4, <1>5 DEF Quiet, Verify, HalfDone

LEMMA FailedHalfwayIsFound ==
  ASSUME NEW r, NEW k \in 1..StageCount
  PROVE  ~Quiet(FailedHalfway(r, k)) /\ ~Verify(FailedHalfway(r, k))
<1> PICK n, rec, input, T, done :
      /\ n = k - 1 /\ rec = Filed(Through(r, n), k) /\ input = Snapshot(Through(r, n))
      /\ done = FailedHalfway(r, k) /\ T = done.transitions
  OBVIOUS
<1>1. n \in Nat /\ n + 1 = k /\ k \in 1..k
  BY DEF StageCount, States
<1>2. rec.transitions = PassedStages(n) /\ k \in rec.artifacts
  BY DEF Filed, Through, PassedStages
<1>3. done = Failed(rec, k, input, "hash")
  BY DEF FailedHalfway
<1>4. /\ Len(T) = k /\ DOMAIN T = 1..k
      /\ T[k].ok = FALSE /\ T[k].reason = "hash"
  <2>1. FailureFound(T, n, k, "hash")
    BY <1>1, <1>2, <1>3, FailureAppended
  <2> QED  BY <1>1, <2>1 DEF FailureFound
<1>5. k \in done.artifacts
  BY <1>2, <1>3 DEF Failed
<1>6. ~Quiet(done)
  BY <1>1, <1>4 DEF Quiet, HalfDone
<1>7. Verify(done) => \A j \in 1..Len(T) : ~T[j].ok => j \notin done.artifacts
  BY DEF Verify
<1> QED  BY <1>1, <1>4, <1>5, <1>6, <1>7

LEMMA ThroughIsQuiet ==
  ASSUME NEW r, NEW n \in 0..StageCount
  PROVE  Quiet(Through(r, n))
<1> PICK T : T = Through(r, n).transitions
  OBVIOUS
<1>1. DOMAIN T = 1..n /\ \A j \in 1..n : T[j] = PassedStage(j)
  BY DEF Through
<1>2. \A j : PassedStage(j).reason = ""
  BY DEF PassedStage
<1>3. \A j \in DOMAIN T : T[j].reason \notin HalfDone
  BY <1>1, <1>2 DEF HalfDone
<1> QED  BY <1>3 DEF Quiet

LEMMA FailedIsQuiet ==
  ASSUME NEW r, NEW k \in 1..StageCount, NEW why, why \notin HalfDone
  PROVE  Quiet(FailedAt(r, k, why))
<1> PICK n, rec, input, T :
      /\ n = k - 1 /\ rec = Through(r, n) /\ input = Snapshot(rec)
      /\ T = FailedAt(r, k, why).transitions
  OBVIOUS
<1>1. n \in Nat /\ n + 1 = k
  BY DEF StageCount, States
<1>2. rec.transitions = PassedStages(n)
  BY DEF Through, PassedStages
<1>3. T = Failed(rec, k, input, why).transitions
  BY DEF FailedAt
<1>4. /\ DOMAIN T = 1..k
      /\ \A j \in 1..n : T[j].reason = ""
      /\ T[k].reason = why
  <2>1. FailureFound(T, n, k, why)
    BY <1>1, <1>2, <1>3, FailureAppended
  <2> QED  BY <1>1, <2>1 DEF FailureFound
<1>5. \A j \in 1..k : j \in 1..n \/ j = k
  BY <1>1
<1>6. \A j \in DOMAIN T : T[j].reason \notin HalfDone
  BY <1>4, <1>5 DEF HalfDone
<1> QED  BY <1>6 DEF Quiet

LEMMA FormedVerifies ==
  ASSUME NEW rec, Formed(rec, StageCount + 1)
  PROVE  Verify(rec) <=> Quiet(rec)
<1>1. StageCount = 9 /\ (StageCount + 1) - 1 = StageCount /\ StageCount \in 0..StageCount
  BY DEF StageCount, States
<1>2. CASE rec = Through(rec.request, StageCount)
  BY <1>1, <1>2, ThroughVerifies, ThroughIsQuiet
<1>3. ASSUME NEW k \in 1..StageCount, NEW why, why \notin HalfDone,
             rec = FailedAt(rec.request, k, why)
      PROVE  Verify(rec) <=> Quiet(rec)
  BY <1>3, FailedVerifies, FailedIsQuiet
<1>4. ASSUME NEW k \in 1..StageCount, rec = FailedAfter(rec.request, k)
      PROVE  Verify(rec) <=> Quiet(rec)
  BY <1>4, FailedAfterIsFound
<1>5. ASSUME NEW k \in 1..StageCount, rec = FailedHalfway(rec.request, k)
      PROVE  Verify(rec) <=> Quiet(rec)
  BY <1>5, FailedHalfwayIsFound
<1> QED  BY <1>1, <1>2, <1>3, <1>4, <1>5 DEF Formed

\* What a record has of Security Core.
BackedBy(rec, held) ==
  \A k \in {3, 6} \cap rec.artifacts : Assignment(rec.request, k) \in held

CallFormed(x) ==
  /\ x.kind \in {"execute", "replay"}
  /\ x = [kind |-> x.kind, record |-> x.record, next |-> x.next]
  /\ Formed(x.record, x.next)

RecordInv ==
  /\ call = [c \in Callers |-> call[c]]
  /\ \A c \in Callers :
       call[c] = Idle \/ (CallFormed(call[c]) /\ BackedBy(call[c].record, assigned))
  /\ \A id \in DOMAIN records :
       Formed(records[id], StageCount + 1) /\ BackedBy(records[id], assigned)

LEMMA ThroughFields ==
  ASSUME NEW r, NEW n
  PROVE  /\ Through(r, n).request = r /\ Through(r, n).artifacts = 1..n
         /\ Through(r, n).state = Entry(n + 1) /\ Through(r, n).last = Entry(n + 1)
         /\ Through(r, n).transitions = [k \in 1..n |-> PassedStage(k)]
BY DEF Through

LEMMA ThroughNames ==
  ASSUME NEW r, NEW n
  PROVE  Through(r, n).request = r
BY DEF Through

LEMMA FailedFields ==
  ASSUME NEW rec, NEW k, NEW input, NEW why
  PROVE  /\ Failed(rec, k, input, why).request = rec.request
         /\ Failed(rec, k, input, why).artifacts = rec.artifacts
         /\ Failed(rec, k, input, why).state = "Failed"
BY DEF Failed

LEMMA InStageForm ==
  ASSUME NEW c \in Callers, RecordInv, InStage(c)
  PROVE  /\ CallFormed(call[c]) /\ BackedBy(call[c].record, assigned)
         /\ call[c].next \in 1..StageCount
         /\ call[c].record = Through(call[c].record.request, call[c].next - 1)
         /\ call[c] # Idle
<1>1. call[c] # Idle
  BY DEF InStage, Idle
<1>2. CallFormed(call[c]) /\ BackedBy(call[c].record, assigned)
  BY <1>1 DEF RecordInv
<1>3. StageCount = 9
  BY DEF StageCount, States
<1>4. Formed(call[c].record, call[c].next) /\ call[c].next <= StageCount
  BY <1>2 DEF CallFormed, InStage
<1>5. call[c].next # StageCount + 1
  <2>1. SUFFICES ASSUME call[c].next = 10 PROVE FALSE
    BY <1>3
  <2> QED  BY <1>3, <1>4, <2>1
<1> QED  BY <1>1, <1>2, <1>3, <1>4, <1>5 DEF Formed

\* What the pipeline makes of the record of a call in stage k.
LEMMA StageForms ==
  ASSUME NEW rec, NEW k \in 1..StageCount, rec = Through(rec.request, k - 1)
  PROVE  /\ Done(rec, k) = Through(rec.request, k)
         /\ Formed(Through(rec.request, k), k + 1)
         /\ \A why : why \notin HalfDone =>
              /\ Failed(rec, k, Snapshot(rec), why) = FailedAt(rec.request, k, why)
              /\ Formed(FailedAt(rec.request, k, why), StageCount + 1)
         /\ Failed(Filed(rec, k), k, Snapshot(rec), "hash") = FailedHalfway(rec.request, k)
         /\ Formed(FailedHalfway(rec.request, k), StageCount + 1)
         /\ Failed(Through(rec.request, k), k, Snapshot(rec), "publish")
              = FailedAfter(rec.request, k)
         /\ Formed(FailedAfter(rec.request, k), StageCount + 1)
<1> DEFINE r == rec.request
<1>1. StageCount = 9 /\ k - 1 \in 0..(StageCount - 1) /\ (k - 1) + 1 = k
  BY DEF StageCount, States
<1>2. Done(rec, k) = Through(r, k)
  BY <1>1, ThroughGoesOn
<1>3. Formed(Through(r, k), k + 1)
  <2> HIDE DEF r
  <2>1. Through(r, k).request = r
    BY ThroughFields
  <2>2. (k + 1) - 1 = k /\ k + 1 \in 1..(StageCount + 1)
    BY <1>1
  <2> QED  BY <2>1, <2>2 DEF Formed
<1>4. ASSUME NEW why, why \notin HalfDone
      PROVE  /\ Failed(rec, k, Snapshot(rec), why) = FailedAt(r, k, why)
             /\ Formed(FailedAt(r, k, why), StageCount + 1)
  <2>1. Failed(rec, k, Snapshot(rec), why) = FailedAt(r, k, why)
    BY DEF FailedAt
  <2>2. FailedAt(r, k, why).request = r
    BY ThroughFields, FailedFields DEF FailedAt
  <2> HIDE DEF r
  <2> QED  BY <1>4, <2>1, <2>2 DEF Formed
<1>5. Failed(Through(r, k), k, Snapshot(rec), "publish") = FailedAfter(r, k)
  BY DEF FailedAfter
<1>6. Formed(FailedAfter(r, k), StageCount + 1)
  <2> HIDE DEF r
  <2>1. Through(r, k).request = r
    BY ThroughFields
  <2>2. FailedAfter(r, k).request = r
    BY <2>1, FailedFields DEF FailedAfter
  <2> QED  BY <2>2 DEF Formed
<1>7. Failed(Filed(rec, k), k, Snapshot(rec), "hash") = FailedHalfway(r, k)
  BY DEF FailedHalfway
<1>8. Formed(FailedHalfway(r, k), StageCount + 1)
  <2> HIDE DEF r
  <2>1. Filed(Through(r, k - 1), k).request = r
    BY DEF Filed, Through
  <2>2. FailedHalfway(r, k).request = r
    BY <2>1, FailedFields DEF FailedHalfway
  <2> QED  BY <2>2 DEF Formed
<1> QED  BY <1>2, <1>3, <1>4, <1>5, <1>6, <1>7, <1>8

\* No stage refuses for the reasons of what is left half done.
LEMMA RefusalReasons ==
  ASSUME NEW rec, NEW k, NEW enforced
  PROVE  Refusal(rec, k, enforced) \notin HalfDone
BY DEF Refusal, HalfDone

LEMMA RecordStarts ==
  ASSUME Init
  PROVE  RecordInv
<1>1. call = [c \in Callers |-> Idle] /\ records = << >>
  BY DEF Init, OnboardingInit
<1>2. DOMAIN records = {}
  BY <1>1
<1>3. call = [c \in Callers |-> call[c]] /\ \A c \in Callers : call[c] = Idle
  BY <1>1
<1> QED  BY <1>2, <1>3 DEF RecordInv

\* A call goes on with a record that Security Core backs.
LEMMA CallGoesOn ==
  ASSUME RecordInv, NEW c \in Callers, NEW x, call' = [call EXCEPT ![c] = x],
         assigned \subseteq assigned', records' = records,
         x = Idle \/ (CallFormed(x) /\ BackedBy(x.record, assigned'))
  PROVE  RecordInv'
<1>1. call' = [d \in Callers |-> call'[d]]
  BY DEF RecordInv
<1>2. ASSUME NEW rec, BackedBy(rec, assigned) PROVE BackedBy(rec, assigned')
  BY <1>2 DEF BackedBy
<1>3. ASSUME NEW d \in Callers
      PROVE  call'[d] = Idle
               \/ (CallFormed(call'[d]) /\ BackedBy(call'[d].record, assigned'))
  <2>1. CASE d = c
    BY <2>1 DEF RecordInv
  <2>2. CASE d # c
    <3>1. call'[d] = call[d]
      BY <2>2 DEF RecordInv
    <3> QED  BY <1>2, <3>1 DEF RecordInv
  <2> QED  BY <2>1, <2>2
<1>4. ASSUME NEW id \in DOMAIN records
      PROVE  Formed(records[id], StageCount + 1) /\ BackedBy(records[id], assigned')
  BY <1>2 DEF RecordInv
<1> QED  BY <1>1, <1>3, <1>4 DEF RecordInv

LEMMA StagePassesKeepsRecordInv ==
  ASSUME RecordInv, NEW c \in Callers, StagePasses(c)
  PROVE  RecordInv'
<1> DEFINE rec == call[c].record
           k == call[c].next
           r == rec.request
           x == InCall(c, Through(r, k), k + 1)
<1>1. InStage(c) /\ records' = records
  BY DEF StagePasses, Unaffected
<1>2. /\ CallFormed(call[c]) /\ BackedBy(rec, assigned) /\ k \in 1..StageCount
      /\ rec = Through(r, k - 1)
  BY <1>1, InStageForm
<1>3. Done(rec, k) = Through(r, k) /\ Formed(Through(r, k), k + 1)
  BY <1>2, StageForms
<1>4. /\ assigned \subseteq assigned'
      /\ k \in {3, 6} => Assignment(r, k) \in assigned'
  BY DEF StagePasses, Ask, AsksSecurity
<1>5. call' = [call EXCEPT ![c] = x]
  BY <1>3 DEF StagePasses
<1>6. /\ rec.artifacts = 1..(k - 1)
      /\ Through(r, k).request = r /\ Through(r, k).artifacts = 1..k
  <2> HIDE DEF k, r, rec
  <2>1. Through(r, k - 1).artifacts = 1..(k - 1)
    BY ThroughFields
  <2>2. Through(r, k).request = r /\ Through(r, k).artifacts = 1..k
    BY ThroughFields
  <2> QED  BY <1>2, <2>1, <2>2
<1>7. BackedBy(Through(r, k), assigned')
  <2> HIDE DEF k, r, rec
  <2> SUFFICES ASSUME NEW j \in {3, 6}, j \in 1..k
               PROVE  Assignment(r, j) \in assigned'
    BY <1>6 DEF BackedBy
  <2>1. j = k \/ j \in 1..(k - 1)
    BY <1>2 DEF StageCount, States
  <2>2. j \in 1..(k - 1) => Assignment(r, j) \in assigned
    BY <1>2, <1>6 DEF BackedBy, r
  <2> QED  BY <1>4, <2>1, <2>2
<1>8. CallFormed(x) /\ BackedBy(x.record, assigned')
  <2>1. x.kind = call[c].kind /\ x.record = Through(r, k) /\ x.next = k + 1
        /\ x = [kind |-> call[c].kind, record |-> Through(r, k), next |-> k + 1]
    BY DEF InCall
  <2> HIDE DEF x, r, k
  <2> QED  BY <1>2, <1>3, <1>7, <2>1 DEF CallFormed
<1> HIDE DEF x
<1> QED  BY <1>1, <1>4, <1>5, <1>8, CallGoesOn

\* A failed record goes on to the end of its run, or its call ends in the air.
LEMMA FailStageKeepsRecordInv ==
  ASSUME RecordInv, NEW c \in Callers, InStage(c), NEW rec, NEW k, NEW input, NEW why,
         NEW published, FailStage(c, rec, k, input, why, published),
         assigned \subseteq assigned', records' = records,
         Formed(Failed(rec, k, input, why), StageCount + 1),
         BackedBy(rec, assigned')
  PROVE  RecordInv'
<1> DEFINE failed == Failed(rec, k, input, why)
           x == InCall(c, failed, StageCount + 1)
<1>1. call[c].kind \in {"execute", "replay"}
  BY InStageForm DEF CallFormed
<1>2. BackedBy(failed, assigned')
  BY FailedFields DEF BackedBy
<1>3. CallFormed(x) /\ BackedBy(x.record, assigned')
  <2>1. x.kind = call[c].kind /\ x.record = failed /\ x.next = StageCount + 1
        /\ x = [kind |-> call[c].kind, record |-> failed, next |-> StageCount + 1]
    BY DEF InCall
  <2> HIDE DEF x, failed
  <2>2. Formed(failed, StageCount + 1)
    BY DEF failed
  <2> QED  BY <1>1, <1>2, <2>1, <2>2 DEF CallFormed
<1>4. call' = [call EXCEPT ![c] = x] \/ call' = [call EXCEPT ![c] = Idle]
  BY DEF FailStage
<1> HIDE DEF x
<1>5. PICK y : y = Idle
  OBVIOUS
<1>6. CASE call' = [call EXCEPT ![c] = x]
  BY <1>3, <1>6, CallGoesOn
<1>7. CASE call' = [call EXCEPT ![c] = y]
  BY <1>5, <1>7, CallGoesOn
<1> QED  BY <1>4, <1>5, <1>6, <1>7

LEMMA StageRefusedKeepsRecordInv ==
  ASSUME RecordInv, NEW c \in Callers, StageRefused(c)
  PROVE  RecordInv'
<1> DEFINE rec == call[c].record
           k == call[c].next
<1>1. InStage(c) /\ records' = records /\ assigned' = assigned
  BY DEF StageRefused, Unaffected
<1>2. BackedBy(rec, assigned) /\ k \in 1..StageCount /\ rec = Through(rec.request, k - 1)
  BY <1>1, InStageForm
<1>3. PICK why : why \notin HalfDone /\ FailStage(c, rec, k, Snapshot(rec), why, << >>)
  BY RefusalReasons DEF StageRefused
<1> HIDE DEF rec, k
<1>4. Formed(Failed(rec, k, Snapshot(rec), why), StageCount + 1)
  BY <1>2, <1>3, StageForms
<1> QED  BY <1>1, <1>2, <1>3, <1>4, FailStageKeepsRecordInv

LEMMA AskOnlyAdds ==
  ASSUME NEW c, NEW k, NEW answers, Ask(c, k, answers)
  PROVE  assigned \subseteq assigned'
BY DEF Ask

LEMMA AssignmentFailsKeepsRecordInv ==
  ASSUME RecordInv, NEW c \in Callers, AssignmentFails(c)
  PROVE  RecordInv'
<1> DEFINE rec == call[c].record
           k == call[c].next
<1>1. InStage(c) /\ records' = records /\ Ask(c, k, SecurityAnswers \cap {"bad_receipt", "lost_answer"})
  BY DEF AssignmentFails, Unaffected
<1>2. BackedBy(rec, assigned) /\ k \in 1..StageCount /\ rec = Through(rec.request, k - 1)
  BY <1>1, InStageForm
<1>3. FailStage(c, rec, k, Snapshot(rec), "receipt", << >>)
  BY DEF AssignmentFails
<1> HIDE DEF rec, k
<1>4. Formed(Failed(rec, k, Snapshot(rec), "receipt"), StageCount + 1)
  <2>1. "receipt" \notin HalfDone
    BY DEF HalfDone
  <2> QED  BY <1>2, <2>1, StageForms
<1>5. assigned \subseteq assigned' /\ BackedBy(rec, assigned')
  BY <1>1, <1>2, AskOnlyAdds DEF BackedBy
<1> QED  BY <1>1, <1>3, <1>4, <1>5, FailStageKeepsRecordInv

LEMMA TransitionRaisesKeepsRecordInv ==
  ASSUME RecordInv, NEW c \in Callers, TransitionRaises(c)
  PROVE  RecordInv'
<1> DEFINE rec == call[c].record
           k == call[c].next
           r == rec.request
<1>1. InStage(c) /\ records' = records
      /\ Ask(c, k, SecurityAnswers \cap {"unhashable"})
  BY DEF TransitionRaises, Unaffected
<1>2. BackedBy(rec, assigned) /\ k \in 1..StageCount /\ rec = Through(r, k - 1)
  BY <1>1, InStageForm
<1>3. FailStage(c, Filed(rec, k), k, Snapshot(rec), "hash", << >>)
  BY DEF TransitionRaises
<1>4. /\ assigned \subseteq assigned'
      /\ k \in {3, 6} => Assignment(r, k) \in assigned'
  BY <1>1 DEF Ask, AsksSecurity
<1>5. Filed(rec, k).request = r /\ Filed(rec, k).artifacts = rec.artifacts \cup {k}
  BY DEF Filed
<1>6. BackedBy(Filed(rec, k), assigned')
  <2> HIDE DEF k, r, rec
  <2> SUFFICES ASSUME NEW j \in {3, 6}, j \in rec.artifacts \cup {k}
               PROVE  Assignment(r, j) \in assigned'
    BY <1>5 DEF BackedBy
  <2>1. j \in rec.artifacts => Assignment(r, j) \in assigned
    BY <1>2 DEF BackedBy, r
  <2> QED  BY <1>4, <2>1
<1>7. Formed(Failed(Filed(rec, k), k, Snapshot(rec), "hash"), StageCount + 1)
  BY <1>2, StageForms
<1> HIDE DEF rec, k, r
<1> QED  BY <1>1, <1>3, <1>4, <1>6, <1>7, FailStageKeepsRecordInv

LEMMA SubscriberRaisesKeepsRecordInv ==
  ASSUME RecordInv, NEW c \in Callers, SubscriberRaises(c)
  PROVE  RecordInv'
<1> DEFINE rec == call[c].record
           k == call[c].next
           r == rec.request
<1>1. InStage(c) /\ records' = records
      /\ Ask(c, k, SecurityAnswers \cap {"receipt"})
  BY DEF SubscriberRaises, Unaffected
<1>2. BackedBy(rec, assigned) /\ k \in 1..StageCount /\ rec = Through(r, k - 1)
  BY <1>1, InStageForm
<1>3. PICK published :
        FailStage(c, Done(rec, k), k, Snapshot(rec), "publish", published)
  BY DEF SubscriberRaises
<1>4. /\ assigned \subseteq assigned'
      /\ k \in {3, 6} => Assignment(r, k) \in assigned'
  BY <1>1 DEF Ask, AsksSecurity
<1>5. /\ rec.artifacts = 1..(k - 1)
      /\ Through(r, k).request = r /\ Through(r, k).artifacts = 1..k
  <2> HIDE DEF k, r, rec
  <2>1. Through(r, k - 1).artifacts = 1..(k - 1)
    BY ThroughFields
  <2>2. Through(r, k).request = r /\ Through(r, k).artifacts = 1..k
    BY ThroughFields
  <2> QED  BY <1>2, <2>1, <2>2
<1>6. BackedBy(Through(r, k), assigned')
  <2> HIDE DEF k, r, rec
  <2> SUFFICES ASSUME NEW j \in {3, 6}, j \in 1..k
               PROVE  Assignment(r, j) \in assigned'
    BY <1>5 DEF BackedBy
  <2>1. j = k \/ j \in 1..(k - 1)
    BY <1>2 DEF StageCount, States
  <2>2. j \in 1..(k - 1) => Assignment(r, j) \in assigned
    BY <1>2, <1>5 DEF BackedBy, r
  <2> QED  BY <1>4, <2>1, <2>2
<1>7. /\ Done(rec, k) = Through(r, k)
      /\ Formed(Failed(Through(r, k), k, Snapshot(rec), "publish"), StageCount + 1)
  BY <1>2, StageForms
<1> HIDE DEF rec, k, r
<1> QED  BY <1>1, <1>3, <1>4, <1>6, <1>7, FailStageKeepsRecordInv

LEMMA EndExecuteKeepsRecordInv ==
  ASSUME RecordInv, NEW c \in Callers, EndExecute(c)
  PROVE  RecordInv'
<1> DEFINE rec == call[c].record
<1>1. /\ call[c].kind = "execute" /\ call[c].next > StageCount /\ Store(c)
      /\ call' = [call EXCEPT ![c] = Idle] /\ assigned' = assigned
  BY DEF EndExecute
<1>2. CallFormed(call[c]) /\ BackedBy(rec, assigned)
  BY <1>1 DEF RecordInv, Idle
<1>3. Formed(rec, StageCount + 1)
  <2>1. StageCount = 9 /\ Formed(rec, call[c].next)
    BY <1>2 DEF CallFormed, StageCount, States
  <2>2. call[c].next = StageCount + 1
    BY <1>1, <2>1 DEF Formed
  <2> QED  BY <2>1, <2>2
<1>4. ASSUME NEW id \in DOMAIN records'
      PROVE  Formed(records'[id], StageCount + 1) /\ BackedBy(records'[id], assigned)
  <2>1. records'[id] = rec \/ (id \in DOMAIN records /\ records'[id] = records[id])
    <3>1. CASE rec.request.id \in DOMAIN records
      BY <1>1, <3>1 DEF Store
    <3>2. CASE rec.request.id \notin DOMAIN records
      <4> DEFINE key == rec.request.id
      <4>1. records' = [i \in DOMAIN records \cup {key} |->
                          IF i = key THEN rec ELSE records[i]]
        BY <1>1, <3>2 DEF Store
      <4> HIDE DEF key, rec
      <4> QED  BY <4>1
    <3> QED  BY <3>1, <3>2
  <2> HIDE DEF rec
  <2> QED  BY <1>2, <1>3, <2>1 DEF RecordInv
<1>5. /\ call' = [d \in Callers |-> call'[d]]
      /\ \A d \in Callers : call'[d] = Idle \/ call'[d] = call[d]
  BY <1>1 DEF RecordInv
<1>6. ASSUME NEW d \in Callers
      PROVE  call'[d] = Idle
               \/ (CallFormed(call'[d]) /\ BackedBy(call'[d].record, assigned))
  <2>1. call'[d] = Idle \/ call'[d] = call[d]
    BY <1>5
  <2> QED  BY <2>1 DEF RecordInv
<1> QED  BY <1>1, <1>4, <1>5, <1>6 DEF RecordInv

LEMMA BeginKeepsRecordInv ==
  ASSUME RecordInv, NEW c \in Callers, NEW kind \in {"execute", "replay"}, NEW r,
         Begin(c, kind, r)
  PROVE  RecordInv'
<1> DEFINE x == [kind |-> kind, record |-> Through(r, 0), next |-> 1]
<1>1. call' = [call EXCEPT ![c] = x] /\ assigned' = assigned /\ records' = records
  BY ThroughBegins DEF Begin
<1>2. Through(r, 0).request = r /\ Through(r, 0).artifacts = 1..0
  BY ThroughFields
<1>3. Formed(Through(r, 0), 1)
  BY <1>2, 1 - 1 = 0 DEF Formed, StageCount, States
<1>4. BackedBy(Through(r, 0), assigned)
  BY <1>2, 1..0 = {} DEF BackedBy
<1>5. CallFormed(x) /\ BackedBy(x.record, assigned')
  <2>1. x.kind = kind /\ x.record = Through(r, 0) /\ x.next = 1
        /\ x = [kind |-> kind, record |-> Through(r, 0), next |-> 1]
    OBVIOUS
  <2> HIDE DEF x
  <2> QED  BY <1>1, <1>3, <1>4, <2>1 DEF CallFormed
<1> HIDE DEF x
<1> QED  BY <1>1, <1>5, CallGoesOn

LEMMA RecordInvKept ==
  ASSUME RecordInv, [Next]_vars
  PROVE  RecordInv'
<1>1. CASE UNCHANGED <<assigned, records, call>>
  BY <1>1 DEF RecordInv
<1>2. CASE PlatformSteps
  BY <1>1, <1>2 DEF PlatformSteps
<1>3. CASE SecurityCoreChanges
  BY <1>1, <1>3 DEF SecurityCoreChanges
<1>4. CASE StartEngine
  BY <1>1, <1>4 DEF StartEngine
<1>5. ASSUME NEW c \in Callers, NEW r \in Requests, BeginExecute(c, r) PROVE RecordInv'
  BY <1>5, BeginKeepsRecordInv DEF BeginExecute
<1>6. ASSUME NEW c \in Callers, NEW id \in Ids, BeginReplay(c, id) PROVE RecordInv'
  <2>1. PICK r : r = records[id].request
    OBVIOUS
  <2> QED  BY <1>6, <2>1, BeginKeepsRecordInv DEF BeginReplay
<1>7. ASSUME NEW c \in Callers, EndReplay(c) PROVE RecordInv'
  <2>1. /\ call' = [call EXCEPT ![c] = Idle]
        /\ assigned' = assigned /\ records' = records
    BY <1>7 DEF EndReplay
  <2>2. PICK x : x = Idle
    OBVIOUS
  <2> QED  BY <2>1, <2>2, CallGoesOn
<1>8. CASE UNCHANGED vars
  BY <1>1, <1>8 DEF vars, onboardingVars
<1> QED
  BY <1>2, <1>3, <1>4, <1>5, <1>6, <1>7, <1>8, StagePassesKeepsRecordInv,
     StageRefusedKeepsRecordInv, AssignmentFailsKeepsRecordInv,
     TransitionRaisesKeepsRecordInv, SubscriberRaisesKeepsRecordInv, EndExecuteKeepsRecordInv DEF Next

LEMMA RecordInvHolds == Spec => []RecordInv
<1> QED  BY RecordStarts, RecordInvKept, PTL DEF Spec

\* QuietRecordsVerify, for any platform, requests, calls, answers of Security
\* Core, those that cannot be hashed among them, and raising subscribers.
THEOREM QuietRecordsAlwaysVerify == Spec => []QuietRecordsVerify
<1>1. RecordInv => QuietRecordsVerify
  BY FormedVerifies DEF RecordInv, QuietRecordsVerify, Quiet, HalfDone
<1> QED  BY <1>1, RecordInvHolds, PTL

\* OperationalIsBacked: the records of operational customers hold all stages'
\* artifacts, and those of stages 3 and 6 only with an assignment.
THEOREM OperationalIsAlwaysBacked == Spec => []OperationalIsBacked
<1>1. ASSUME RecordInv, NEW id \in DOMAIN records, records[id].state = "Operational",
             NEW k \in {3, 6}
      PROVE  Assignment(records[id].request, k) \in assigned
  <2> DEFINE rec == records[id]
             r == rec.request
  <2>1. Formed(rec, StageCount + 1) /\ BackedBy(rec, assigned)
    BY <1>1 DEF RecordInv
  <2>2. StageCount = 9
    BY DEF StageCount, States
  <2>3. ASSUME NEW j \in 1..StageCount, NEW why PROVE FailedAt(r, j, why).state = "Failed"
    BY FailedFields DEF FailedAt
  <2>4. ASSUME NEW j \in 1..StageCount
        PROVE  FailedAfter(r, j).state = "Failed" /\ FailedHalfway(r, j).state = "Failed"
    BY FailedFields DEF FailedAfter, FailedHalfway
  <2>5. rec.state = "Operational"
    BY <1>1
  <2> HIDE DEF rec
  <2>6. rec = Through(r, (StageCount + 1) - 1)
    BY <2>1, <2>3, <2>4, <2>5 DEF Formed
  <2>7. Through(r, 9).artifacts = 1..9
    BY DEF Through
  <2>8. rec.artifacts = 1..9
    BY <2>2, <2>6, <2>7
  <2>9. k \in {3, 6} \cap rec.artifacts
    BY <2>8
  <2> QED  BY <2>1, <2>9 DEF BackedBy, rec
<1>2. RecordInv => OperationalIsBacked
  BY <1>1 DEF OperationalIsBacked
<1> QED  BY <1>2, RecordInvHolds, PTL

-----------------------------------------------------------------------------
(* What the surroundings, as they are now, make of a request.              *)

Unrefused(r, n) == \A j \in 1..n : Refusal(Through(r, j - 1), j, FALSE) = ""

\* A record that the stages would produce if they all ran now.
Traced(rec, next) ==
  \E n \in 0..StageCount :
    /\ Unrefused(rec.request, n)
    /\ \/ next = n + 1 /\ rec = Through(rec.request, n)
       \/ /\ n < StageCount /\ next = StageCount + 1
          /\ Refusal(Through(rec.request, n), n + 1, FALSE) # ""
          /\ rec = FailedAt(rec.request, n + 1,
                            Refusal(Through(rec.request, n), n + 1, FALSE))

Undisturbed(rec) == rec.request.id \notin disturbed

\* The requests of records and calls are requests that were made; a replay is
\* one of what was recorded, and an execution past the first stage is not.
CallsAreApart ==
  /\ \A id \in DOMAIN records :
       records[id].request \in Requests /\ records[id].request.id = id
  /\ \A c \in Callers : call[c] # Idle =>
       LET r == call[c].record.request
       IN  /\ r \in Requests
           /\ call[c].kind = "replay" =>
                r.id \in DOMAIN records /\ r = records[r.id].request
           /\ call[c].kind = "execute" /\ call[c].next \in 2..StageCount =>
                r.id \notin DOMAIN records

TraceInv ==
  /\ \A id \in DOMAIN records :
       Undisturbed(records[id]) => Traced(records[id], StageCount + 1)
  /\ \A c \in Callers :
       /\ call[c] # Idle
       /\ Undisturbed(call[c].record)
       /\ call[c].kind = "replay" \/ call[c].record.request.id \notin DOMAIN records
       => Traced(call[c].record, call[c].next)

\* Uniqueness is checked in the first stage and the record stored after the
\* last: only one caller at a time keeps identifiers apart.
OneCaller == \A c, d \in Callers : c = d

SurroundingsStay ==
  UNCHANGED <<manifest, healthStates, bootPassed, status, securityUp>>

LEMMA RefusalStays ==
  ASSUME NEW rec, NEW k, SurroundingsStay
  PROVE  Refusal(rec, k, FALSE)' = Refusal(rec, k, FALSE)
BY DEF Refusal, SurroundingsStay

LEMMA TracedStays ==
  ASSUME NEW rec, NEW next, SurroundingsStay, Traced(rec, next)
  PROVE  Traced(rec, next)'
<1>1. \A x, k : Refusal(x, k, FALSE)' = Refusal(x, k, FALSE)
  BY RefusalStays
<1> QED  BY <1>1 DEF Traced, Unrefused

LEMMA RefusalOfFresh ==
  ASSUME NEW rec, NEW k, NEW enforced, enforced => ~Taken(rec.request.id)
  PROVE  Refusal(rec, k, enforced) = Refusal(rec, k, FALSE)
BY DEF Refusal

\* Two runs of one request in the same surroundings end in the same record.
LEMMA TracedIsUnique ==
  ASSUME NEW x, NEW y, x.request = y.request,
         Traced(x, StageCount + 1), Traced(y, StageCount + 1)
  PROVE  x = y
<1> DEFINE r == x.request
           why(n) == Refusal(Through(r, n), n + 1, FALSE)
           At(z, n) == /\ n = StageCount => z = Through(r, n)
                       /\ n # StageCount => why(n) # "" /\ z = FailedAt(r, n + 1, why(n))
<1>1. StageCount = 9
  BY DEF StageCount, States
<1>2. ASSUME NEW z, z.request = r, Traced(z, StageCount + 1)
      PROVE  \E n \in 0..StageCount : Unrefused(r, n) /\ At(z, n)
  <2>1. PICK n \in 0..StageCount :
          /\ Unrefused(r, n)
          /\ \/ StageCount + 1 = n + 1 /\ z = Through(r, n)
             \/ n < StageCount /\ why(n) # "" /\ z = FailedAt(r, n + 1, why(n))
    BY <1>2 DEF Traced
  <2>2. (StageCount + 1 = n + 1 <=> n = StageCount) /\ (n < StageCount => n # StageCount)
    BY <1>1
  <2> QED  BY <2>1, <2>2
<1>3. PICK n \in 0..StageCount : Unrefused(r, n) /\ At(x, n)
  BY <1>2
<1>4. PICK m \in 0..StageCount : Unrefused(r, m) /\ At(y, m)
  BY <1>2
<1>5. ASSUME NEW i \in 0..StageCount, NEW j \in 0..StageCount, i < j, Unrefused(r, j)
      PROVE  why(i) = ""
  <2>1. i + 1 \in 1..j /\ (i + 1) - 1 = i
    BY <1>1, <1>5
  <2> QED  BY <1>5, <2>1 DEF Unrefused
<1> HIDE DEF why, r
<1>6. /\ n < m => why(n) # ""
      /\ m < n => why(m) # ""
  <2>1. (n < m => n # StageCount) /\ (m < n => m # StageCount)
    BY <1>1
  <2> QED  BY <1>3, <1>4, <2>1
<1>7. (n = m /\ At(x, n) /\ At(y, n)) => x = y
  OBVIOUS
<1> HIDE DEF At
<1>8. ~(n < m) /\ ~(m < n)
  BY <1>3, <1>4, <1>5, <1>6
<1>9. n = m
  BY <1>1, <1>8
<1> QED  BY <1>3, <1>4, <1>7, <1>9

LEMMA TracedVerifies ==
  ASSUME NEW rec, Traced(rec, StageCount + 1)
  PROVE  Verify(rec)
<1>1. StageCount = 9
  BY DEF StageCount, States
<1>2. PICK n \in 0..StageCount :
        \/ StageCount + 1 = n + 1 /\ rec = Through(rec.request, n)
        \/ n < StageCount /\ \E why : rec = FailedAt(rec.request, n + 1, why)
  BY DEF Traced
<1>3. CASE rec = Through(rec.request, n)
  BY <1>3, ThroughVerifies
<1>4. ASSUME NEW why, n < StageCount, rec = FailedAt(rec.request, n + 1, why)
      PROVE  Verify(rec)
  <2>1. n + 1 \in 1..StageCount
    BY <1>1, <1>4
  <2> QED  BY <1>4, <2>1, FailedVerifies
<1> QED  BY <1>2, <1>3, <1>4

TracedCalls == RecordInv /\ CallsAreApart /\ TraceInv

\* Of a call: it may run what its record says in the surroundings as they are.
CallTraced(x, held) ==
  x.kind = "replay" \/ x.record.request.id \notin DOMAIN held
    => Traced(x.record, x.next)

\* A call goes on, or ends, with nothing stored.
LEMMA CallStepKeepsTrace ==
  ASSUME OneCaller, TracedCalls, NEW c \in Callers, NEW x,
         call' = [call EXCEPT ![c] = x], records' = records, SurroundingsStay,
         disturbed \subseteq disturbed',
         x # Idle =>
           /\ x.record.request \in Requests
           /\ x.kind = "replay" => /\ x.record.request.id \in DOMAIN records
                                   /\ x.record.request = records[x.record.request.id].request
           /\ x.kind = "execute" /\ x.next \in 2..StageCount =>
                x.record.request.id \notin DOMAIN records
           /\ x.record.request.id \notin disturbed' => CallTraced(x, records)'
  PROVE  CallsAreApart' /\ TraceInv'
<1>1. call'[c] = x /\ \A d \in Callers : d = c
  BY DEF OneCaller, TracedCalls, RecordInv
<1>2. CallsAreApart'
  BY <1>1 DEF TracedCalls, CallsAreApart
<1>3. \A rec, next : Traced(rec, next) => Traced(rec, next)'
  BY TracedStays
<1>4. ASSUME NEW id \in DOMAIN records', Undisturbed(records[id])'
      PROVE  Traced(records[id], StageCount + 1)'
  <2>1. Traced(records[id], StageCount + 1)
    BY <1>4 DEF TracedCalls, TraceInv, Undisturbed
  <2>2. PICK rec : rec = records[id]
    OBVIOUS
  <2>3. Traced(rec, StageCount + 1)'
    BY <1>3, <2>1, <2>2
  <2> QED  BY <2>2, <2>3
<1>5. ASSUME NEW d \in Callers, (call[d] # Idle)', Undisturbed(call[d].record)',
             (call[d].kind = "replay" \/ call[d].record.request.id \notin DOMAIN records)'
      PROVE  Traced(call[d].record, call[d].next)'
  <2>1. d = c /\ call'[d] = x
    BY <1>1
  <2>2. Traced(x.record, x.next)'
    BY <1>5, <2>1 DEF CallTraced, Undisturbed
  <2> QED  BY <2>1, <2>2
<1>6. TraceInv'
  BY <1>4, <1>5 DEF TraceInv
<1> QED  BY <1>2, <1>6

LEMMA SurroundingsOfStages ==
  ASSUME Unaffected
  PROVE  SurroundingsStay /\ records' = records
BY DEF Unaffected, SurroundingsStay

\* Before a stage of an undisturbed call that is traced: all before it passed,
\* and what it answers is what it would answer to a replay.
LEMMA StageOfTraced ==
  ASSUME TracedCalls, NEW c \in Callers, InStage(c), Undisturbed(call[c].record),
         call[c].kind = "replay" \/ call[c].record.request.id \notin DOMAIN records
  PROVE  LET rec == call[c].record
             k == call[c].next
         IN  /\ rec = Through(rec.request, k - 1) /\ Unrefused(rec.request, k - 1)
             /\ Refusal(rec, k, Emits(c)) = Refusal(rec, k, FALSE)
<1> DEFINE rec == call[c].record
           k == call[c].next
           r == rec.request
<1>1. call[c] # Idle
  BY DEF InStage, Idle
<1>2. Traced(rec, k)
  BY <1>1 DEF TracedCalls, TraceInv
<1>3. CallFormed(call[c]) /\ k \in 1..StageCount /\ rec = Through(r, k - 1)
  BY InStageForm DEF TracedCalls
<1>4. StageCount = 9
  BY DEF StageCount, States
<1>5. Emits(c) => ~Taken(r.id)
  BY DEF Emits, Taken
<1>6. Refusal(rec, k, Emits(c)) = Refusal(rec, k, FALSE)
  <2> HIDE DEF k
  <2>1. PICK y, e : y = rec /\ e = Emits(c)
    OBVIOUS
  <2>2. e => ~Taken(y.request.id)
    BY <1>5, <2>1
  <2> HIDE DEF rec
  <2> QED  BY <2>1, <2>2, RefusalOfFresh
<1> HIDE DEF rec, k, r
<1>7. Unrefused(r, k - 1)
  <2>1. PICK n \in 0..StageCount :
          Unrefused(r, n) /\ (k = n + 1 \/ k = StageCount + 1)
    BY <1>2 DEF Traced, r
  <2>2. n = k - 1
    BY <1>3, <1>4, <2>1
  <2> QED  BY <2>1, <2>2
<1> QED  BY <1>3, <1>6, <1>7 DEF rec, k, r

LEMMA StagePassesKeepsTrace ==
  ASSUME OneCaller, TracedCalls, NEW c \in Callers, StagePasses(c)
  PROVE  CallsAreApart' /\ TraceInv'
<1> PICK rec, k, r, x :
      /\ rec = call[c].record /\ k = call[c].next /\ r = rec.request
      /\ x = InCall(c, Through(r, k), k + 1)
  OBVIOUS
<1>1. /\ InStage(c) /\ records' = records /\ SurroundingsStay
      /\ disturbed' = disturbed /\ Refusal(rec, k, Emits(c)) = ""
  BY SurroundingsOfStages DEF StagePasses
<1>2. /\ CallFormed(call[c]) /\ k \in 1..StageCount /\ rec = Through(r, k - 1)
      /\ call[c] # Idle
  BY <1>1, InStageForm DEF TracedCalls
<1>3. Done(rec, k) = Through(r, k)
  BY <1>2, StageForms
<1>4. call' = [call EXCEPT ![c] = x]
  BY <1>3 DEF StagePasses
<1>5. /\ x.kind = call[c].kind /\ x.record = Through(r, k) /\ x.next = k + 1
      /\ x.record.request = r
  <2>1. x.kind = call[c].kind /\ x.record = Through(r, k) /\ x.next = k + 1
    BY DEF InCall
  <2> QED  BY <2>1, ThroughNames
<1>6. StageCount = 9
  BY DEF StageCount, States
<1>7. /\ r \in Requests
      /\ call[c].kind = "replay" => r.id \in DOMAIN records /\ r = records[r.id].request
      /\ call[c].kind = "execute" /\ k \in 2..StageCount => r.id \notin DOMAIN records
  BY <1>2 DEF TracedCalls, CallsAreApart
<1>8. call[c].kind = "execute" => r.id \notin DOMAIN records
  <2>1. CASE k = 1
    BY <1>1, <1>2, <1>6, <2>1 DEF Refusal, Taken, Emits
  <2>2. CASE k # 1
    <3>1. k \in 2..StageCount
      BY <1>2, <1>6, <2>2
    <3> QED  BY <1>7, <3>1
  <2> QED  BY <2>1, <2>2
<1>9. ASSUME x.record.request.id \notin disturbed' PROVE CallTraced(x, records)'
  <2>1. SUFFICES ASSUME (x.kind = "replay" \/ r.id \notin DOMAIN records)
                 PROVE  Traced(x.record, x.next)'
    BY <1>1, <1>5 DEF CallTraced
  <2>2. Undisturbed(rec)
    BY <1>1, <1>5, <1>9 DEF Undisturbed
  <2>3. Unrefused(r, k - 1) /\ Refusal(rec, k, FALSE) = ""
    BY <1>1, <1>5, <2>1, <2>2, StageOfTraced
  <2>4. Unrefused(r, k)
    <3>1. \A j \in 1..k : j = k \/ j \in 1..(k - 1)
      BY <1>2, <1>6
    <3> QED  BY <1>2, <2>3, <3>1 DEF Unrefused
  <2>5. k \in 0..StageCount
    BY <1>2, <1>6
  <2>6. Traced(Through(r, k), k + 1)
    BY <1>5, <2>4, <2>5 DEF Traced
  <2> QED  BY <1>1, <1>5, <2>6, TracedStays
<1> QED  BY <1>1, <1>4, <1>5, <1>7, <1>8, <1>9, CallStepKeepsTrace

LEMMA StageNumbers ==
  /\ StageCount + 1 \notin 2..StageCount
  /\ \A k \in 1..StageCount :
       k - 1 \in 0..StageCount /\ (k - 1) + 1 = k /\ k - 1 < StageCount
<1>1. StageCount = 9
  BY DEF StageCount, States
<1> QED  BY <1>1

RefusedAs(c, why) ==
  why # "" /\ why = Refusal(call[c].record, call[c].next, Emits(c))

\* A stage fails, with its identifier disturbed or its reason the refusal.
LEMMA FailStageKeepsTrace ==
  ASSUME OneCaller, TracedCalls, NEW c \in Callers, InStage(c), SurroundingsStay,
         records' = records, disturbed \subseteq disturbed',
         NEW rec, NEW k, NEW input, NEW why, NEW published, NEW before,
         before = call[c].record, k = call[c].next,
         FailStage(c, rec, k, input, why, published),
         rec.request = before.request,
         \/ before.request.id \in disturbed'
         \/ rec = before /\ input = Snapshot(rec) /\ RefusedAs(c, why)
  PROVE  CallsAreApart' /\ TraceInv'
<1> PICK r, failed, x :
      /\ r = rec.request /\ failed = Failed(rec, k, input, why)
      /\ x = InCall(c, failed, StageCount + 1)
  OBVIOUS
<1>1. /\ CallFormed(call[c]) /\ k \in 1..StageCount /\ before = Through(r, k - 1)
      /\ call[c] # Idle
  BY InStageForm DEF TracedCalls
<1>2. /\ x.kind = call[c].kind /\ x.record = failed /\ x.next = StageCount + 1
      /\ x.record.request = r
  <2>1. failed.request = r
    BY FailedFields
  <2>2. x = [kind |-> call[c].kind, record |-> failed, next |-> StageCount + 1]
    BY DEF InCall
  <2> QED  BY <2>1, <2>2
<1>3. /\ r \in Requests
      /\ call[c].kind = "replay" => r.id \in DOMAIN records /\ r = records[r.id].request
  BY <1>1 DEF TracedCalls, CallsAreApart
<1>5. ASSUME x.record.request.id \notin disturbed' PROVE CallTraced(x, records)'
  <2>1. SUFFICES ASSUME (x.kind = "replay" \/ r.id \notin DOMAIN records)
                 PROVE  Traced(x.record, x.next)'
    BY <1>2 DEF CallTraced
  <2>2. Undisturbed(call[c].record)
    BY <1>2, <1>5 DEF Undisturbed
  <2>3. rec = before /\ input = Snapshot(rec) /\ RefusedAs(c, why)
    BY <1>2, <1>5
  <2>4. Unrefused(r, k - 1) /\ Refusal(rec, k, FALSE) = why /\ why # ""
    BY <1>2, <2>1, <2>2, <2>3, StageOfTraced DEF RefusedAs
  <2>5. failed = FailedAt(r, k, why) /\ failed.request = r
    BY <1>1, <1>2, <2>3 DEF FailedAt
  <2>6. k - 1 \in 0..StageCount /\ (k - 1) + 1 = k /\ k - 1 < StageCount
    BY <1>1, StageNumbers
  <2>7. Traced(failed, StageCount + 1)
    BY <1>1, <2>3, <2>4, <2>5, <2>6 DEF Traced
  <2> QED  BY <1>2, <2>7, TracedStays
<1>7. CASE call' = [call EXCEPT ![c] = x]
  BY <1>2, <1>3, <1>5, <1>7, StageNumbers, CallStepKeepsTrace
<1>8. PICK y : y = Idle
  OBVIOUS
<1>9. CASE call' = [call EXCEPT ![c] = y]
  BY <1>8, <1>9, CallStepKeepsTrace
<1>10. call' = [call EXCEPT ![c] = x] \/ call' = [call EXCEPT ![c] = Idle]
  BY DEF FailStage
<1> QED  BY <1>7, <1>8, <1>9, <1>10

LEMMA StageRefusedKeepsTrace ==
  ASSUME OneCaller, TracedCalls, NEW c \in Callers, StageRefused(c)
  PROVE  CallsAreApart' /\ TraceInv'
<1> PICK rec, k, input :
      rec = call[c].record /\ k = call[c].next /\ input = Snapshot(rec)
  OBVIOUS
<1>1. PICK why : RefusedAs(c, why) /\ FailStage(c, rec, k, input, why, << >>)
  BY DEF StageRefused, RefusedAs
<1>2. InStage(c) /\ records' = records /\ SurroundingsStay /\ disturbed' = disturbed
  BY SurroundingsOfStages DEF StageRefused
<1> QED  BY <1>1, <1>2, FailStageKeepsTrace

LEMMA AssignmentFailsKeepsTrace ==
  ASSUME OneCaller, TracedCalls, NEW c \in Callers, AssignmentFails(c)
  PROVE  CallsAreApart' /\ TraceInv'
<1> PICK rec, k, input :
      rec = call[c].record /\ k = call[c].next /\ input = Snapshot(rec)
  OBVIOUS
<1>1. /\ InStage(c) /\ records' = records /\ SurroundingsStay
      /\ disturbed' = disturbed \cup {rec.request.id}
      /\ FailStage(c, rec, k, input, "receipt", << >>)
  BY SurroundingsOfStages DEF AssignmentFails
<1> QED  BY <1>1, FailStageKeepsTrace

LEMMA TransitionRaisesKeepsTrace ==
  ASSUME OneCaller, TracedCalls, NEW c \in Callers, TransitionRaises(c)
  PROVE  CallsAreApart' /\ TraceInv'
<1> PICK rec, k, input, filed :
      /\ rec = call[c].record /\ k = call[c].next /\ input = Snapshot(rec)
      /\ filed = Filed(rec, k)
  OBVIOUS
<1>1. FailStage(c, filed, k, input, "hash", << >>)
  BY DEF TransitionRaises
<1>2. /\ InStage(c) /\ records' = records /\ SurroundingsStay
      /\ disturbed' = disturbed \cup {rec.request.id}
  BY SurroundingsOfStages DEF TransitionRaises
<1>3. filed.request = rec.request
  BY DEF Filed
<1> QED  BY <1>1, <1>2, <1>3, FailStageKeepsTrace

LEMMA SubscriberRaisesKeepsTrace ==
  ASSUME OneCaller, TracedCalls, NEW c \in Callers, SubscriberRaises(c)
  PROVE  CallsAreApart' /\ TraceInv'
<1> PICK rec, k, input, advanced :
      /\ rec = call[c].record /\ k = call[c].next /\ input = Snapshot(rec)
      /\ advanced = Done(rec, k)
  OBVIOUS
<1>1. PICK published : FailStage(c, advanced, k, input, "publish", published)
  BY DEF SubscriberRaises
<1>2. /\ InStage(c) /\ records' = records /\ SurroundingsStay
      /\ disturbed' = disturbed \cup {rec.request.id}
  BY SurroundingsOfStages DEF SubscriberRaises
<1>3. advanced.request = rec.request
  BY DEF Done, Advanced, Filed
<1> QED  BY <1>1, <1>2, <1>3, FailStageKeepsTrace

LEMMA BeginExecuteKeepsTrace ==
  ASSUME OneCaller, TracedCalls, NEW c \in Callers, NEW r \in Requests, BeginExecute(c, r)
  PROVE  CallsAreApart' /\ TraceInv'
<1> PICK x : x = [kind |-> "execute", record |-> Through(r, 0), next |-> 1]
  OBVIOUS
<1>1. /\ call' = [call EXCEPT ![c] = x] /\ records' = records /\ SurroundingsStay
      /\ disturbed' = IF r.id \in DOMAIN records THEN disturbed ELSE disturbed \ {r.id}
  BY ThroughBegins DEF BeginExecute, Begin, SurroundingsStay, platformVars
<1>2. /\ x.kind = "execute" /\ x.next = 1 /\ x.record = Through(r, 0)
      /\ x.record.request = r
  <2>1. x.kind = "execute" /\ x.next = 1 /\ x.record = Through(r, 0)
    OBVIOUS
  <2> QED  BY <2>1, ThroughNames
<1>3. \A d \in Callers : d = c
  BY DEF OneCaller
<1>4. call'[c] = x
  BY <1>1 DEF TracedCalls, RecordInv
<1>5. Traced(x.record, 1)
  <2>1. Unrefused(r, 0) /\ 0 \in 0..StageCount /\ 1 = 0 + 1
    BY DEF Unrefused, StageCount, States
  <2> QED  BY <1>2, <2>1 DEF Traced
<1>6. \A rec, next : Traced(rec, next) => Traced(rec, next)'
  BY <1>1, TracedStays
<1>7. CallsAreApart'
  <2>1. 1 \notin 2..StageCount
    OBVIOUS
  <2>2. \A id \in DOMAIN records' :
          records'[id].request \in Requests /\ records'[id].request.id = id
    BY <1>1 DEF TracedCalls, CallsAreApart
  <2>3. /\ x.record.request \in Requests /\ x.kind # "replay"
        /\ ~(x.kind = "execute" /\ x.next \in 2..StageCount)
    BY <1>2, <2>1
  <2> QED  BY <1>3, <1>4, <2>2, <2>3 DEF CallsAreApart
<1>8. ASSUME NEW id \in DOMAIN records', Undisturbed(records[id])'
      PROVE  Traced(records[id], StageCount + 1)'
  <2>1. records[id].request.id = id
    BY <1>1, <1>8 DEF TracedCalls, CallsAreApart
  <2>2. Undisturbed(records[id])
    BY <1>1, <1>8, <2>1 DEF Undisturbed
  <2>3. Traced(records[id], StageCount + 1)
    BY <1>1, <1>8, <2>2 DEF TracedCalls, TraceInv
  <2>4. PICK rec : rec = records[id]
    OBVIOUS
  <2>5. Traced(rec, StageCount + 1)'
    BY <1>6, <2>3, <2>4
  <2> QED  BY <1>1, <2>4, <2>5
<1>9. ASSUME NEW d \in Callers PROVE Traced(call[d].record, call[d].next)'
  <2>1. call'[d] = x
    BY <1>3, <1>4
  <2>2. Traced(x.record, x.next)'
    BY <1>2, <1>5, <1>6
  <2> QED  BY <2>1, <2>2
<1>10. TraceInv'
  BY <1>8, <1>9 DEF TraceInv
<1> QED  BY <1>7, <1>10

LEMMA BeginReplayKeepsTrace ==
  ASSUME OneCaller, TracedCalls, NEW c \in Callers, NEW id \in Ids, BeginReplay(c, id)
  PROVE  CallsAreApart' /\ TraceInv'
<1> PICK r : r = records[id].request
  OBVIOUS
<1> PICK x : x = [kind |-> "replay", record |-> Through(r, 0), next |-> 1]
  OBVIOUS
<1>1. /\ call' = [call EXCEPT ![c] = x] /\ records' = records /\ SurroundingsStay
      /\ disturbed' = disturbed /\ id \in DOMAIN records
  BY ThroughBegins DEF BeginReplay, Begin, SurroundingsStay, platformVars
<1>2. /\ x.kind = "replay" /\ x.next = 1 /\ x.record = Through(r, 0)
      /\ x.record.request = r
  <2>1. x.kind = "replay" /\ x.next = 1 /\ x.record = Through(r, 0)
    OBVIOUS
  <2> QED  BY <2>1, ThroughNames
<1>3. r \in Requests /\ r.id = id
  BY <1>1 DEF TracedCalls, CallsAreApart
<1>4. Traced(x.record, 1)
  <2>1. Unrefused(r, 0) /\ 0 \in 0..StageCount /\ 1 = 0 + 1
    BY DEF Unrefused, StageCount, States
  <2> QED  BY <1>2, <2>1 DEF Traced
<1>5. CallTraced(x, records)'
  BY <1>1, <1>2, <1>4, TracedStays DEF CallTraced
<1>6. /\ x.record.request.id \in DOMAIN records
      /\ x.record.request = records[x.record.request.id].request
  BY <1>1, <1>2, <1>3
<1> QED  BY <1>1, <1>2, <1>3, <1>5, <1>6, CallStepKeepsTrace

LEMMA EndReplayKeepsTrace ==
  ASSUME OneCaller, TracedCalls, NEW c \in Callers, EndReplay(c)
  PROVE  CallsAreApart' /\ TraceInv'
<1> PICK x : x = Idle
  OBVIOUS
<1>1. /\ call' = [call EXCEPT ![c] = x] /\ records' = records /\ SurroundingsStay
      /\ disturbed' = disturbed
  BY DEF EndReplay, SurroundingsStay
<1> QED  BY <1>1, CallStepKeepsTrace

LEMMA StoreKeeps ==
  ASSUME NEW c \in Callers, Store(c)
  PROVE  \A id \in DOMAIN records : id \in DOMAIN records' /\ records'[id] = records[id]
<1> PICK rec, key : rec = call[c].record /\ key = rec.request.id
  OBVIOUS
<1>1. records' = IF key \in DOMAIN records THEN records
                 ELSE [i \in DOMAIN records \cup {key} |->
                         IF i = key THEN rec ELSE records[i]]
  BY DEF Store
<1> QED  BY <1>1

LEMMA EndExecuteKeepsTrace ==
  ASSUME OneCaller, TracedCalls, NEW c \in Callers, EndExecute(c)
  PROVE  CallsAreApart' /\ TraceInv'
<1> PICK rec, key, next : rec = call[c].record /\ key = rec.request.id /\ next = call[c].next
  OBVIOUS
<1>1. /\ call[c].kind = "execute" /\ next > StageCount /\ SurroundingsStay
      /\ call' = [call EXCEPT ![c] = Idle] /\ disturbed' = disturbed
      /\ records' = IF key \in DOMAIN records THEN records
                    ELSE [i \in DOMAIN records \cup {key} |->
                            IF i = key THEN rec ELSE records[i]]
  BY DEF EndExecute, Store, SurroundingsStay, platformVars
<1>2. \A d \in Callers : call'[d] = Idle
  BY <1>1 DEF OneCaller, TracedCalls, RecordInv
<1>3. call[c] # Idle
  BY <1>1 DEF Idle
<1>4. CallFormed(call[c]) /\ rec.request \in Requests
  BY <1>3 DEF TracedCalls, RecordInv, CallsAreApart
<1>5. next = StageCount + 1
  <2>1. StageCount = 9 /\ Formed(rec, next)
    BY <1>4 DEF CallFormed, StageCount, States
  <2>2. next = StageCount + 1 \/ next \in 1..(StageCount + 1)
    BY <2>1 DEF Formed
  <2> QED  BY <1>1, <2>1, <2>2
<1>6. ASSUME NEW id \in DOMAIN records'
      PROVE  \/ id \in DOMAIN records /\ records'[id] = records[id]
             \/ id = key /\ key \notin DOMAIN records /\ records'[id] = rec
  BY <1>1
<1>7. CallsAreApart'
  <2>1. ASSUME NEW id \in DOMAIN records'
        PROVE  records'[id].request \in Requests /\ records'[id].request.id = id
    BY <1>4, <1>6 DEF TracedCalls, CallsAreApart
  <2> QED  BY <1>2, <2>1 DEF CallsAreApart
<1>8. ASSUME NEW id \in DOMAIN records', Undisturbed(records[id])'
      PROVE  Traced(records[id], StageCount + 1)'
  <2> PICK x : x = records'[id]
    OBVIOUS
  <2>1. ASSUME id \in DOMAIN records /\ x = records[id] PROVE Traced(x, StageCount + 1)
    BY <1>1, <1>8, <2>1 DEF TracedCalls, TraceInv, Undisturbed
  <2>2. ASSUME id = key /\ key \notin DOMAIN records /\ x = rec
        PROVE  Traced(x, StageCount + 1)
    BY <1>1, <1>3, <1>5, <1>8, <2>2 DEF TracedCalls, TraceInv, Undisturbed
  <2>3. Traced(x, StageCount + 1)
    BY <1>6, <2>1, <2>2
  <2>4. Traced(x, StageCount + 1)'
    BY <1>1, <2>3, TracedStays
  <2> QED  BY <2>4
<1>9. TraceInv'
  BY <1>2, <1>8 DEF TraceInv
<1> QED  BY <1>7, <1>9

\* The surroundings change: every identifier is disturbed.
LEMMA SurroundingsKeepTrace ==
  ASSUME TracedCalls, records' = records, call' = call, disturbed' = Ids
  PROVE  CallsAreApart' /\ TraceInv'
<1>1. CallsAreApart'
  BY DEF TracedCalls, CallsAreApart
<1>2. \A id \in DOMAIN records' : ~Undisturbed(records[id])'
  BY <1>1 DEF CallsAreApart, Undisturbed, Ids
<1>3. \A c \in Callers : (call[c] # Idle)' => ~Undisturbed(call[c].record)'
  BY <1>1 DEF CallsAreApart, Undisturbed, Ids
<1> QED  BY <1>1, <1>2, <1>3 DEF TraceInv

LEMMA QuietKeepsTrace ==
  ASSUME TracedCalls, records' = records, call' = call, disturbed' = disturbed,
         SurroundingsStay
  PROVE  CallsAreApart' /\ TraceInv'
<1>1. \A x, next : Traced(x, next) => Traced(x, next)'
  BY TracedStays
<1>2. CallsAreApart'
  BY DEF TracedCalls, CallsAreApart
<1>3. ASSUME NEW id \in DOMAIN records', Undisturbed(records[id])'
      PROVE  Traced(records[id], StageCount + 1)'
  <2> PICK x : x = records[id]
    OBVIOUS
  <2>1. Traced(x, StageCount + 1)
    BY <1>3 DEF TracedCalls, TraceInv, Undisturbed
  <2> QED  BY <1>1, <2>1
<1>4. ASSUME NEW c \in Callers, (call[c] # Idle)', Undisturbed(call[c].record)',
             (call[c].kind = "replay" \/ call[c].record.request.id \notin DOMAIN records)'
      PROVE  Traced(call[c].record, call[c].next)'
  <2> PICK x, next : x = call[c].record /\ next = call[c].next
    OBVIOUS
  <2>1. Traced(x, next)
    BY <1>4 DEF TracedCalls, TraceInv, Undisturbed
  <2> QED  BY <1>1, <2>1
<1> QED  BY <1>2, <1>3, <1>4 DEF TraceInv

LEMMA TracedCallsKept ==
  ASSUME OneCaller, TracedCalls, [Next]_vars
  PROVE  TracedCalls'
<1>1. RecordInv'
  BY RecordInvKept DEF TracedCalls
<1>2. PlatformSteps => CallsAreApart' /\ TraceInv'
  BY SurroundingsKeepTrace DEF PlatformSteps
<1>3. SecurityCoreChanges => CallsAreApart' /\ TraceInv'
  BY SurroundingsKeepTrace DEF SecurityCoreChanges
<1>4. StartEngine \/ UNCHANGED vars => CallsAreApart' /\ TraceInv'
  BY QuietKeepsTrace
     DEF StartEngine, vars, onboardingVars, platformVars, SurroundingsStay
<1>5. CallsAreApart' /\ TraceInv'
  BY <1>2, <1>3, <1>4, BeginExecuteKeepsTrace, BeginReplayKeepsTrace,
     StagePassesKeepsTrace, StageRefusedKeepsTrace, AssignmentFailsKeepsTrace,
     TransitionRaisesKeepsTrace, SubscriberRaisesKeepsTrace, EndExecuteKeepsTrace, EndReplayKeepsTrace DEF Next
<1> QED  BY <1>1, <1>5 DEF TracedCalls

LEMMA TracedCallsStarts ==
  ASSUME Init
  PROVE  TracedCalls
<1>1. call = [c \in Callers |-> Idle] /\ records = << >>
  BY DEF Init, OnboardingInit
<1>2. DOMAIN records = {}
  BY <1>1
<1>3. \A c \in Callers : call[c] = Idle
  BY <1>1
<1> QED  BY <1>2, <1>3, RecordStarts DEF TracedCalls, CallsAreApart, TraceInv

-----------------------------------------------------------------------------
(* What Security Core is asked for, and what a replay says.                *)

LEMMA AskedFor ==
  ASSUME NEW c, NEW k, NEW answers, Ask(c, k, answers), NEW a \in assigned' \ assigned
  PROVE  k \in {3, 6} /\ a = Assignment(call[c].record.request, k)
BY DEF Ask, AsksSecurity

LEMMA KeyOfAssignment ==
  ASSUME NEW r, NEW k
  PROVE  Assignment(r, k).key[1] = r.id /\ Assignment(r, k).key[2] = k
BY DEF Assignment

\* A stage asks for nothing that a record of the identifier did not ask for.
LEMMA AskKeepsMeaning ==
  ASSUME TracedCalls, NEW c \in Callers, InStage(c), NEW answers,
         Ask(c, call[c].next, answers),
         NEW a \in assigned' \ assigned, NEW id \in DOMAIN records, a.key[1] = id
  PROVE  a = Assignment(records[id].request, a.key[2])
<1> PICK r, k : r = call[c].record.request /\ k = call[c].next
  OBVIOUS
<1>1. k \in {3, 6} /\ a = Assignment(r, k)
  BY AskedFor
<1>2. CallFormed(call[c]) /\ call[c] # Idle
  BY InStageForm DEF TracedCalls
<1>3. r.id = id /\ a.key[2] = k
  BY <1>1, KeyOfAssignment
<1>4. k \in 2..StageCount
  BY <1>1 DEF StageCount, States
<1>5. call[c].kind = "replay"
  BY <1>2, <1>3, <1>4 DEF CallFormed, TracedCalls, CallsAreApart
<1>6. r = records[id].request
  BY <1>2, <1>3, <1>5 DEF TracedCalls, CallsAreApart
<1> QED  BY <1>1, <1>3, <1>6

KeysKept ==
  \A id \in DOMAIN records :
    /\ id \in DOMAIN records' /\ records'[id] = records[id]
    /\ \A a \in assigned' \ assigned :
         a.key[1] = id => a = Assignment(records[id].request, a.key[2])

LEMMA NextKeepsKeys ==
  ASSUME TracedCalls, [Next]_vars
  PROVE  KeysKept
<1>1. ASSUME assigned' = assigned, records' = records PROVE KeysKept
  BY <1>1 DEF KeysKept
<1>2. CASE PlatformSteps \/ SecurityCoreChanges \/ StartEngine \/ UNCHANGED vars
  BY <1>1, <1>2 DEF PlatformSteps, SecurityCoreChanges, StartEngine, vars, onboardingVars
<1>3. ASSUME NEW c \in Callers, NEW kind, NEW r, Begin(c, kind, r) PROVE KeysKept
  BY <1>1, <1>3 DEF Begin
<1>4. ASSUME NEW c \in Callers, NEW r \in Requests, BeginExecute(c, r) PROVE KeysKept
  BY <1>3, <1>4 DEF BeginExecute
<1>5. ASSUME NEW c \in Callers, NEW id \in Ids, BeginReplay(c, id) PROVE KeysKept
  <2> PICK r : r = records[id].request
    OBVIOUS
  <2> QED  BY <1>3, <1>5 DEF BeginReplay
<1>6. ASSUME NEW c \in Callers, StageRefused(c) \/ EndReplay(c) PROVE KeysKept
  BY <1>1, <1>6 DEF StageRefused, EndReplay, Unaffected
<1>7. ASSUME NEW c \in Callers, NEW answers, InStage(c), records' = records,
             Ask(c, call[c].next, answers)
      PROVE  KeysKept
  BY <1>7, AskKeepsMeaning DEF KeysKept
<1>8. ASSUME NEW c \in Callers, StagePasses(c) PROVE KeysKept
  BY <1>7, <1>8, SurroundingsOfStages DEF StagePasses
<1>9. ASSUME NEW c \in Callers, AssignmentFails(c) \/ TransitionRaises(c) PROVE KeysKept
  BY <1>7, <1>9, SurroundingsOfStages DEF AssignmentFails, TransitionRaises
<1>10. ASSUME NEW c \in Callers, SubscriberRaises(c) PROVE KeysKept
  BY <1>7, <1>10, SurroundingsOfStages DEF SubscriberRaises
<1>11. ASSUME NEW c \in Callers, EndExecute(c) PROVE KeysKept
  BY <1>11, StoreKeeps DEF EndExecute, KeysKept
<1> QED
  BY <1>2, <1>4, <1>5, <1>6, <1>8, <1>9, <1>10, <1>11 DEF Next

\* KeysKeepTheirMeaning, for calls that are made one at a time.
THEOREM KeysAlwaysKeepTheirMeaning ==
  ASSUME OneCaller
  PROVE  Spec => KeysKeepTheirMeaning
<1>1. TracedCalls /\ [Next]_vars => [KeysKept]_vars
  BY NextKeepsKeys
<1>2. [KeysKept]_vars <=> [\A id \in DOMAIN records :
       /\ id \in DOMAIN records' /\ records'[id] = records[id]
       /\ \A a \in assigned' \ assigned :
            a.key[1] = id => a = Assignment(records[id].request, a.key[2])]_vars
  BY DEF KeysKept
<1> QED
  BY <1>1, <1>2, TracedCallsStarts, TracedCallsKept, PTL DEF Spec, KeysKeepTheirMeaning

\* The audit only grows, by events.
AuditIsSequence == \E S : audit \in Seq(S)

LEMMA AppendedLast ==
  ASSUME NEW s, NEW e, \E S : s \in Seq(S)
  PROVE  Last(Append(s, e)) = e
<1> PICK S : s \in Seq(S)
  OBVIOUS
<1>1. Len(s) \in Nat /\ Len(Append(s, e)) = Len(s) + 1 /\ Append(s, e)[Len(s) + 1] = e
  OBVIOUS
<1> QED  BY <1>1 DEF Last

LEMMA AppendIsSequence ==
  ASSUME NEW s, NEW e, \E S : s \in Seq(S)
  PROVE  \E S : Append(s, e) \in Seq(S)
<1> PICK S : s \in Seq(S)
  OBVIOUS
<1>1. s \in Seq(S \cup {e}) /\ e \in S \cup {e}
  OBVIOUS
<1>2. Append(s, e) \in Seq(S \cup {e})
  BY <1>1
<1> QED  BY <1>2

LEMMA PairIsSequence ==
  ASSUME NEW s, NEW d, NEW published, \E S : s \in Seq(S),
         published = << >> \/ published = <<d>>
  PROVE  \E S : s \o published \in Seq(S)
<1> PICK S : s \in Seq(S)
  OBVIOUS
<1> PICK T : T = S \cup {d}
  OBVIOUS
<1>1. s \in Seq(T) /\ << >> \in Seq(T) /\ <<d>> \in Seq(T)
  OBVIOUS
<1>2. published \in Seq(T)
  BY <1>1
<1>3. s \o published \in Seq(T)
  BY <1>1, <1>2, ConcatProperties
<1> QED  BY <1>3

LEMMA AnnounceKeepsAudit ==
  ASSUME AuditIsSequence, NEW kind, NEW m, Announce(kind, m)
  PROVE  AuditIsSequence'
<1> PICK e : e = Event(kind, m, 0)
  OBVIOUS
<1>1. audit' = audit \/ audit' = Append(audit, e)
  BY DEF Announce
<1> QED  BY <1>1, AppendIsSequence DEF AuditIsSequence

LEMMA PlatformKeepsAudit ==
  ASSUME AuditIsSequence, PlatformNext
  PROVE  AuditIsSequence'
<1>1. ASSUME audit' = audit PROVE AuditIsSequence'
  BY <1>1 DEF AuditIsSequence
<1>2. ASSUME NEW m, Started(m) \/ StartRaises(m) \/ Stopped(m) \/ StopRaises(m)
      PROVE  AuditIsSequence'
  BY <1>2, AnnounceKeepsAudit DEF Started, StartRaises, Stopped, StopRaises
<1>3. ASSUME NEW may, Refused(may) PROVE AuditIsSequence'
  BY <1>1, <1>3 DEF Refused
<1>4. CASE DiscoverService \/ ConfigureSubscriptions \/ DiscoverFramework
             \/ RecordFrameworks \/ LoopDone \/ VerifyBoot \/ StartAll \/ StopAll
             \/ \E m \in ToSet(order) : MarkFailed(m)
  BY <1>1, <1>4 DEF DiscoverService, ConfigureSubscriptions, DiscoverFramework, Register,
       RecordFrameworks, LoopDone, VerifyBoot, StartAll, StopAll, MarkFailed
<1>5. CASE StartNext
  <2>1. PICK m : m = order[at]
    OBVIOUS
  <2>2. Started(m) \/ StartRaises(m) \/ audit' = audit
    BY <1>5, <2>1 DEF StartNext, Refused
  <2> QED  BY <1>1, <1>2, <2>2
<1>6. CASE StopNext
  <2>1. PICK m : m = order[at]
    OBVIOUS
  <2>2. Stopped(m) \/ StopRaises(m) \/ audit' = audit
    BY <1>6, <2>1 DEF StopNext, Refused
  <2> QED  BY <1>1, <1>2, <2>2
<1>7. ASSUME NEW k \in 1..Len(order), Restart(k) PROVE AuditIsSequence'
  <2>1. PICK m : m = order[k]
    OBVIOUS
  <2>2. Stopped(m) \/ StopRaises(m) \/ audit' = audit
    BY <1>7, <2>1 DEF Restart, Refused
  <2> QED  BY <1>1, <1>2, <2>2
<1>8. CASE RestartStart
  <2>1. PICK m : m = order[at]
    OBVIOUS
  <2>2. Started(m) \/ StartRaises(m)
    BY <1>8, <2>1 DEF RestartStart
  <2> QED  BY <1>2, <2>2
<1> QED  BY <1>4, <1>5, <1>6, <1>7, <1>8 DEF PlatformNext

LEMMA PublishKeepsAudit ==
  ASSUME AuditIsSequence, NEW c, NEW kind, NEW k, Publish(c, kind, k)
  PROVE  AuditIsSequence'
<1> PICK e : e = Event(kind, call[c].record.request.id, k)
  OBVIOUS
<1>1. audit' = audit \/ audit' = Append(audit, e)
  BY DEF Publish
<1> QED  BY <1>1, AppendIsSequence DEF AuditIsSequence

LEMMA FailStageKeepsAudit ==
  ASSUME AuditIsSequence, NEW c, NEW rec, NEW k, NEW input, NEW why, NEW published,
         NEW d, published = << >> \/ published = <<d>>,
         FailStage(c, rec, k, input, why, published)
  PROVE  AuditIsSequence'
<1> PICK log, e : log = audit \o published /\ e = Event("stage.failed", rec.request.id, k)
  OBVIOUS
<1>1. \E S : log \in Seq(S)
  BY PairIsSequence DEF AuditIsSequence
<1>2. audit' = log \/ audit' = Append(log, e)
  BY DEF FailStage
<1> QED  BY <1>1, <1>2, AppendIsSequence DEF AuditIsSequence

LEMMA NextKeepsAudit ==
  ASSUME AuditIsSequence, [Next]_vars
  PROVE  AuditIsSequence'
<1>1. ASSUME audit' = audit PROVE AuditIsSequence'
  BY <1>1 DEF AuditIsSequence
<1>2. CASE PlatformSteps
  BY <1>2, PlatformKeepsAudit DEF PlatformSteps
<1>3. CASE SecurityCoreChanges \/ StartEngine \/ UNCHANGED vars
  BY <1>1, <1>3 DEF SecurityCoreChanges, StartEngine, vars, platformVars
<1>4. ASSUME NEW c \in Callers,
             \/ \E r \in Requests : BeginExecute(c, r)
             \/ \E id \in Ids : BeginReplay(c, id)
             \/ EndExecute(c)
      PROVE  AuditIsSequence'
  BY <1>1, <1>4 DEF BeginExecute, BeginReplay, Begin, EndExecute, platformVars
<1>5. ASSUME NEW c \in Callers, StagePasses(c) PROVE AuditIsSequence'
  <2>1. PICK k : k = call[c].next
    OBVIOUS
  <2> QED  BY <1>5, <2>1, PublishKeepsAudit DEF StagePasses
<1>6. ASSUME NEW c \in Callers, StageRefused(c) \/ AssignmentFails(c) \/ TransitionRaises(c)
      PROVE  AuditIsSequence'
  <2>1. PICK rec, k, input, why : FailStage(c, rec, k, input, why, << >>)
    BY <1>6 DEF StageRefused, AssignmentFails, TransitionRaises
  <2> QED  BY <2>1, FailStageKeepsAudit
<1>7. ASSUME NEW c \in Callers, SubscriberRaises(c) PROVE AuditIsSequence'
  <2>1. PICK rec, k, input, why, d : FailStage(c, rec, k, input, why, <<d>>)
    BY <1>7 DEF SubscriberRaises
  <2> QED  BY <2>1, FailStageKeepsAudit
<1>8. ASSUME NEW c \in Callers, EndReplay(c) PROVE AuditIsSequence'
  <2>1. PICK e : audit' = Append(audit, e)
    BY <1>8 DEF EndReplay
  <2> QED  BY <2>1, AppendIsSequence DEF AuditIsSequence
<1> QED  BY <1>2, <1>3, <1>4, <1>5, <1>6, <1>7, <1>8 DEF Next

LEMMA EndedReplay ==
  ASSUME OneCaller, TracedCalls, Next, NEW c \in Callers,
         call[c].kind = "replay", call'[c] = Idle
  PROVE  EndReplay(c)
<1>1. call[c] # Idle /\ call'[c].kind = "idle"
  BY DEF Idle
<1>2. call' # call
  BY <1>1
<1>3. ~(PlatformSteps \/ SecurityCoreChanges \/ StartEngine)
  BY <1>2 DEF PlatformSteps, SecurityCoreChanges, StartEngine
<1>4. ASSUME NEW kind, NEW r, Begin(c, kind, r) PROVE FALSE
  BY <1>1, <1>4 DEF Begin
<1>5. ~(\E r \in Requests : BeginExecute(c, r)) /\ ~(\E id \in Ids : BeginReplay(c, id))
  BY <1>4 DEF BeginExecute, BeginReplay
<1>6. ~EndExecute(c) /\ ~Emits(c)
  BY DEF EndExecute, Emits
<1>7. ASSUME NEW x, x.kind = "replay", call' = [call EXCEPT ![c] = x] PROVE FALSE
  BY <1>1, <1>7 DEF TracedCalls, RecordInv
<1>8. \A rec, next : InCall(c, rec, next).kind = "replay"
  BY DEF InCall
<1>9. ~StagePasses(c)
  <2>1. StagePasses(c) => \E x : x.kind = "replay" /\ call' = [call EXCEPT ![c] = x]
    BY <1>8 DEF StagePasses
  <2> QED  BY <1>7, <2>1
<1>10. ASSUME NEW rec, NEW k, NEW input, NEW why, NEW published,
              FailStage(c, rec, k, input, why, published)
       PROVE  FALSE
  <2>1. PICK x : x = InCall(c, Failed(rec, k, input, why), StageCount + 1)
    OBVIOUS
  <2>2. call' = [call EXCEPT ![c] = x]
    BY <1>6, <1>10, <2>1 DEF FailStage
  <2> QED  BY <1>7, <1>8, <2>1, <2>2
<1>11. ~StageRefused(c) /\ ~AssignmentFails(c) /\ ~TransitionRaises(c) /\ ~SubscriberRaises(c)
  BY <1>10 DEF StageRefused, AssignmentFails, TransitionRaises, SubscriberRaises
<1>12. \A d \in Callers : d = c
  BY DEF OneCaller
<1> QED  BY <1>3, <1>5, <1>6, <1>9, <1>11, <1>12 DEF Next

LEMMA UndisturbedReplay ==
  ASSUME OneCaller, TracedCalls, NEW c \in Callers, EndReplay(c),
         call[c].record.request.id \notin disturbed
  PROVE  Replayed(records[call[c].record.request.id], call[c].record)
<1> PICK actual, next, id, expected :
      /\ actual = call[c].record /\ next = call[c].next
      /\ id = actual.request.id /\ expected = records[id]
  OBVIOUS
<1>1. call[c].kind = "replay" /\ next > StageCount
  BY DEF EndReplay
<1>2. call[c] # Idle
  BY <1>1 DEF Idle
<1>3. CallFormed(call[c])
  BY <1>2 DEF TracedCalls, RecordInv
<1>4. next = StageCount + 1
  <2>1. StageCount = 9 /\ Formed(actual, next)
    BY <1>3 DEF CallFormed, StageCount, States
  <2> QED  BY <1>1, <2>1 DEF Formed
<1>5. id \in DOMAIN records /\ actual.request = expected.request
  BY <1>1, <1>2 DEF TracedCalls, CallsAreApart
<1>6. Undisturbed(actual) /\ Undisturbed(expected)
  BY <1>5 DEF Undisturbed
<1>7. Traced(actual, StageCount + 1)
  BY <1>1, <1>2, <1>4, <1>6 DEF TracedCalls, TraceInv
<1>8. Traced(expected, StageCount + 1)
  BY <1>5, <1>6 DEF TracedCalls, TraceInv
<1>9. actual = expected /\ Verify(actual)
  BY <1>5, <1>7, <1>8, TracedIsUnique, TracedVerifies
<1> QED  BY <1>9 DEF Replayed

ReplaysVerify ==
  \A c \in Callers :
    call[c].kind = "replay" /\ call'[c] = Idle
      /\ call[c].record.request.id \notin disturbed
    => Last(audit').event = "replay.verified"

LEMMA NextReplaysVerify ==
  ASSUME OneCaller, TracedCalls, AuditIsSequence, [Next]_vars
  PROVE  ReplaysVerify
<1> SUFFICES ASSUME NEW c \in Callers, call[c].kind = "replay", call'[c] = Idle,
                    call[c].record.request.id \notin disturbed
             PROVE  Last(audit').event = "replay.verified"
  BY DEF ReplaysVerify
<1>1. call' # call
  BY DEF Idle
<1>2. Next
  BY <1>1 DEF vars, onboardingVars
<1>3. EndReplay(c)
  BY <1>2, EndedReplay
<1> PICK id, e : id = call[c].record.request.id /\ e = Event("replay.verified", id, 0)
  OBVIOUS
<1>4. Replayed(records[id], call[c].record)
  BY <1>3, UndisturbedReplay
<1>5. audit' = Append(audit, e)
  BY <1>3, <1>4 DEF EndReplay
<1>6. e.event = "replay.verified"
  BY DEF Event
<1> QED  BY <1>5, <1>6, AppendedLast DEF AuditIsSequence

\* UndisturbedReplayVerifies, for calls that are made one at a time: the record
\* of an undisturbed identifier, and that of its replay, are both what the
\* surroundings make of the request.
THEOREM UndisturbedReplaysAlwaysVerify ==
  ASSUME OneCaller
  PROVE  Spec => UndisturbedReplayVerifies
<1>1. Init => AuditIsSequence
  <2>1. << >> \in Seq({})
    OBVIOUS
  <2> QED  BY <2>1 DEF Init, PlatformInit, AuditIsSequence
<1>2. TracedCalls /\ AuditIsSequence /\ [Next]_vars => [ReplaysVerify]_vars
  BY NextReplaysVerify
<1>3. [ReplaysVerify]_vars <=>
        [\A c \in Callers :
           call[c].kind = "replay" /\ call'[c] = Idle
             /\ call[c].record.request.id \notin disturbed
           => Last(audit').event = "replay.verified"]_vars
  BY DEF ReplaysVerify
<1> QED
  BY <1>1, <1>2, <1>3, TracedCallsStarts, TracedCallsKept, NextKeepsAudit, PTL
     DEF Spec, UndisturbedReplayVerifies

-----------------------------------------------------------------------------
(* The platform that boot() declared, as long as no module failed.         *)

InOrder == Services \o Frameworks

\* The manager's modules are what discovery found so far, in its order.
OrderInv ==
  /\ order \in Seq(Modules) /\ Len(order) <= Len(InOrder)
  /\ \A i \in 1..Len(order) : order[i] = InOrder[i]
  /\ doing = "services" => Len(order) <= Len(Services)
  /\ doing = "frameworks" => Len(order) >= Len(Services)
  /\ doing \notin {"services", "frameworks"} => Len(order) = Len(InOrder)
  /\ doing \in {"services", "frameworks", "boot"} => ~declared

StateTyped ==
  /\ lifecycle \in [Modules -> {"Created", "Registered", "Running", "Stopped", "Failed"}]
  /\ status \in [Modules -> {"Offline", "Running", "Stopped"}]

AllAre(state) == \A i \in 1..Len(InOrder) : status[InOrder[i]] = state

\* Positions before the loop's are in one state and the rest in the other.
SplitAt(n, before, after) ==
  \A i \in 1..Len(InOrder) :
    status[InOrder[i]] = IF i <= n THEN before ELSE after

NoneFailed == \A m \in Modules : lifecycle[m] # "Failed"

SoundLoops ==
  /\ \A m \in Modules : lifecycle[m] = status[m]
  /\ \/ doing = "idle" /\ (AllAre("Running") \/ AllAre("Stopped"))
     \/ /\ doing = "start_all" /\ at \in 1..(Len(InOrder) + 1)
        /\ SplitAt(at - 1, "Running", "Stopped") \/ (at = 1 /\ AllAre("Running"))
     \/ /\ doing = "stop_all" /\ at \in 0..Len(InOrder)
        /\ SplitAt(at, "Running", "Stopped")
             \/ (at = Len(InOrder) /\ AllAre("Stopped"))
     \/ /\ doing = "restart" /\ at \in 1..Len(InOrder)
        /\ \A i \in 1..Len(InOrder) :
             status[InOrder[i]] = IF i = at THEN "Stopped" ELSE "Running"

SoundInv == OrderInv /\ StateTyped /\ (declared /\ NoneFailed => SoundLoops)

LEMMA InOrderFacts ==
  /\ InOrder \in Seq(Modules) /\ Len(InOrder) \in Nat
  /\ Len(Services) \in Nat /\ Len(Frameworks) \in Nat
  /\ Len(InOrder) = Len(Services) + Len(Frameworks)
  /\ \A i \in 1..Len(InOrder) : InOrder[i] \in Modules
  /\ \A i, j \in 1..Len(InOrder) : InOrder[i] = InOrder[j] => i = j
  /\ \A m \in Modules : \E i \in 1..Len(InOrder) : InOrder[i] = m
<1> DEFINE S == Services
           F == Frameworks
           A == S \o F
<1>1. S \in Seq(Modules) /\ F \in Seq(Modules) /\ IsInjective(A)
  BY PlatformAssumption
<1>2. A = InOrder
  BY DEF InOrder
<1>3. /\ A \in Seq(Modules) /\ Len(A) = Len(S) + Len(F)
      /\ Len(S) \in Nat /\ Len(F) \in Nat /\ Len(A) \in Nat
      /\ \A i \in 1..Len(A) : A[i] = IF i <= Len(S) THEN S[i] ELSE F[i - Len(S)]
  BY <1>1, ConcatProperties
<1>4. DOMAIN A = 1..Len(A)
  BY <1>3
<1>5. \A i, j \in 1..Len(A) : A[i] = A[j] => i = j
  BY <1>1, <1>4 DEF IsInjective
<1>6. \A i \in 1..Len(A) : A[i] \in Modules
  BY <1>3
<1>7. ASSUME NEW m \in Modules PROVE \E i \in 1..Len(A) : A[i] = m
  <2>1. CASE m \in ToSet(S)
    <3>1. PICK i \in 1..Len(S) : S[i] = m
      BY <1>1, <2>1 DEF ToSet
    <3> HIDE DEF A
    <3> QED  BY <1>3, <3>1
  <2>2. CASE m \in ToSet(F)
    <3>1. PICK i \in 1..Len(F) : F[i] = m
      BY <1>1, <2>2 DEF ToSet
    <3> HIDE DEF A
    <3>2. Len(S) + i \in 1..Len(A) /\ ~(Len(S) + i <= Len(S)) /\ (Len(S) + i) - Len(S) = i
      BY <1>3, <3>1
    <3> QED  BY <1>3, <3>1, <3>2
  <2> QED  BY <2>1, <2>2 DEF Modules
<1> HIDE DEF A
<1> QED  BY <1>2, <1>3, <1>5, <1>6, <1>7

LEMMA InOrderElements ==
  /\ \A i \in 1..Len(Services) : InOrder[i] = Services[i]
  /\ \A i \in 1..Len(Frameworks) : InOrder[Len(Services) + i] = Frameworks[i]
<1>1. Services \in Seq(Modules) /\ Frameworks \in Seq(Modules)
  BY PlatformAssumption
<1>2. /\ Len(Services) \in Nat /\ Len(Frameworks) \in Nat
      /\ \A i \in 1..(Len(Services) + Len(Frameworks)) :
           InOrder[i] = IF i <= Len(Services) THEN Services[i]
                        ELSE Frameworks[i - Len(Services)]
  BY <1>1, ConcatProperties DEF InOrder
<1> QED  BY <1>2

\* Discovery goes on with the next module.
LEMMA RegisterKeepsOrder ==
  ASSUME OrderInv, NEW m, Register(m), doing' = doing,
         doing \in {"services", "frameworks"},
         Len(order) < Len(InOrder), m = InOrder[Len(order) + 1],
         doing = "services" => Len(order) < Len(Services)
  PROVE  OrderInv'
<1>1. order' = Append(order, m) /\ declared' = declared
  BY DEF Register
<1>2. order \in Seq(Modules) /\ Len(order) \in Nat /\ m \in Modules
  <2>1. order \in Seq(Modules)
    BY DEF OrderInv
  <2>2. Len(order) \in Nat
    BY <2>1
  <2>3. Len(order) + 1 \in 1..Len(InOrder)
    BY <2>2, InOrderFacts
  <2> QED  BY <2>1, <2>2, <2>3, InOrderFacts
<1>3. /\ order' \in Seq(Modules) /\ Len(order') = Len(order) + 1
      /\ \A i \in 1..Len(order) : order'[i] = order[i]
      /\ order'[Len(order) + 1] = m
  BY <1>1, <1>2
<1>4. \A i \in 1..Len(order') : order'[i] = InOrder[i]
  <2>1. \A i \in 1..Len(order') : i \in 1..Len(order) \/ i = Len(order) + 1
    BY <1>2, <1>3
  <2> QED  BY <1>3, <2>1 DEF OrderInv
<1>5. /\ Len(order') <= Len(InOrder)
      /\ doing = "services" => Len(order') <= Len(Services)
      /\ doing = "frameworks" => Len(order') >= Len(Services)
  BY <1>2, <1>3, InOrderFacts DEF OrderInv
<1> QED  BY <1>1, <1>3, <1>4, <1>5 DEF OrderInv

LEMMA PlatformKeepsOrder ==
  ASSUME OrderInv, PlatformNext
  PROVE  OrderInv'
<1>1. order \in Seq(Modules) /\ Len(order) \in Nat
  BY DEF OrderInv
<1>2. CASE DiscoverService
  <2>1. /\ doing = "services" /\ doing' = doing
        /\ Len(order) < Len(Services) /\ Register(Services[Len(order) + 1])
    BY <1>2 DEF DiscoverService
  <2>2. PICK m : m = Services[Len(order) + 1]
    OBVIOUS
  <2>3. Len(order) < Len(InOrder) /\ Len(order) + 1 \in 1..Len(Services)
    BY <1>1, <2>1, InOrderFacts
  <2>4. m = InOrder[Len(order) + 1]
    BY <2>2, <2>3, InOrderElements
  <2> QED  BY <2>1, <2>2, <2>3, <2>4, RegisterKeepsOrder
<1>3. CASE DiscoverFramework
  <2>1. /\ doing = "frameworks" /\ doing' = doing
        /\ Len(order) < Len(Services) + Len(Frameworks)
        /\ Register(Frameworks[Len(order) - Len(Services) + 1])
    BY <1>3 DEF DiscoverFramework
  <2>2. PICK m, i : i = Len(order) - Len(Services) + 1 /\ m = Frameworks[i]
    OBVIOUS
  <2>3. Len(order) >= Len(Services)
    BY <2>1 DEF OrderInv
  <2>4. /\ Len(order) < Len(InOrder) /\ i \in 1..Len(Frameworks)
        /\ Len(Services) + i = Len(order) + 1
    BY <1>1, <2>1, <2>2, <2>3, InOrderFacts
  <2>5. m = InOrder[Len(order) + 1]
    BY <2>2, <2>4, InOrderElements
  <2> QED  BY <2>1, <2>2, <2>4, <2>5, RegisterKeepsOrder
<1>4. ASSUME order' = order, doing' # "services",
             doing' = "frameworks" => Len(order) >= Len(Services),
             doing' # "frameworks" => Len(order) = Len(InOrder),
             doing' \in {"frameworks", "boot"} => ~declared'
      PROVE  OrderInv'
  BY <1>4 DEF OrderInv
<1>5. CASE ConfigureSubscriptions
  <2>1. /\ doing' = "frameworks" /\ order' = order /\ ~declared'
        /\ Len(order) = Len(Services)
    BY <1>5 DEF ConfigureSubscriptions, OrderInv
  <2> QED  BY <1>1, <1>4, <2>1
<1>6. CASE RecordFrameworks
  <2>1. /\ doing' = "boot" /\ order' = order /\ ~declared'
        /\ Len(order) = Len(InOrder)
    BY <1>6, InOrderFacts DEF RecordFrameworks, OrderInv
  <2> QED  BY <1>4, <2>1
<1>7. CASE StartNext
  <2>1. /\ doing \in {"boot", "start_all"} /\ order' = order /\ declared' = declared
        /\ doing' = doing \/ doing' = "idle"
    BY <1>7 DEF StartNext, Advance, Raise
  <2>2. Len(order) = Len(InOrder) /\ (doing = "boot" => ~declared)
    BY <2>1 DEF OrderInv
  <2> QED  BY <1>4, <2>1, <2>2
<1>8. CASE VerifyBoot
  <2>1. doing = "boot" /\ doing' = "idle" /\ order' = order
    BY <1>8 DEF VerifyBoot, Raise
  <2>2. Len(order) = Len(InOrder)
    BY <2>1 DEF OrderInv
  <2> QED  BY <1>4, <2>1, <2>2
<1>9. CASE StopNext \/ LoopDone \/ StartAll \/ StopAll \/ RestartStart
             \/ (\E k \in 1..Len(order) : Restart(k))
             \/ (\E m \in ToSet(order) : MarkFailed(m))
  <2>1. /\ doing \in {"idle", "start_all", "stop_all", "restart"} /\ order' = order
        /\ doing' \in {"idle", "start_all", "stop_all", "restart"}
    BY <1>9 DEF StopNext, LoopDone, StartAll, StopAll, RestartStart, Restart, MarkFailed,
         Command, Advance, Raise
  <2>2. Len(order) = Len(InOrder)
    BY <2>1 DEF OrderInv
  <2> QED  BY <1>4, <2>1, <2>2
<1> QED
  BY <1>2, <1>3, <1>5, <1>6, <1>7, <1>8, <1>9 DEF PlatformNext

LEMMA ModuleStepTyped ==
  ASSUME StateTyped, NEW m,
         Started(m) \/ StartRaises(m) \/ Stopped(m) \/ StopRaises(m)
  PROVE  StateTyped'
<1>1. lifecycle' \in [Modules -> {"Created", "Registered", "Running", "Stopped", "Failed"}]
  BY DEF StateTyped, Started, StartRaises, Stopped, StopRaises
<1>2. \/ status' = [status EXCEPT ![m] = "Running"]
      \/ status' = [status EXCEPT ![m] = "Stopped"]
      \/ status' = status
      \/ status' = [status EXCEPT ![m] = status[m]]
  BY DEF Started, StartRaises, Stopped, StopRaises
<1>3. status' \in [Modules -> {"Offline", "Running", "Stopped"}]
  BY <1>2 DEF StateTyped
<1> QED  BY <1>1, <1>3 DEF StateTyped

LEMMA PlatformKeepsTypes ==
  ASSUME StateTyped, PlatformNext
  PROVE  StateTyped'
<1>1. ASSUME lifecycle' = lifecycle, status' = status PROVE StateTyped'
  BY <1>1 DEF StateTyped
<1>2. ASSUME NEW m, Register(m) \/ MarkFailed(m) PROVE StateTyped'
  BY <1>2 DEF StateTyped, Register, MarkFailed
<1>3. CASE DiscoverService
  <2>1. PICK m : Register(m)
    BY <1>3 DEF DiscoverService
  <2> QED  BY <1>2, <2>1
<1>4. CASE DiscoverFramework
  <2>1. PICK m : Register(m)
    BY <1>4 DEF DiscoverFramework
  <2> QED  BY <1>2, <2>1
<1>5. CASE ConfigureSubscriptions \/ RecordFrameworks \/ LoopDone \/ VerifyBoot
             \/ StartAll \/ StopAll
  BY <1>1, <1>5 DEF ConfigureSubscriptions, RecordFrameworks, LoopDone, VerifyBoot,
       StartAll, StopAll
<1>6. ASSUME NEW k,
             \/ Started(order[k]) \/ StartRaises(order[k])
             \/ Stopped(order[k]) \/ StopRaises(order[k])
             \/ UNCHANGED <<lifecycle, status>>
      PROVE  StateTyped'
  <2>1. PICK m : m = order[k]
    OBVIOUS
  <2> QED  BY <1>1, <1>6, <2>1, ModuleStepTyped
<1> PICK here : here = at
  OBVIOUS
<1>7. CASE StartNext
  BY <1>6, <1>7 DEF StartNext, Refused
<1>8. CASE StopNext
  BY <1>6, <1>8 DEF StopNext, Refused
<1>9. CASE RestartStart
  BY <1>6, <1>9 DEF RestartStart
<1>10. ASSUME NEW k \in 1..Len(order), Restart(k) PROVE StateTyped'
  BY <1>6, <1>10 DEF Restart, Refused
<1> QED
  BY <1>2, <1>3, <1>4, <1>5, <1>7, <1>8, <1>9, <1>10 DEF PlatformNext

\* What failed stays failed.
LEMMA FailedStays ==
  ASSUME StateTyped, PlatformNext, NEW m \in Modules, lifecycle[m] = "Failed"
  PROVE  lifecycle'[m] = "Failed" \/ doing \in {"services", "frameworks"}
<1>1. ASSUME NEW k, Started(k) \/ StartRaises(k) \/ Stopped(k) \/ StopRaises(k)
      PROVE  lifecycle'[m] = "Failed"
  <2>1. lifecycle[k] # "Failed"
    BY <1>1 DEF Started, StartRaises, Stopped, StopRaises, MayStart, MayStop
  <2> QED
    BY <1>1, <2>1 DEF StateTyped, Started, StartRaises, Stopped, StopRaises
<1>2. ASSUME lifecycle' = lifecycle PROVE lifecycle'[m] = "Failed"
  BY <1>2
<1>3. CASE DiscoverService \/ ConfigureSubscriptions \/ DiscoverFramework
             \/ RecordFrameworks \/ LoopDone \/ VerifyBoot \/ StartAll \/ StopAll
  BY <1>2, <1>3 DEF DiscoverService, ConfigureSubscriptions, DiscoverFramework,
       RecordFrameworks, LoopDone, VerifyBoot, StartAll, StopAll
<1>4. CASE \E k \in ToSet(order) : MarkFailed(k)
  BY <1>4 DEF MarkFailed, StateTyped
<1>5. CASE StartNext
  BY <1>1, <1>2, <1>5 DEF StartNext, Refused
<1>6. CASE StopNext
  BY <1>1, <1>2, <1>6 DEF StopNext, Refused
<1>7. CASE RestartStart
  BY <1>1, <1>7 DEF RestartStart
<1>8. CASE \E k \in 1..Len(order) : Restart(k)
  BY <1>1, <1>2, <1>8 DEF Restart, Refused
<1> QED  BY <1>3, <1>4, <1>5, <1>6, <1>7, <1>8 DEF PlatformNext

\* A module at a position of the loop starts or stops; a failure is excluded.
LEMMA SetPosition ==
  ASSUME StateTyped, \A m \in Modules : lifecycle[m] = status[m],
         NEW k \in 1..Len(InOrder), NEW v \in {"Running", "Stopped"},
         v = "Running" => Started(InOrder[k]), v = "Stopped" => Stopped(InOrder[k])
  PROVE  /\ \A m \in Modules : lifecycle'[m] = status'[m]
         /\ \A i \in 1..Len(InOrder) :
              status'[InOrder[i]] = IF i = k THEN v ELSE status[InOrder[i]]
<1> PICK m \in Modules : m = InOrder[k]
  BY InOrderFacts
<1>1. /\ lifecycle' = [lifecycle EXCEPT ![m] = v]
      /\ status' = [status EXCEPT ![m] = v]
  BY DEF Started, Stopped
<1>2. \A n \in Modules : /\ status'[n] = IF n = m THEN v ELSE status[n]
                         /\ lifecycle'[n] = IF n = m THEN v ELSE lifecycle[n]
  BY <1>1 DEF StateTyped
<1>3. \A i \in 1..Len(InOrder) : InOrder[i] \in Modules /\ (InOrder[i] = m <=> i = k)
  BY InOrderFacts
<1> QED  BY <1>2, <1>3

LEMMA PlatformStaysSound ==
  ASSUME SoundInv, PlatformNext
  PROVE  declared' /\ NoneFailed' => SoundLoops'
<1> SUFFICES ASSUME declared', NoneFailed' PROVE SoundLoops'
  OBVIOUS
<1>1. OrderInv /\ StateTyped
  BY DEF SoundInv
<1> PICK L : L = Len(InOrder)
  OBVIOUS
<1>2. L \in Nat
  BY InOrderFacts
<1>3. CASE VerifyBoot
  <2>1. /\ doing = "boot" /\ doing' = "idle" /\ lifecycle' = lifecycle /\ status' = status
        /\ \A m \in ToSet(order) : status[m] = "Running" /\ lifecycle[m] = "Running"
    BY <1>3 DEF VerifyBoot, Raise
  <2>2. order \in Seq(Modules) /\ Len(order) = L /\ \A i \in 1..L : order[i] = InOrder[i]
    BY <1>1, <2>1 DEF OrderInv
  <2>3. \A i \in 1..L : InOrder[i] \in ToSet(order)
    BY <2>2 DEF ToSet
  <2>4. \A m \in Modules : status[m] = "Running" /\ lifecycle[m] = "Running"
    BY <2>1, <2>3, InOrderFacts
  <2>5. AllAre("Running")'
    BY <2>1, <2>4, InOrderFacts DEF AllAre
  <2> QED  BY <2>1, <2>4, <2>5 DEF SoundLoops
<1>4. ASSUME ~VerifyBoot PROVE SoundLoops'
  <2>1. declared
    BY <1>4 DEF PlatformNext, DiscoverService, ConfigureSubscriptions, DiscoverFramework,
         RecordFrameworks, Register, StartNext, StopNext, LoopDone, StartAll, StopAll,
         Restart, RestartStart, MarkFailed, Command
  <2>2. doing \notin {"services", "frameworks", "boot"}
    BY <1>1, <2>1 DEF OrderInv
  <2>3. NoneFailed
    BY <1>1, <2>2, FailedStays DEF NoneFailed
  <2>4. SoundLoops
    BY <2>1, <2>3 DEF SoundInv
  <2>5. order \in Seq(Modules) /\ Len(order) = L /\ \A i \in 1..L : order[i] = InOrder[i]
    BY <1>1, <2>2 DEF OrderInv
  <2>6. \A m \in Modules : lifecycle[m] = status[m]
    BY <2>4 DEF SoundLoops
  <2>7. ~(DiscoverService \/ ConfigureSubscriptions \/ DiscoverFramework \/ RecordFrameworks)
    BY <2>2 DEF DiscoverService, ConfigureSubscriptions, DiscoverFramework, RecordFrameworks
  \* A module that fails is not sound any more.
  <2>8. ASSUME NEW m \in Modules, lifecycle' = [lifecycle EXCEPT ![m] = "Failed"]
        PROVE  FALSE
    BY <1>1, <2>8 DEF StateTyped, NoneFailed
  <2>9. ASSUME NEW k \in 1..L, StartRaises(order[k]) \/ StopRaises(order[k]) PROVE FALSE
    <3> PICK m \in Modules : m = order[k]
      BY <2>5, InOrderFacts
    <3> QED  BY <2>8, <2>9 DEF StartRaises, StopRaises
  <2>10. CASE StartNext
    <3>1. /\ doing = "start_all" /\ at \in 1..(L + 1) /\ at <= L
          /\ SplitAt(at - 1, "Running", "Stopped") \/ (at = 1 /\ AllAre("Running"))
      BY <2>2, <2>4, <2>5, <2>10 DEF StartNext, SoundLoops
    <3>2. at \in 1..L /\ order[at] = InOrder[at]
      BY <1>2, <2>5, <3>1
    <3> PICK k \in 1..L : k = at
      BY <3>2
    <3>3. CASE Started(order[at]) /\ Advance(at + 1)
      <4>1. /\ Started(InOrder[k]) /\ at' = k + 1 /\ doing' = "start_all"
        BY <3>1, <3>2, <3>3 DEF Advance
      <4>2. /\ \A m \in Modules : lifecycle'[m] = status'[m]
            /\ \A i \in 1..L : status'[InOrder[i]] = IF i = k THEN "Running"
                                                    ELSE status[InOrder[i]]
        BY <1>1, <2>6, <4>1, SetPosition
      <4>3. InOrder[k] \in Modules
        BY InOrderFacts
      <4>4. status[InOrder[k]] # "Running"
        BY <2>6, <4>1, <4>3 DEF Started, MayStart
      <4>5. SplitAt(k - 1, "Running", "Stopped")
        BY <3>1, <4>4 DEF AllAre
      <4>6. \A i \in 1..L : status'[InOrder[i]] = IF i <= k THEN "Running" ELSE "Stopped"
        BY <1>2, <4>2, <4>5 DEF SplitAt
      <4>7. SplitAt(k, "Running", "Stopped")' /\ (k + 1) - 1 = k /\ k + 1 \in 1..(L + 1)
        BY <1>2, <4>6 DEF SplitAt
      <4> QED  BY <4>1, <4>2, <4>7 DEF SoundLoops
    <3>4. CASE Refused(MayStart(order[at])) /\ Raise
      <4>1. /\ ~MayStart(InOrder[k]) /\ lifecycle' = lifecycle /\ status' = status
            /\ doing' = "idle"
        BY <3>2, <3>4 DEF Refused, Raise
      <4>2. InOrder[k] \in Modules
        BY InOrderFacts
      <4>3. status[InOrder[k]] # "Stopped"
        BY <2>6, <4>1, <4>2 DEF MayStart
      <4>4. ~(k <= k - 1)
        BY <1>2
      <4>5. AllAre("Running")
        BY <3>1, <4>3, <4>4 DEF SplitAt
      <4>6. AllAre("Running")'
        BY <4>1, <4>5 DEF AllAre
      <4> QED  BY <2>6, <4>1, <4>6 DEF SoundLoops
    <3> QED  BY <2>9, <2>10, <3>2, <3>3, <3>4 DEF StartNext
  <2>11. CASE StopNext
    <3>1. /\ doing = "stop_all" /\ at \in 0..L /\ at >= 1
          /\ SplitAt(at, "Running", "Stopped") \/ (at = L /\ AllAre("Stopped"))
      BY <2>4, <2>11 DEF StopNext, SoundLoops
    <3>2. at \in 1..L /\ order[at] = InOrder[at]
      BY <1>2, <2>5, <3>1
    <3> PICK k \in 1..L : k = at
      BY <3>2
    <3>3. CASE Stopped(order[at]) /\ Advance(at - 1)
      <4>1. /\ Stopped(InOrder[k]) /\ at' = k - 1 /\ doing' = "stop_all"
        BY <3>1, <3>2, <3>3 DEF Advance
      <4>2. /\ \A m \in Modules : lifecycle'[m] = status'[m]
            /\ \A i \in 1..L : status'[InOrder[i]] = IF i = k THEN "Stopped"
                                                    ELSE status[InOrder[i]]
        BY <1>1, <2>6, <4>1, SetPosition
      <4>3. InOrder[k] \in Modules
        BY InOrderFacts
      <4>4. status[InOrder[k]] = "Running"
        BY <2>6, <4>1, <4>3 DEF Stopped, MayStop
      <4>5. SplitAt(k, "Running", "Stopped")
        BY <3>1, <4>4 DEF AllAre
      <4>6. \A i \in 1..L : status'[InOrder[i]] = IF i <= k - 1 THEN "Running" ELSE "Stopped"
        BY <1>2, <4>2, <4>5 DEF SplitAt
      <4>7. SplitAt(k - 1, "Running", "Stopped")' /\ k - 1 \in 0..L
        BY <1>2, <4>6 DEF SplitAt
      <4> QED  BY <4>1, <4>2, <4>7 DEF SoundLoops
    <3>4. CASE Refused(MayStop(order[at])) /\ Raise
      <4>1. /\ ~MayStop(InOrder[k]) /\ lifecycle' = lifecycle /\ status' = status
            /\ doing' = "idle"
        BY <3>2, <3>4 DEF Refused, Raise
      <4>2. InOrder[k] \in Modules
        BY InOrderFacts
      <4>3. status[InOrder[k]] # "Running"
        BY <2>6, <4>1, <4>2 DEF MayStop
      <4>4. k <= k
        BY <1>2
      <4>5. AllAre("Stopped")
        BY <3>1, <4>3, <4>4 DEF SplitAt
      <4>6. AllAre("Stopped")'
        BY <4>1, <4>5 DEF AllAre
      <4> QED  BY <2>6, <4>1, <4>6 DEF SoundLoops
    <3> QED  BY <2>9, <2>11, <3>2, <3>3, <3>4 DEF StopNext
  <2>12. ASSUME lifecycle' = lifecycle, status' = status, NEW state, AllAre(state)
         PROVE  AllAre(state)' /\ \A m \in Modules : lifecycle'[m] = status'[m]
    BY <2>6, <2>12 DEF AllAre
  <2>13. CASE LoopDone
    <3>1. lifecycle' = lifecycle /\ status' = status /\ doing' = "idle"
      BY <2>13 DEF LoopDone, Raise
    <3>2. CASE doing = "start_all" /\ at > L
      <4>1. /\ at \in 1..(L + 1)
            /\ SplitAt(at - 1, "Running", "Stopped") \/ (at = 1 /\ AllAre("Running"))
        BY <2>4, <3>2 DEF SoundLoops
      <4>2. at - 1 = L
        BY <1>2, <3>2, <4>1
      <4>3. AllAre("Running")
        BY <1>2, <4>1, <4>2 DEF AllAre, SplitAt
      <4> QED  BY <2>12, <3>1, <4>3 DEF SoundLoops
    <3>3. CASE doing = "stop_all" /\ at = 0
      <4>1. SplitAt(at, "Running", "Stopped") \/ (at = L /\ AllAre("Stopped"))
        BY <2>4, <3>3 DEF SoundLoops
      <4>2. AllAre("Stopped")
        BY <1>2, <3>3, <4>1 DEF AllAre, SplitAt
      <4> QED  BY <2>12, <3>1, <4>2 DEF SoundLoops
    <3>4. (doing = "start_all" /\ at > L) \/ (doing = "stop_all" /\ at = 0)
      BY <2>5, <2>13 DEF LoopDone
    <3> QED  BY <3>2, <3>3, <3>4
  <2>14. CASE StartAll \/ StopAll
    <3>1. /\ doing = "idle" /\ lifecycle' = lifecycle /\ status' = status
          /\ \/ doing' = "start_all" /\ at' = 1
             \/ doing' = "stop_all" /\ at' = L
      BY <2>5, <2>14 DEF StartAll, StopAll, Command
    <3>2. AllAre("Running") \/ AllAre("Stopped")
      BY <2>4, <3>1 DEF SoundLoops
    <3>3. 1 \in 1..(L + 1) /\ L \in 0..L /\ 1 - 1 = 0
      BY <1>2
    <3>4. /\ \A m \in Modules : lifecycle'[m] = status'[m]
          /\ AllAre("Running") => AllAre("Running")'
          /\ AllAre("Stopped") => AllAre("Stopped")'
      BY <2>6, <3>1 DEF AllAre
    <3>5. /\ AllAre("Stopped") => SplitAt(0, "Running", "Stopped")'
          /\ AllAre("Running") => SplitAt(L, "Running", "Stopped")'
      BY <1>2, <3>1 DEF AllAre, SplitAt
    <3> QED  BY <3>1, <3>2, <3>3, <3>4, <3>5 DEF SoundLoops
  <2>15. ASSUME NEW k \in 1..Len(order), Restart(k) PROVE SoundLoops'
    <3>1. k \in 1..L /\ order[k] = InOrder[k] /\ doing = "idle"
      BY <2>5, <2>15 DEF Restart, Command
    <3>2. CASE Stopped(order[k]) /\ doing' = "restart" /\ at' = k
      <4>1. /\ \A m \in Modules : lifecycle'[m] = status'[m]
            /\ \A i \in 1..L : status'[InOrder[i]] = IF i = k THEN "Stopped"
                                                    ELSE status[InOrder[i]]
        BY <1>1, <2>6, <3>1, <3>2, SetPosition
      <4>2. InOrder[k] \in Modules
        BY <3>1, InOrderFacts
      <4>3. status[InOrder[k]] = "Running"
        BY <2>6, <3>1, <3>2, <4>2 DEF Stopped, MayStop
      <4>4. AllAre("Running")
        BY <2>4, <3>1, <4>3 DEF SoundLoops, AllAre
      <4>5. \A i \in 1..L : status'[InOrder[i]] = IF i = k THEN "Stopped" ELSE "Running"
        BY <4>1, <4>4 DEF AllAre
      <4> QED  BY <3>1, <3>2, <4>1, <4>5 DEF SoundLoops
    <3>3. CASE Refused(MayStop(order[k])) /\ UNCHANGED <<doing, at>>
      <4>1. lifecycle' = lifecycle /\ status' = status /\ doing' = "idle"
        BY <3>1, <3>3 DEF Refused
      <4>2. AllAre("Running") \/ AllAre("Stopped")
        BY <2>4, <3>1 DEF SoundLoops
      <4> QED  BY <2>12, <4>1, <4>2 DEF SoundLoops
    <3> QED  BY <2>9, <2>15, <3>1, <3>2, <3>3 DEF Restart
  <2>16. CASE RestartStart
    <3>1. /\ doing = "restart" /\ doing' = "idle" /\ at \in 1..L
          /\ \A i \in 1..L : status[InOrder[i]] = IF i = at THEN "Stopped" ELSE "Running"
      BY <2>4, <2>16 DEF RestartStart, SoundLoops, Raise
    <3> PICK k \in 1..L : k = at
      BY <3>1
    <3>2. order[k] = InOrder[k] /\ Started(InOrder[k])
      BY <2>5, <2>9, <2>16 DEF RestartStart
    <3>3. /\ \A m \in Modules : lifecycle'[m] = status'[m]
          /\ \A i \in 1..L : status'[InOrder[i]] = IF i = k THEN "Running"
                                                  ELSE status[InOrder[i]]
      BY <1>1, <2>6, <3>2, SetPosition
    <3>4. AllAre("Running")'
      BY <3>1, <3>3 DEF AllAre
    <3> QED  BY <3>1, <3>3, <3>4 DEF SoundLoops
  <2>17. ASSUME NEW m \in ToSet(order), MarkFailed(m) PROVE FALSE
    <3>1. m \in Modules
      BY <2>5 DEF ToSet
    <3> QED  BY <2>8, <2>17, <3>1 DEF MarkFailed
  <2> QED
    BY <1>4, <2>7, <2>10, <2>11, <2>13, <2>14, <2>15, <2>16, <2>17 DEF PlatformNext
<1> QED  BY <1>3, <1>4

LEMMA SoundInvStarts ==
  ASSUME Init
  PROVE  SoundInv
<1>1. /\ order = << >> /\ doing = "services" /\ ~declared
      /\ lifecycle = [m \in Modules |-> "Created"]
      /\ status = [m \in Modules |-> "Offline"]
  BY DEF Init, PlatformInit
<1>2. order \in Seq(Modules) /\ Len(order) = 0
  BY <1>1
<1>3. OrderInv
  BY <1>1, <1>2, InOrderFacts DEF OrderInv
<1>4. StateTyped
  BY <1>1 DEF StateTyped
<1> QED  BY <1>1, <1>3, <1>4 DEF SoundInv

\* The pipeline leaves the manager alone.
LEMMA PipelineLeavesPlatform ==
  ASSUME [Next]_vars
  PROVE  \/ PlatformNext
         \/ UNCHANGED <<doing, at, order, lifecycle, status, declared>>
<1> DEFINE still == UNCHANGED <<doing, at, order, lifecycle, status, declared>>
<1>1. CASE PlatformSteps \/ SecurityCoreChanges \/ StartEngine \/ UNCHANGED vars
  BY <1>1 DEF PlatformSteps, SecurityCoreChanges, StartEngine, vars, platformVars
<1>2. ASSUME NEW c \in Callers,
             \/ \E r \in Requests : BeginExecute(c, r)
             \/ \E id \in Ids : BeginReplay(c, id)
      PROVE  still
  BY <1>2 DEF BeginExecute, BeginReplay, Begin, platformVars
<1>3. ASSUME NEW c \in Callers,
             \/ StagePasses(c) \/ StageRefused(c) \/ AssignmentFails(c)
             \/ TransitionRaises(c) \/ SubscriberRaises(c)
      PROVE  still
  BY <1>3 DEF StagePasses, StageRefused, AssignmentFails, TransitionRaises,
              SubscriberRaises, Unaffected
<1>4. ASSUME NEW c \in Callers, EndExecute(c) \/ EndReplay(c)
      PROVE  still
  BY <1>4 DEF EndExecute, EndReplay, platformVars
<1> QED  BY <1>1, <1>2, <1>3, <1>4 DEF Next

LEMMA SoundInvKept ==
  ASSUME SoundInv, [Next]_vars
  PROVE  SoundInv'
<1>1. CASE PlatformNext
  BY <1>1, PlatformKeepsOrder, PlatformKeepsTypes, PlatformStaysSound DEF SoundInv
<1>2. CASE UNCHANGED <<doing, at, order, lifecycle, status, declared>>
  BY <1>2 DEF SoundInv, OrderInv, StateTyped, NoneFailed, SoundLoops, AllAre, SplitAt
<1> QED  BY <1>1, <1>2, PipelineLeavesPlatform

StopsAll ==
  doing = "stop_all" /\ doing' = "idle" /\ declared
      /\ (\A m \in Modules : lifecycle'[m] # "Failed")
    => \A m \in Modules : status'[m] = "Stopped"

LEMMA NextStopsAll ==
  ASSUME SoundInv, [Next]_vars
  PROVE  StopsAll
<1> SUFFICES ASSUME doing = "stop_all", doing' = "idle", declared, NoneFailed'
             PROVE  \A m \in Modules : status'[m] = "Stopped"
  BY DEF StopsAll, NoneFailed
<1>1. PlatformNext
  BY PipelineLeavesPlatform
<1>2. OrderInv /\ StateTyped
  BY DEF SoundInv
<1> PICK L : L = Len(InOrder)
  OBVIOUS
<1>3. L \in Nat
  BY InOrderFacts
<1>4. NoneFailed
  BY <1>1, <1>2, FailedStays DEF NoneFailed
<1>5. /\ \A m \in Modules : lifecycle[m] = status[m]
      /\ at \in 0..L
      /\ SplitAt(at, "Running", "Stopped") \/ (at = L /\ AllAre("Stopped"))
  BY <1>4 DEF SoundInv, SoundLoops
<1>6. order \in Seq(Modules) /\ Len(order) = L /\ \A i \in 1..L : order[i] = InOrder[i]
  BY <1>2 DEF OrderInv
<1>7. StopNext \/ LoopDone
  BY <1>1 DEF PlatformNext, DiscoverService, ConfigureSubscriptions, DiscoverFramework,
     RecordFrameworks, Register, StartNext, VerifyBoot, StartAll, StopAll, Restart,
     RestartStart, MarkFailed, Command
<1>8. AllAre("Stopped") /\ status' = status
  <2>1. CASE LoopDone
    <3>1. at = 0 /\ status' = status
      BY <2>1 DEF LoopDone
    <3>2. AllAre("Stopped")
      BY <1>3, <1>5, <3>1 DEF AllAre, SplitAt
    <3> QED  BY <3>1, <3>2
  <2>2. CASE StopNext
    <3>1. at \in 1..L
      BY <1>3, <1>5, <2>2 DEF StopNext
    <3> PICK k \in 1..L : k = at
      BY <3>1
    <3> PICK m \in Modules : m = InOrder[k] /\ m = order[k]
      BY <1>6, InOrderFacts
    <3>2. ~StopRaises(m)
      BY <1>2 DEF StopRaises, StateTyped, NoneFailed
    <3>3. Refused(MayStop(m))
      BY <2>2, <3>2 DEF StopNext, Advance
    <3>4. status[m] # "Running" /\ status' = status
      BY <1>5, <3>3 DEF Refused, MayStop
    <3>5. k <= k
      BY <1>3
    <3>6. AllAre("Stopped")
      BY <1>5, <3>4, <3>5 DEF SplitAt
    <3> QED  BY <3>4, <3>6
  <2> QED  BY <1>7, <2>1, <2>2
<1> QED  BY <1>8, InOrderFacts DEF AllAre

\* StopAllStopsASoundPlatform: while nothing failed, the manager's loops leave
\* all modules running or all stopped, in whatever order they were discovered.
THEOREM StopAllAlwaysStopsASoundPlatform == Spec => StopAllStopsASoundPlatform
<1>1. SoundInv /\ [Next]_vars => [StopsAll]_vars
  BY NextStopsAll
<1>2. [StopsAll]_vars <=>
        [doing = "stop_all" /\ doing' = "idle" /\ declared
           /\ (\A m \in Modules : lifecycle'[m] # "Failed")
         => \A m \in Modules : status'[m] = "Stopped"]_vars
  BY DEF StopsAll
<1> QED
  BY <1>1, <1>2, SoundInvStarts, SoundInvKept, PTL DEF Spec, StopAllStopsASoundPlatform
=============================================================================
