--------------------------- MODULE EvidenceLedger ---------------------------
(***************************************************************************)
(* What the evidence lifecycle promises: evidence is committed finding by  *)
(* finding, each at most once and only after an approval, an entry never   *)
(* changes, and an entry is backed by a row that was in the registry when  *)
(* it was made.  Once an entry is damaged the ledger accepts no other.     *)
(***************************************************************************)
CONSTANT Findings

VARIABLES
  approved,   \* findings some authority has approved
  rows,       \* registry rows: pairs of a number and the finding it asserts
  entries,    \* ledger entries: pairs of a registry number and a finding
  damaged     \* an entry was left half written

vars == <<approved, rows, entries, damaged>>

Init == approved = {} /\ rows = {} /\ entries = {} /\ damaged = FALSE

Approve(finding) ==
  /\ approved' = approved \union {finding}
  /\ UNCHANGED <<rows, entries, damaged>>

Register ==
  /\ rows \subseteq rows'
  /\ \A row \in rows' \ rows :
       row[2] \in approved /\ \A old \in rows : old[1] # row[1]
  /\ UNCHANGED <<approved, entries, damaged>>

Commit(row) ==
  /\ ~damaged
  /\ row[2] \in approved
  /\ \A entry \in entries : entry[2] # row[2]
  /\ entries' = entries \union {row}
  /\ UNCHANGED <<approved, rows, damaged>>

Damage ==
  /\ ~damaged
  /\ damaged' = TRUE
  /\ UNCHANGED <<approved, rows, entries>>

Next ==
  \/ \E finding \in Findings : Approve(finding)
  \/ Register
  \/ \E row \in rows : Commit(row)
  \/ Damage

Spec == Init /\ [][Next]_vars

-----------------------------------------------------------------------------

\* A finding is never committed twice.
CommittedOnce ==
  \A one, other \in entries : one[2] = other[2] => one = other

\* Nothing is committed that nobody approved or the registry does not hold.
CommittedIsBacked == \A entry \in entries : entry[2] \in approved /\ entry \in rows
=============================================================================
