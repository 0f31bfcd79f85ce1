---------------------- MODULE InfrastructureProperties ----------------------
(***************************************************************************)
(* What the services of the infrastructure registry promise when several   *)
(* callers use them at once.  The repository overwrites whole rows, so a   *)
(* caller may undo what another one did since it read; the properties say  *)
(* that nothing else goes wrong.                                           *)
(***************************************************************************)
EXTENDS Infrastructure

\* Where a row is in its life.
Age(state) ==
  CASE state = "PLANNED" -> 0
    [] state \in {"ACTIVE", "INACTIVE"} -> 1
    [] state = "RETIRED" -> 2
    [] state = "ARCHIVED" -> 3

\* The row caller c is about to write is still the one it read.
Fresh(c) == rows[job[c].kind][job[c].id] = job[c].seen

\* A row never grows younger, and one that was in service is archived only
\* after it was retired, except by a caller that overwrites a change made
\* since it read the row: validate_transition looks at what was read.
LivesGoForward ==
  [][\A c \in Callers :
       job[c].at = "write" /\ job'[c] = Idle /\ Fresh(c) /\ rows' # rows =>
         LET old == rows[job[c].kind][job[c].id]
             new == rows'[job[c].kind][job[c].id]
         IN /\ Age(old.status) <= Age(new.status)
            /\ Age(old.status) = 1 => Age(new.status) # 3]_vars

Unique(table) ==
  \A i, j \in DOMAIN table : Duplicates(table[i], table[j]) => i = j

\* No name and no external identifier comes to be there twice, in whatever
\* spelling, except by a caller whose row, or the table it compared it with,
\* has changed since it looked.
DuplicatesComeFromStaleReads ==
  [][\A kind \in Kinds, c \in Callers :
       /\ job[c] # Idle /\ job'[c] = Idle /\ job[c].kind = kind
       /\ Unique(rows[kind]) /\ ~Unique(rows'[kind])
       => \/ job[c].at = "write" /\ ~Fresh(c)
          \/ \E table \in job[c].listed : rows[kind] # table]_vars
=============================================================================
