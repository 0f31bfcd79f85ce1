--------------------------- MODULE Infrastructure ---------------------------
(***************************************************************************)
(* The infrastructure registry: organizations, their facilities, and the   *)
(* two services over the repository.  Every repository call opens its own  *)
(* connection, so a service call is a series of reads and one write, and   *)
(* the calls of several callers interleave in between.  A call that is cut *)
(* short before its write leaves nothing, like one that never goes on.     *)
(*                                                                         *)
(* A row is named by its place in its table; nothing is ever deleted.      *)
(* Names stand for themselves up to case; external identifiers do not,     *)
(* since the table compares them as they are spelled.                      *)
(***************************************************************************)
EXTENDS Naturals, Sequences

CONSTANTS
  Null,          \* no external identifier
  Callers,       \* threads or processes that call the services
  Names,         \* names of organizations and facilities
  ExternalIds,   \* external identifiers a caller may give, as spelled
  Fold,          \* Fold[x]: external identifier x up to case
  CreatedAs,     \* states a caller may create a row in
  Existing,      \* the rows there are to begin with
  MaxCalls       \* bound: calls made

VARIABLES
  rows,    \* rows[kind]: the table of organizations or of facilities
  job,     \* job[c]: the call caller c is in the middle of
  calls    \* calls made

vars == <<rows, job, calls>>

Kinds == {"organization", "facility"}

States == {"PLANNED", "ACTIVE", "INACTIVE", "RETIRED", "ARCHIVED"}

\* What the two tables have in common; an organization has parent 0.
Row ==
  [name: Names, ext: ExternalIds \union {Null}, status: States,
   version: Nat, parent: Nat]

ASSUME InfrastructureAssumption ==
  /\ Null \notin ExternalIds
  /\ CreatedAs \subseteq States
  /\ Existing \in [Kinds -> Seq(Row)]
  /\ MaxCalls \in Nat

\* Mutant: what was archived may be activated.
AllowedFromArchived(state) ==
  CASE state = "PLANNED" -> {"ACTIVE", "ARCHIVED"}
    [] state = "ACTIVE" -> {"INACTIVE", "RETIRED"}
    [] state = "INACTIVE" -> {"ACTIVE", "RETIRED"}
    [] state = "RETIRED" -> {"ARCHIVED"}
    [] OTHER -> {"ACTIVE"}

Allowed(state) ==
  CASE state = "PLANNED" -> {"ACTIVE", "ARCHIVED"}
    [] state = "ACTIVE" -> {"INACTIVE", "RETIRED"}
    [] state = "INACTIVE" -> {"ACTIVE", "RETIRED"}
    [] state = "RETIRED" -> {"ARCHIVED"}
    [] OTHER -> {}

\* A row may always stay as it is, and is written all the same.
Valid(state, target) == state = target \/ target \in Allowed(state)

Eligible(organization) ==
  rows["organization"][organization].status \in {"PLANNED", "ACTIVE", "INACTIVE"}

Idle == [at |-> "idle"]

Init ==
  /\ rows = Existing
  /\ job = [c \in Callers |-> Idle]
  /\ calls = 0

\* What two rows of one table may not share, up to case: a name, among the
\* facilities of one organization, and an external identifier.
Duplicates(row, other) ==
  \/ row.parent = other.parent /\ row.name = other.name
  \/ /\ row.ext # Null /\ other.ext # Null
     /\ Fold[row.ext] = Fold[other.ext]

\* Clashes(kind, id, row): row, to be written in place id, duplicates another.
Clashes(kind, id, row) ==
  \E other \in DOMAIN rows[kind] \ {id} : Duplicates(row, rows[kind][other])

\* The UNIQUE constraint of external_id, as spelled.
Taken(kind, id, row) ==
  \E other \in DOMAIN rows[kind] \ {id} :
    row.ext # Null /\ rows[kind][other].ext = row.ext

-----------------------------------------------------------------------------
(* The first read of a call.  A job holds the row as it was read (seen), the *)
(* row as it will be written (row), and the tables its uniqueness was checked *)
(* in (listed): none, or one.                                                *)

Begin(c, next) ==
  /\ job[c] = Idle
  /\ calls < MaxCalls
  /\ calls' = calls + 1
  /\ job' = [job EXCEPT ![c] = next]
  /\ UNCHANGED rows

Call(kind, id, at, seen, row) ==
  [at |-> at, kind |-> kind, id |-> id, seen |-> seen, row |-> row,
   listed |-> {}]

New(name, ext, status, parent) ==
  [name |-> name, ext |-> ext, status |-> status, version |-> 1,
   parent |-> parent]

CreateOrganization(c) ==
  \E name \in Names, ext \in ExternalIds \union {Null}, status \in CreatedAs :
    LET row == New(name, ext, status, 0)
    IN Begin(c, IF Clashes("organization", 0, row) THEN Idle
                ELSE [Call("organization", 0, "insert", row, row) EXCEPT
                        !.listed = {rows["organization"]}])

CreateFacility(c) ==
  \E name \in Names, ext \in ExternalIds \union {Null}, status \in CreatedAs,
     parent \in DOMAIN rows["organization"] :
    LET row == New(name, ext, status, parent)
    IN Begin(c, IF Eligible(parent)
                THEN Call("facility", 0, "check", row, row)
                ELSE Idle)

\* A call that changes field to value, checks it and writes the whole row.
Change(c, kind, field, value) ==
  \E id \in DOMAIN rows[kind] :
    LET row == rows[kind][id]
    IN Begin(c, Call(kind, id, "check", row, [row EXCEPT ![field] = value]))

Rename(c) ==
  \E kind \in Kinds, name \in Names : Change(c, kind, "name", name)

ChangeExternalId(c) ==
  \E kind \in Kinds, ext \in ExternalIds \union {Null} :
    Change(c, kind, "ext", ext)

\* Mutant: the names of the organization a facility moves to are not checked.
MoveUnchecked(c) ==
  \E id \in DOMAIN rows["facility"], target \in DOMAIN rows["organization"] :
    LET row == rows["facility"][id]
    IN Begin(c, Call("facility", id, "version", row, [row EXCEPT !.parent = target]))

Move(c) ==
  \E id \in DOMAIN rows["facility"], target \in DOMAIN rows["organization"] :
    LET row == rows["facility"][id]
    IN Begin(c, Call("facility", id, "target", row, [row EXCEPT !.parent = target]))

\* What a call that reads row of kind and wants it in state target does next.
Transiting(kind, id, row, target) ==
  IF Valid(row.status, target)
  THEN Call(kind, id, "version", row, [row EXCEPT !.status = target])
  ELSE Idle

Transition(c) ==
  \E kind \in Kinds, target \in States :
    \E id \in DOMAIN rows[kind] :
      Begin(c, Transiting(kind, id, rows[kind][id], target))

\* Activating a facility looks at its organization first.
ActivateFacility(c) ==
  \E id \in DOMAIN rows["facility"] :
    LET row == rows["facility"][id]
    IN Begin(c, Call("facility", id, "parent", row, row))

-----------------------------------------------------------------------------

Step(c, at, next, table) ==
  /\ job[c].at = at
  /\ job' = [job EXCEPT ![c] = next]
  /\ rows' = [rows EXCEPT ![job[c].kind] = table]
  /\ UNCHANGED calls

Table(c) == rows[job[c].kind]

ReadTarget(c) ==
  Step(c, "target",
       IF Eligible(job[c].row.parent) /\ job[c].row.parent # job[c].seen.parent
       THEN [job[c] EXCEPT !.at = "check"] ELSE Idle,
       Table(c))

ReadParent(c) ==
  Step(c, "parent",
       IF Eligible(job[c].row.parent) THEN [job[c] EXCEPT !.at = "facility"]
       ELSE Idle,
       Table(c))

\* transition reads the facility again.
ReadFacility(c) ==
  Step(c, "facility",
       Transiting("facility", job[c].id, Table(c)[job[c].id], "ACTIVE"),
       Table(c))

EnsureUnique(c) ==
  Step(c, "check",
       IF Clashes(job[c].kind, job[c].id, job[c].row) THEN Idle
       ELSE [job[c] EXCEPT !.at = IF job[c].id = 0 THEN "insert" ELSE "version",
                           !.listed = {Table(c)}],
       Table(c))

\* update reads the version on a connection of its own ...
ReadVersion(c) ==
  Step(c, "version",
       [job[c] EXCEPT !.at = "write",
                      !.row.version = Table(c)[job[c].id].version + 1],
       Table(c))

\* ... and writes every column on another, whatever the row has become.
Write(c) ==
  Step(c, "write", Idle,
       IF Taken(job[c].kind, job[c].id, job[c].row) THEN Table(c)
       ELSE [Table(c) EXCEPT ![job[c].id] = job[c].row])

Insert(c) ==
  Step(c, "insert", Idle,
       IF Taken(job[c].kind, 0, job[c].row) THEN Table(c)
       ELSE Append(Table(c), job[c].row))

Proceed(c) ==
  \/ ReadTarget(c)
  \/ ReadParent(c)
  \/ ReadFacility(c)
  \/ EnsureUnique(c)
  \/ ReadVersion(c)
  \/ Write(c)
  \/ Insert(c)

Next ==
  \E c \in Callers :
    \/ CreateOrganization(c)
    \/ CreateFacility(c)
    \/ Rename(c)
    \/ ChangeExternalId(c)
    \/ Move(c)
    \/ Transition(c)
    \/ ActivateFacility(c)
    \/ Proceed(c)

Spec == Init /\ [][Next]_vars
=============================================================================
