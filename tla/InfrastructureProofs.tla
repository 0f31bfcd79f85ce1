------------------------ MODULE InfrastructureProofs ------------------------
(***************************************************************************)
(* The two properties of the infrastructure registry hold for any number   *)
(* of callers, rows and calls.  The invariant says what a job knows: its   *)
(* row is one that may follow the row it read, and was compared with the   *)
(* tables it lists, or shares with the row it read all that is compared.   *)
(***************************************************************************)
EXTENDS InfrastructureProperties, TLAPS

Steps == {"target", "parent", "facility", "check", "version", "write", "insert"}

Job ==
  [at: Steps, kind: Kinds, id: Nat, seen: Row, row: Row,
   listed: SUBSET Seq(Row)]

\* A job that inserts has no place yet; every other one that writes has one.
InPlace(j, tables) ==
  /\ j.at = "insert" => j.id = 0
  /\ j.at \notin {"insert", "check"} => j.id # 0
  /\ j.id # 0 => j.id \in DOMAIN tables[j.kind]
  /\ j.at \in {"parent", "facility"} => j.kind = "facility"

Legal(j) == Valid(j.seen.status, j.row.status)

SameKey(row, other) ==
  row.parent = other.parent /\ row.name = other.name /\ row.ext = other.ext

ComparedWith(j, table) ==
  \A other \in DOMAIN table \ {j.id} : ~Duplicates(j.row, table[other])

Compared(j) ==
  /\ j.at \in {"parent", "facility"} => SameKey(j.row, j.seen)
  /\ j.at \in {"version", "write"} /\ j.listed = {} => SameKey(j.row, j.seen)
  /\ j.at = "insert" => j.listed # {}
  /\ \A table \in j.listed : ComparedWith(j, table)

Good(j, tables) ==
  j = Idle \/ (j \in Job /\ InPlace(j, tables) /\ Legal(j) /\ Compared(j))

Tables == [Kinds -> Seq(Row)]

Inv ==
  /\ rows \in Tables
  /\ job \in [Callers -> Job \union {Idle}]
  /\ \A c \in Callers : Good(job[c], rows)

-----------------------------------------------------------------------------

LEMMA InitInv == Init => Inv
  BY InfrastructureAssumption DEF Init, Inv, Tables, Good

\* A caller's step keeps the invariant if its own job stays good and tables
\* lose no row.
LEMMA Frame ==
  ASSUME Inv, NEW c \in Callers, NEW next,
         job' = [job EXCEPT ![c] = next],
         rows' \in Tables,
         \A kind \in Kinds : DOMAIN rows[kind] \subseteq DOMAIN rows'[kind],
         Good(next, rows')
  PROVE  Inv'
<1>1. next \in Job \union {Idle}
  BY DEF Good
<1>2. job' \in [Callers -> Job \union {Idle}]
  BY <1>1 DEF Inv
<1>3. ASSUME NEW d \in Callers PROVE Good(job'[d], rows')
  <2>1. CASE d = c
    BY <2>1 DEF Inv
  <2>2. CASE d # c
    <3>1. job'[d] = job[d]
      BY <2>2 DEF Inv
    <3>2. Good(job[d], rows)
      BY DEF Inv
    <3>3. CASE job[d] = Idle
      BY <3>1, <3>3 DEF Good
    <3>4. CASE job[d] \in Job /\ InPlace(job[d], rows) /\ Legal(job[d]) /\ Compared(job[d])
      <4>1. job[d].kind \in Kinds
        BY <3>4 DEF Job
      <4>2. InPlace(job[d], rows')
        BY <3>4, <4>1 DEF InPlace
      <4> QED BY <3>1, <3>4, <4>2 DEF Good
    <3> QED BY <3>2, <3>3, <3>4 DEF Good
  <2> QED BY <2>1, <2>2
<1> QED BY <1>2, <1>3 DEF Inv

LEMMA IdleIsNoJob == ASSUME NEW j \in Job PROVE j # Idle
  BY DEF Job, Idle, Steps

\* What a caller in the middle of a call knows.
LEMMA Working ==
  ASSUME Inv, NEW c \in Callers, job[c].at # "idle"
  PROVE  /\ job[c] \in Job
         /\ InPlace(job[c], rows) /\ Legal(job[c]) /\ Compared(job[c])
  BY DEF Inv, Good, Idle

LEMMA ValidSelf == \A state : Valid(state, state)
  BY DEF Valid

LEMMA NewIsRow ==
  ASSUME NEW name \in Names, NEW ext \in ExternalIds \union {Null},
         NEW status \in CreatedAs, NEW parent \in Nat
  PROVE  New(name, ext, status, parent) \in Row
  BY InfrastructureAssumption DEF New, Row

LEMMA BeginFrame ==
  ASSUME Inv, NEW c \in Callers, NEW next, Begin(c, next), Good(next, rows)
  PROVE  Inv'
<1>1. rows' = rows /\ job' = [job EXCEPT ![c] = next]
  BY DEF Begin
<1>2. rows' \in Tables /\ Good(next, rows')
  BY <1>1 DEF Inv
<1> QED BY <1>1, <1>2, Frame

LEMMA ReadFrame ==
  ASSUME Inv, NEW c \in Callers, NEW at \in Steps, NEW next,
         Step(c, at, next, Table(c)), Good(next, rows)
  PROVE  Inv'
<1>1. job[c] \in Job
  BY Working DEF Step, Steps
<1>2. job[c].kind \in Kinds
  BY <1>1 DEF Job
<1>3. rows' = rows /\ job' = [job EXCEPT ![c] = next]
  BY <1>2 DEF Step, Table, Inv, Tables
<1>4. rows' \in Tables /\ Good(next, rows')
  BY <1>3 DEF Inv
<1> QED BY <1>3, <1>4, Frame

\* A call that has read a row of a table.
LEMMA CallIsJob ==
  ASSUME NEW at \in Steps, NEW kind \in Kinds, NEW id \in Nat,
         NEW seen \in Row, NEW row \in Row
  PROVE  Call(kind, id, at, seen, row) \in Job
  BY DEF Call, Job

LEMMA RowOfTable ==
  ASSUME Inv, NEW kind \in Kinds, NEW id \in DOMAIN rows[kind]
  PROVE  rows[kind][id] \in Row /\ id \in Nat /\ id # 0
  BY DEF Inv, Tables

-----------------------------------------------------------------------------
(* Every action keeps the invariant.                                       *)

LEMMA CreateOrganizationInv ==
  ASSUME Inv, NEW c \in Callers, CreateOrganization(c)
  PROVE  Inv'
<1>1. PICK name \in Names, ext \in ExternalIds \union {Null}, status \in CreatedAs :
        LET row == New(name, ext, status, 0)
        IN Begin(c, IF Clashes("organization", 0, row) THEN Idle
                    ELSE [Call("organization", 0, "insert", row, row) EXCEPT
                            !.listed = {rows["organization"]}])
  BY DEF CreateOrganization
<1> DEFINE row == New(name, ext, status, 0)
           j == [Call("organization", 0, "insert", row, row) EXCEPT
                   !.listed = {rows["organization"]}]
<1>2. row \in Row
  BY NewIsRow
<1> HIDE DEF row
<1>3. j = [at |-> "insert", kind |-> "organization", id |-> 0, seen |-> row,
           row |-> row, listed |-> {rows["organization"]}]
  BY DEF Call
<1> HIDE DEF j
<1>4. rows["organization"] \in Seq(Row)
  BY DEF Inv, Tables, Kinds
<1>5. ASSUME ~Clashes("organization", 0, row) PROVE Good(j, rows)
  <2>1. j \in Job
    BY <1>2, <1>3, <1>4 DEF Job, Steps, Kinds
  <2>2. InPlace(j, rows) /\ Legal(j)
    BY <1>3, ValidSelf DEF InPlace, Legal
  <2>3. ComparedWith(j, rows["organization"])
    BY <1>3, <1>5 DEF ComparedWith, Clashes
  <2>4. Compared(j)
    BY <1>3, <2>3 DEF Compared
  <2> QED BY <2>1, <2>2, <2>4 DEF Good
<1>6. Begin(c, IF Clashes("organization", 0, row) THEN Idle ELSE j)
  BY <1>1 DEF row, j
<1> QED BY <1>5, <1>6, BeginFrame DEF Good

LEMMA CreateFacilityInv ==
  ASSUME Inv, NEW c \in Callers, CreateFacility(c)
  PROVE  Inv'
<1>1. PICK name \in Names, ext \in ExternalIds \union {Null}, status \in CreatedAs,
           parent \in DOMAIN rows["organization"] :
        LET row == New(name, ext, status, parent)
        IN Begin(c, IF Eligible(parent)
                    THEN Call("facility", 0, "check", row, row)
                    ELSE Idle)
  BY DEF CreateFacility
<1> DEFINE row == New(name, ext, status, parent)
           j == Call("facility", 0, "check", row, row)
<1>2. row \in Row
  BY NewIsRow DEF Inv, Tables, Kinds
<1> HIDE DEF row
<1>3. j \in Job
  BY <1>2, CallIsJob DEF Steps, Kinds
<1>4. InPlace(j, rows) /\ Legal(j) /\ Compared(j)
  BY ValidSelf DEF Call, InPlace, Legal, Compared
<1>5. Good(j, rows)
  BY <1>3, <1>4 DEF Good
<1> HIDE DEF j
<1>6. Begin(c, IF Eligible(parent) THEN j ELSE Idle)
  BY <1>1 DEF row, j
<1> QED BY <1>5, <1>6, BeginFrame DEF Good

\* A call that read row id, and changes it into one with the same state.
LEMMA ChangeIsGood ==
  ASSUME Inv, NEW kind \in Kinds, NEW id \in DOMAIN rows[kind],
         NEW at \in {"check", "target"}, NEW row \in Row,
         row.status = rows[kind][id].status
  PROVE  Good(Call(kind, id, at, rows[kind][id], row), rows)
<1> DEFINE j == Call(kind, id, at, rows[kind][id], row)
<1>1. rows[kind][id] \in Row /\ id \in Nat /\ id # 0
  BY RowOfTable
<1>2. j \in Job
  BY <1>1, CallIsJob DEF Steps
<1>3. InPlace(j, rows) /\ Legal(j) /\ Compared(j)
  BY <1>1, ValidSelf DEF Call, InPlace, Legal, Compared
<1> QED BY <1>2, <1>3 DEF Good

LEMMA RenameInv ==
  ASSUME Inv, NEW c \in Callers, Rename(c)
  PROVE  Inv'
<1>1. PICK kind \in Kinds, name \in Names : Change(c, kind, "name", name)
  BY DEF Rename
<1>2. PICK id \in DOMAIN rows[kind] :
        Begin(c, Call(kind, id, "check", rows[kind][id],
                      [rows[kind][id] EXCEPT !["name"] = name]))
  BY <1>1 DEF Change
<1> DEFINE row == [rows[kind][id] EXCEPT !["name"] = name]
<1>3. row \in Row /\ row.status = rows[kind][id].status
  BY RowOfTable DEF Row
<1> QED BY <1>2, <1>3, ChangeIsGood, BeginFrame

LEMMA ChangeExternalIdInv ==
  ASSUME Inv, NEW c \in Callers, ChangeExternalId(c)
  PROVE  Inv'
<1>1. PICK kind \in Kinds, ext \in ExternalIds \union {Null} :
        Change(c, kind, "ext", ext)
  BY DEF ChangeExternalId
<1>2. PICK id \in DOMAIN rows[kind] :
        Begin(c, Call(kind, id, "check", rows[kind][id],
                      [rows[kind][id] EXCEPT !["ext"] = ext]))
  BY <1>1 DEF Change
<1> DEFINE row == [rows[kind][id] EXCEPT !["ext"] = ext]
<1>3. row \in Row /\ row.status = rows[kind][id].status
  BY RowOfTable DEF Row
<1> QED BY <1>2, <1>3, ChangeIsGood, BeginFrame

LEMMA MoveInv ==
  ASSUME Inv, NEW c \in Callers, Move(c)
  PROVE  Inv'
<1>1. PICK id \in DOMAIN rows["facility"], target \in DOMAIN rows["organization"] :
        Begin(c, Call("facility", id, "target", rows["facility"][id],
                      [rows["facility"][id] EXCEPT !.parent = target]))
  BY DEF Move
<1> DEFINE row == [rows["facility"][id] EXCEPT !.parent = target]
<1>2. "facility" \in Kinds /\ target \in Nat
  BY DEF Inv, Tables, Kinds
<1>3. row \in Row /\ row.status = rows["facility"][id].status
  BY <1>2, RowOfTable DEF Row
<1> QED BY <1>1, <1>2, <1>3, ChangeIsGood, BeginFrame

LEMMA TransitingIsGood ==
  ASSUME Inv, NEW kind \in Kinds, NEW id \in DOMAIN rows[kind],
         NEW target \in States
  PROVE  Good(Transiting(kind, id, rows[kind][id], target), rows)
<1> DEFINE old == rows[kind][id]
           row == [old EXCEPT !.status = target]
           j == Call(kind, id, "version", old, row)
<1>1. old \in Row /\ id \in Nat /\ id # 0
  BY RowOfTable
<1>2. row \in Row /\ row.status = target /\ SameKey(row, old)
  BY <1>1 DEF Row, SameKey
<1> HIDE DEF row, old
<1>3. ASSUME Valid(old.status, target) PROVE Good(j, rows)
  <2>1. j \in Job
    BY <1>1, <1>2, CallIsJob DEF Steps
  <2>2. InPlace(j, rows) /\ Legal(j) /\ Compared(j)
    BY <1>1, <1>2, <1>3 DEF Call, InPlace, Legal, Compared
  <2> QED BY <2>1, <2>2 DEF Good
<1> QED BY <1>3 DEF Transiting, Good, old, row

LEMMA TransitionInv ==
  ASSUME Inv, NEW c \in Callers, Transition(c)
  PROVE  Inv'
<1>1. PICK kind \in Kinds, target \in States : \E id \in DOMAIN rows[kind] :
        Begin(c, Transiting(kind, id, rows[kind][id], target))
  BY DEF Transition
<1> QED BY <1>1, TransitingIsGood, BeginFrame

LEMMA ActivateFacilityInv ==
  ASSUME Inv, NEW c \in Callers, ActivateFacility(c)
  PROVE  Inv'
<1>1. PICK id \in DOMAIN rows["facility"] :
        Begin(c, Call("facility", id, "parent", rows["facility"][id],
                      rows["facility"][id]))
  BY DEF ActivateFacility
<1> DEFINE row == rows["facility"][id]
           j == Call("facility", id, "parent", row, row)
<1>2. "facility" \in Kinds
  BY DEF Kinds
<1>3. row \in Row /\ id \in Nat /\ id # 0
  BY <1>2, RowOfTable
<1>4. j \in Job
  BY <1>2, <1>3, CallIsJob DEF Steps
<1>5. InPlace(j, rows) /\ Legal(j) /\ Compared(j)
  BY <1>3, ValidSelf DEF Call, InPlace, Legal, Compared, SameKey
<1> QED BY <1>1, <1>4, <1>5, BeginFrame DEF Good

\* A read of a call that goes on as it is, but for where it stands.
LEMMA ReadTargetInv ==
  ASSUME Inv, NEW c \in Callers, ReadTarget(c)
  PROVE  Inv'
<1> DEFINE j == [job[c] EXCEPT !.at = "check"]
           on == Eligible(job[c].row.parent) /\ job[c].row.parent # job[c].seen.parent
<1>1. job[c].at = "target" /\ Step(c, "target", IF on THEN j ELSE Idle, Table(c))
  BY DEF ReadTarget, Step
<1>2. job[c] \in Job /\ InPlace(job[c], rows) /\ Legal(job[c]) /\ Compared(job[c])
  BY <1>1, Working
<1>3. j \in Job
  BY <1>2 DEF Job, Steps
<1>4. InPlace(j, rows) /\ Legal(j) /\ Compared(j)
  BY <1>1, <1>2 DEF Job, InPlace, Legal, Compared, ComparedWith
<1>5. Good(j, rows) /\ Good(Idle, rows)
  BY <1>3, <1>4 DEF Good
<1> HIDE DEF j, on
<1> QED BY <1>1, <1>5, ReadFrame DEF Steps

LEMMA ReadParentInv ==
  ASSUME Inv, NEW c \in Callers, ReadParent(c)
  PROVE  Inv'
<1> DEFINE j == [job[c] EXCEPT !.at = "facility"]
<1>1. /\ job[c].at = "parent"
      /\ Step(c, "parent", IF Eligible(job[c].row.parent) THEN j ELSE Idle, Table(c))
  BY DEF ReadParent, Step
<1>2. job[c] \in Job /\ InPlace(job[c], rows) /\ Legal(job[c]) /\ Compared(job[c])
  BY <1>1, Working
<1>3. j \in Job
  BY <1>2 DEF Job, Steps
<1>4. InPlace(j, rows) /\ Legal(j) /\ Compared(j)
  BY <1>1, <1>2 DEF Job, InPlace, Legal, Compared, ComparedWith
<1>5. Good(j, rows) /\ Good(Idle, rows)
  BY <1>3, <1>4 DEF Good
<1> HIDE DEF j
<1> QED BY <1>1, <1>5, ReadFrame DEF Steps

LEMMA ReadFacilityInv ==
  ASSUME Inv, NEW c \in Callers, ReadFacility(c)
  PROVE  Inv'
<1>1. job[c].at = "facility"
  BY DEF ReadFacility, Step
<1>2. job[c] \in Job /\ InPlace(job[c], rows)
  BY <1>1, Working
<1>3. /\ job[c].kind = "facility" /\ "facility" \in Kinds /\ "ACTIVE" \in States
      /\ job[c].id \in DOMAIN rows["facility"]
  BY <1>1, <1>2 DEF InPlace, Kinds, States
<1>4. Good(Transiting("facility", job[c].id, rows["facility"][job[c].id], "ACTIVE"), rows)
  BY <1>3, TransitingIsGood
<1> QED BY <1>3, <1>4, ReadFrame DEF ReadFacility, Table, Steps

LEMMA EnsureUniqueInv ==
  ASSUME Inv, NEW c \in Callers, EnsureUnique(c)
  PROVE  Inv'
<1> DEFINE clash == Clashes(job[c].kind, job[c].id, job[c].row)
           j == [job[c] EXCEPT !.at = IF job[c].id = 0 THEN "insert" ELSE "version",
                               !.listed = {Table(c)}]
<1>1. job[c].at = "check" /\ Step(c, "check", IF clash THEN Idle ELSE j, Table(c))
  BY DEF EnsureUnique, Step
<1>2. job[c] \in Job /\ InPlace(job[c], rows) /\ Legal(job[c])
  BY <1>1, Working
<1>3. Table(c) \in Seq(Row)
  BY <1>2 DEF Table, Inv, Tables, Job
<1>4. j \in Job
  BY <1>2, <1>3 DEF Job, Steps
<1>5. /\ j.at = IF job[c].id = 0 THEN "insert" ELSE "version"
      /\ j.listed = {Table(c)} /\ j.id = job[c].id /\ j.kind = job[c].kind
      /\ j.row = job[c].row /\ j.seen = job[c].seen
  BY <1>2 DEF Job
<1>6. ASSUME ~clash PROVE Good(j, rows)
  <2>1. ComparedWith(j, Table(c))
    BY <1>5, <1>6 DEF ComparedWith, Clashes, Table
  <2>2. InPlace(j, rows) /\ Legal(j) /\ Compared(j)
    BY <1>2, <1>5, <2>1 DEF InPlace, Legal, Compared
  <2> QED BY <1>4, <2>2 DEF Good
<1>7. Good(Idle, rows)
  BY DEF Good
<1> HIDE DEF j, clash
<1> QED BY <1>1, <1>6, <1>7, ReadFrame DEF Steps

LEMMA ReadVersionInv ==
  ASSUME Inv, NEW c \in Callers, ReadVersion(c)
  PROVE  Inv'
<1> DEFINE version == Table(c)[job[c].id].version + 1
           row == [job[c].row EXCEPT !.version = version]
           j == [job[c] EXCEPT !.at = "write", !.row.version = version]
<1>1. job[c].at = "version" /\ Step(c, "version", j, Table(c))
  BY DEF ReadVersion, Step
<1>2. job[c] \in Job /\ InPlace(job[c], rows) /\ Legal(job[c]) /\ Compared(job[c])
  BY <1>1, Working
<1>3. job[c].kind \in Kinds /\ job[c].id \in DOMAIN Table(c)
  BY <1>1, <1>2 DEF Job, InPlace, Table
<1>4. version \in Nat
  BY <1>3, RowOfTable DEF Table, Row
<1> HIDE DEF version
<1>5. /\ row \in Row /\ SameKey(row, job[c].row)
      /\ row.status = job[c].row.status
  BY <1>2, <1>4 DEF Job, Row, SameKey
<1>6. j \in Job /\ j.at = "write" /\ j.row = row /\ j.kind = job[c].kind
      /\ j.id = job[c].id /\ j.seen = job[c].seen /\ j.listed = job[c].listed
  BY <1>2, <1>5 DEF Job, Steps
<1> HIDE DEF j, row
<1>7. InPlace(j, rows) /\ Legal(j)
  BY <1>1, <1>2, <1>5, <1>6 DEF InPlace, Legal
<1>8. \A table \in j.listed : ComparedWith(j, table)
  BY <1>2, <1>5, <1>6 DEF Compared, ComparedWith, Duplicates, SameKey
<1>9. Compared(j)
  BY <1>1, <1>2, <1>5, <1>6, <1>8 DEF Compared, SameKey
<1> QED BY <1>1, <1>6, <1>7, <1>9, ReadFrame DEF Good, Steps

\* A caller that wrote, or was refused, is done.
LEMMA DoneFrame ==
  ASSUME Inv, NEW c \in Callers, NEW kind \in Kinds, NEW table \in Seq(Row),
         DOMAIN rows[kind] \subseteq DOMAIN table,
         rows' = [rows EXCEPT ![kind] = table],
         job' = [job EXCEPT ![c] = Idle]
  PROVE  Inv'
<1>1. rows' \in Tables
  BY DEF Inv, Tables
<1>2. \A k \in Kinds : DOMAIN rows[k] \subseteq DOMAIN rows'[k]
  BY DEF Inv, Tables
<1>3. Good(Idle, rows')
  BY DEF Good
<1> QED BY <1>1, <1>2, <1>3, Frame

LEMMA Overwriting ==
  ASSUME NEW table \in Seq(Row), NEW id \in DOMAIN table, NEW row \in Row
  PROVE  /\ [table EXCEPT ![id] = row] \in Seq(Row)
         /\ DOMAIN [table EXCEPT ![id] = row] = DOMAIN table
<1>1. table \in [1..Len(table) -> Row] /\ Len(table) \in Nat
  OBVIOUS
<1>2. [table EXCEPT ![id] = row] \in [1..Len(table) -> Row]
  BY <1>1
<1> QED BY <1>1, <1>2

LEMMA WriteInv ==
  ASSUME Inv, NEW c \in Callers, Write(c)
  PROVE  Inv'
<1> DEFINE table == IF Taken(job[c].kind, job[c].id, job[c].row) THEN Table(c)
                    ELSE [Table(c) EXCEPT ![job[c].id] = job[c].row]
<1>1. job[c].at = "write" /\ Step(c, "write", Idle, table)
  BY DEF Write, Step
<1>2. job[c] \in Job /\ InPlace(job[c], rows)
  BY <1>1, Working
<1>3. job[c].kind \in Kinds /\ job[c].row \in Row /\ Table(c) \in Seq(Row)
  BY <1>2 DEF Job, Table, Inv, Tables
<1>4. table \in Seq(Row) /\ DOMAIN Table(c) \subseteq DOMAIN table
  BY <1>1, <1>2, <1>3, Overwriting DEF Table, InPlace
<1> HIDE DEF table
<1>5. DOMAIN rows[job[c].kind] \subseteq DOMAIN table
  BY <1>4 DEF Table
<1>6. rows' = [rows EXCEPT ![job[c].kind] = table] /\ job' = [job EXCEPT ![c] = Idle]
  BY <1>1 DEF Step
<1> QED BY <1>3, <1>4, <1>5, <1>6, DoneFrame

LEMMA InsertInv ==
  ASSUME Inv, NEW c \in Callers, Insert(c)
  PROVE  Inv'
<1> DEFINE table == IF Taken(job[c].kind, 0, job[c].row) THEN Table(c)
                    ELSE Append(Table(c), job[c].row)
<1>1. job[c].at = "insert" /\ Step(c, "insert", Idle, table)
  BY DEF Insert, Step
<1>2. job[c] \in Job /\ InPlace(job[c], rows)
  BY <1>1, Working
<1>3. job[c].kind \in Kinds /\ job[c].row \in Row /\ Table(c) \in Seq(Row)
  BY <1>2 DEF Job, Table, Inv, Tables
<1>4. table \in Seq(Row) /\ DOMAIN Table(c) \subseteq DOMAIN table
  BY <1>3
<1> HIDE DEF table
<1>5. DOMAIN rows[job[c].kind] \subseteq DOMAIN table
  BY <1>4 DEF Table
<1>6. rows' = [rows EXCEPT ![job[c].kind] = table] /\ job' = [job EXCEPT ![c] = Idle]
  BY <1>1 DEF Step
<1> QED BY <1>3, <1>4, <1>5, <1>6, DoneFrame

-----------------------------------------------------------------------------

LEMMA ProceedInv ==
  ASSUME Inv, NEW c \in Callers, Proceed(c)
  PROVE  Inv'
  BY ReadTargetInv, ReadParentInv, ReadFacilityInv, EnsureUniqueInv,
     ReadVersionInv, WriteInv, InsertInv DEF Proceed

LEMMA NextInv ==
  ASSUME Inv, [Next]_vars
  PROVE  Inv'
<1>1. CASE Next
  BY <1>1, CreateOrganizationInv, CreateFacilityInv, RenameInv,
     ChangeExternalIdInv, MoveInv, TransitionInv, ActivateFacilityInv,
     ProceedInv DEF Next
<1>2. CASE UNCHANGED vars
  BY <1>2 DEF vars, Inv, Good, Tables, InPlace, Legal, Compared
<1> QED BY <1>1, <1>2

\* What a caller in the middle of a call knows of its row holds at all times,
\* however the calls of the services interleave.
THEOREM JobsStayGood == Spec => []Inv
<1>1. Inv /\ [Next]_vars => Inv'
  BY NextInv
<1> QED BY <1>1, InitInv, PTL DEF Spec

-----------------------------------------------------------------------------
(* The two properties.                                                     *)

\* A step of a caller in the middle of a call is the next one of that call,
\* and only the last one writes.
LEMMA OwnStep ==
  ASSUME Inv, [Next]_vars, NEW c \in Callers,
         job[c] # Idle, job'[c] # job[c]
  PROVE  /\ job[c].at = "write" => Write(c)
         /\ job[c].at = "insert" => Insert(c)
         /\ rows' # rows => job[c].at \in {"write", "insert"}
<1>2. Next
  BY DEF vars
<1>3. PICK d \in Callers :
        \/ CreateOrganization(d) \/ CreateFacility(d) \/ Rename(d)
        \/ ChangeExternalId(d) \/ Move(d) \/ Transition(d)
        \/ ActivateFacility(d) \/ Proceed(d)
  BY <1>2 DEF Next
<1>4. \/ \E next : Begin(d, next)
      \/ Proceed(d)
  BY <1>3 DEF CreateOrganization, CreateFacility, Rename, ChangeExternalId,
       Change, Move, Transition, ActivateFacility
<1>5. c = d
  BY <1>4 DEF Begin, Proceed, ReadTarget, ReadParent, ReadFacility,
       EnsureUnique, ReadVersion, Write, Insert, Step, Inv
<1>6. Proceed(c)
  BY <1>4, <1>5 DEF Begin
<1>7. /\ job[c].at = "write" => Write(c)
      /\ job[c].at = "insert" => Insert(c)
  BY <1>6 DEF Proceed, ReadTarget, ReadParent, ReadFacility, EnsureUnique,
       ReadVersion, Write, Insert, Step
<1>8. rows \in Tables
  BY DEF Inv
<1>9. \/ job[c].at \in {"write", "insert"}
      \/ rows' = [rows EXCEPT ![job[c].kind] = Table(c)]
  BY <1>6 DEF Proceed, ReadTarget, ReadParent, ReadFacility, EnsureUnique,
       ReadVersion, Write, Insert, Step
<1> QED
  BY <1>7, <1>8, <1>9 DEF Table, Tables

LEMMA AllowedAge ==
  ASSUME NEW old \in States, NEW new \in States, Valid(old, new)
  PROVE  /\ Age(old) <= Age(new)
         /\ Age(old) = 1 => Age(new) # 3
  BY DEF States, Valid, Allowed, Age

\* The first property of the services, for any number of callers: validate_transition
\* and the whole-row UPDATE move a row only forward, unless it changed since it was read.
THEOREM LivesAlwaysGoForward == Spec => LivesGoForward
<1> DEFINE Forward(c) ==
      job[c].at = "write" /\ job'[c] = Idle /\ Fresh(c) /\ rows' # rows =>
        LET old == rows[job[c].kind][job[c].id]
            new == rows'[job[c].kind][job[c].id]
        IN /\ Age(old.status) <= Age(new.status)
           /\ Age(old.status) = 1 => Age(new.status) # 3
<1>1. ASSUME Inv, [Next]_vars, NEW c \in Callers PROVE Forward(c)
  <2> SUFFICES ASSUME job[c].at = "write", job'[c] = Idle, Fresh(c), rows' # rows
               PROVE  LET old == rows[job[c].kind][job[c].id]
                          new == rows'[job[c].kind][job[c].id]
                      IN /\ Age(old.status) <= Age(new.status)
                         /\ Age(old.status) = 1 => Age(new.status) # 3
    OBVIOUS
  <2> DEFINE k == job[c].kind
             id == job[c].id
             j == job[c]
  <2>1. j \in Job /\ InPlace(j, rows) /\ Legal(j)
    BY <1>1, Working
  <2>2. Write(c)
    BY <1>1, OwnStep DEF Idle
  <2>3. k \in Kinds /\ id \in DOMAIN rows[k] /\ rows[k] \in Seq(Row) /\ j.row \in Row
    BY <1>1, <2>1 DEF Job, InPlace, Inv, Tables
  <2>4. rows[k][id] = j.seen
    BY DEF Fresh
  <2>5. rows'[k] = rows[k] \/ rows'[k] = [rows[k] EXCEPT ![id] = j.row]
    BY <1>1, <2>2, <2>3 DEF Write, Step, Table, Inv, Tables
  <2>6. rows'[k][id] = rows[k][id] \/ rows'[k][id] = j.row
    BY <2>3, <2>5
  <2>7. rows[k][id] \in Row
    BY <2>3
  <2>8. /\ rows[k][id].status \in States /\ rows'[k][id].status \in States
        /\ Valid(rows[k][id].status, rows'[k][id].status)
    BY <2>1, <2>3, <2>4, <2>6, <2>7, ValidSelf DEF Row, Legal
  <2> QED BY <2>8, AllowedAge
<1>2. Inv /\ [Next]_vars => \A c \in Callers : Forward(c)
  BY <1>1
<1>3. Inv /\ [Next]_vars => [\A c \in Callers : Forward(c)]_vars
  BY <1>2
<1> QED BY <1>3, JobsStayGood, PTL DEF Spec, LivesGoForward

LEMMA DuplicatesSymmetric ==
  ASSUME NEW row, NEW other, Duplicates(row, other)
  PROVE  Duplicates(other, row)
  BY DEF Duplicates

\* Rows that share what is compared duplicate the same rows.
LEMMA SameKeyDuplicates ==
  ASSUME NEW row, NEW like, NEW other, SameKey(row, like)
  PROVE  Duplicates(row, other) <=> Duplicates(like, other)
  BY DEF Duplicates, SameKey

\* A table stays without duplicates when it gets, in place of id or after its
\* last row, a row that duplicates no other one.
LEMMA UniqueOverwritten ==
  ASSUME NEW table \in Seq(Row), NEW id \in DOMAIN table, NEW row \in Row,
         Unique(table),
         \A other \in DOMAIN table \ {id} : ~Duplicates(row, table[other])
  PROVE  Unique([table EXCEPT ![id] = row])
<1> DEFINE new == [table EXCEPT ![id] = row]
<1>1. DOMAIN new = DOMAIN table
  BY Overwriting
<1>2. new[id] = row /\ \A i \in DOMAIN table \ {id} : new[i] = table[i]
  OBVIOUS
<1> HIDE DEF new
<1>3. ASSUME NEW i \in DOMAIN new, NEW k \in DOMAIN new, Duplicates(new[i], new[k])
      PROVE  i = k
  <2>1. CASE i = id
    BY <1>1, <1>2, <1>3, <2>1
  <2>2. CASE k = id /\ i # id
    BY <1>1, <1>2, <1>3, <2>2, DuplicatesSymmetric
  <2>3. CASE i # id /\ k # id
    BY <1>1, <1>2, <1>3, <2>3 DEF Unique
  <2> QED BY <2>1, <2>2, <2>3
<1>4. Unique(new)
  BY <1>3 DEF Unique
<1> QED BY <1>4 DEF new

LEMMA UniqueAppended ==
  ASSUME NEW table \in Seq(Row), NEW row \in Row, Unique(table),
         \A other \in DOMAIN table : ~Duplicates(row, table[other])
  PROVE  Unique(Append(table, row))
<1> DEFINE new == Append(table, row)
           id == Len(table) + 1
<1>1. DOMAIN new = DOMAIN table \union {id}
  OBVIOUS
<1>2. new[id] = row /\ \A i \in DOMAIN table : i # id /\ new[i] = table[i]
  OBVIOUS
<1> HIDE DEF new, id
<1>3. ASSUME NEW i \in DOMAIN new, NEW k \in DOMAIN new, Duplicates(new[i], new[k])
      PROVE  i = k
  <2>1. CASE i = id
    BY <1>1, <1>2, <1>3, <2>1
  <2>2. CASE k = id /\ i # id
    BY <1>1, <1>2, <1>3, <2>2, DuplicatesSymmetric
  <2>3. CASE i # id /\ k # id
    BY <1>1, <1>2, <1>3, <2>3 DEF Unique
  <2> QED BY <2>1, <2>2, <2>3
<1>4. Unique(new)
  BY <1>3 DEF Unique
<1> QED BY <1>4 DEF new

\* The second property of the services, for any number of callers: no list and
\* check before a write lets a duplicate through, unless what it read has changed.
THEOREM DuplicatesAlwaysComeFromStaleReads == Spec => DuplicatesComeFromStaleReads
<1> DEFINE Stale(c, kind) ==
      \/ job[c].at = "write" /\ ~Fresh(c)
      \/ \E table \in job[c].listed : rows[kind] # table
           Explained(c, kind) ==
      /\ job[c] # Idle /\ job'[c] = Idle /\ job[c].kind = kind
      /\ Unique(rows[kind]) /\ ~Unique(rows'[kind])
      => Stale(c, kind)
<1>1. ASSUME Inv, [Next]_vars, NEW kind \in Kinds, NEW c \in Callers
      PROVE  Explained(c, kind)
  <2> SUFFICES ASSUME job[c] # Idle, job'[c] = Idle, job[c].kind = kind,
                      Unique(rows[kind]), ~Stale(c, kind)
               PROVE  Unique(rows'[kind])
    OBVIOUS
  <2> DEFINE j == job[c]
             id == job[c].id
             table == rows[kind]
  <2>1. j \in Job /\ InPlace(j, rows) /\ Compared(j)
    BY <1>1 DEF Inv, Good
  <2>2. table \in Seq(Row) /\ j.row \in Row
    BY <1>1, <2>1 DEF Inv, Tables, Job
  <2>3. \A listed \in j.listed : listed = table
    OBVIOUS
  <2>4. j.listed # {} => \A other \in DOMAIN table \ {id} :
                            ~Duplicates(j.row, table[other])
    BY <2>1, <2>3 DEF Compared, ComparedWith
  <2>5. CASE j.at = "write"
    <3>1. Write(c) /\ id \in DOMAIN table
      BY <1>1, <2>1, <2>5, OwnStep DEF InPlace
    <3>2. rows'[kind] = table \/ rows'[kind] = [table EXCEPT ![id] = j.row]
      BY <1>1, <3>1 DEF Write, Step, Table, Inv, Tables
    <3>3. ASSUME j.listed = {}, NEW other \in DOMAIN table \ {id}
          PROVE  ~Duplicates(j.row, table[other])
      <4>1. SameKey(j.row, table[id])
        BY <2>1, <2>5, <3>3 DEF Compared, Fresh
      <4>2. ~Duplicates(table[id], table[other])
        BY <3>1 DEF Unique
      <4> QED BY <4>1, <4>2, SameKeyDuplicates
    <3>4. \A other \in DOMAIN table \ {id} : ~Duplicates(j.row, table[other])
      BY <2>4, <3>3
    <3> QED BY <2>2, <3>1, <3>2, <3>4, UniqueOverwritten
  <2>6. CASE j.at = "insert"
    <3>1. Insert(c) /\ id = 0 /\ j.listed # {}
      BY <1>1, <2>1, <2>6, OwnStep DEF InPlace, Compared
    <3>2. rows'[kind] = table \/ rows'[kind] = Append(table, j.row)
      BY <1>1, <3>1 DEF Insert, Step, Table, Inv, Tables
    <3>3. 0 \notin DOMAIN table
      BY <2>2
    <3>4. \A other \in DOMAIN table : ~Duplicates(j.row, table[other])
      BY <2>4, <3>1, <3>3
    <3> QED BY <2>2, <3>2, <3>4, UniqueAppended
  <2>7. CASE j.at \notin {"write", "insert"}
    BY <1>1, <2>7, OwnStep
  <2> QED BY <2>5, <2>6, <2>7
<1>2. Inv /\ [Next]_vars => \A kind \in Kinds, c \in Callers : Explained(c, kind)
  BY <1>1
<1>3. Inv /\ [Next]_vars => [\A kind \in Kinds, c \in Callers : Explained(c, kind)]_vars
  BY <1>2
<1> QED BY <1>3, JobsStayGood, PTL DEF Spec, DuplicatesComeFromStaleReads
=============================================================================
