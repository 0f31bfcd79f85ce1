-------------------------- MODULE CommercialProofs --------------------------
(***************************************************************************)
(* Theorems about the commercial registry and the pipeline over it, for    *)
(* any number of processes, commands, runs, errors and deaths.             *)
(***************************************************************************)
EXTENDS CommercialProperties, WellFoundedInduction, FiniteSetTheorems,
        SequenceTheorems, TLAPS

-----------------------------------------------------------------------------
(* The tables, and what each transaction does to them.                     *)

Tables == {"last", "rows", "sources", "evidence", "audit"}

StoreShape(d) ==
  /\ DOMAIN d = Tables
  /\ d.last \in [EntityTypes -> Nat]
  /\ DOMAIN d.rows = RowTypes
  /\ \A type \in RowTypes : \E S : d.rows[type] \in Seq(S)

LEMMA IssueDoes ==
  ASSUME NEW d, StoreShape(d), NEW type \in EntityTypes
  PROVE  /\ StoreShape(Issue(d, type))
         /\ Issue(d, type).rows = d.rows /\ Issue(d, type).audit = d.audit
         /\ Issue(d, type).last[type] = d.last[type] + 1
         /\ \A t \in EntityTypes : t # type => Issue(d, type).last[t] = d.last[t]
<1> DEFINE e == Issue(d, type)
<1>1. /\ DOMAIN e = Tables /\ e.rows = d.rows /\ e.audit = d.audit
      /\ e.last = [d.last EXCEPT ![type] = @ + 1]
  BY DEF StoreShape, Issue, Tables
<1> HIDE DEF e
<1>2. /\ e.last \in [EntityTypes -> Nat]
      /\ e.last[type] = d.last[type] + 1
      /\ \A t \in EntityTypes : t # type => e.last[t] = d.last[t]
  BY <1>1 DEF StoreShape
<1>3. StoreShape(e)
  BY <1>1, <1>2 DEF StoreShape
<1> QED  BY <1>1, <1>2, <1>3 DEF e

LEMMA ReserveDoes ==
  ASSUME NEW d, StoreShape(d), NEW type \in EntityTypes, NEW number \in Nat
  PROVE  /\ StoreShape(Reserve(d, type, number))
         /\ Reserve(d, type, number).rows = d.rows
         /\ Reserve(d, type, number).audit = d.audit
         /\ Reserve(d, type, number).last[type] >= number
         /\ \A t \in EntityTypes : Reserve(d, type, number).last[t] >= d.last[t]
<1> DEFINE e == Reserve(d, type, number)
<1>1. /\ DOMAIN e = Tables /\ e.rows = d.rows /\ e.audit = d.audit
      /\ e.last = [d.last EXCEPT ![type] = IF @ < number THEN number ELSE @]
  BY DEF StoreShape, Reserve, Tables
<1> HIDE DEF e
<1>2. /\ e.last \in [EntityTypes -> Nat]
      /\ e.last[type] >= number
      /\ \A t \in EntityTypes : e.last[t] >= d.last[t]
  <2>1. d.last \in [EntityTypes -> Nat]
    BY DEF StoreShape
  <2>2. PICK m \in Nat : /\ e.last = [d.last EXCEPT ![type] = m]
                         /\ m >= number /\ m >= d.last[type]
    BY <1>1, <2>1
  <2>3. e.last \in [EntityTypes -> Nat]
    BY <2>1, <2>2
  <2>4. e.last[type] = m /\ \A t \in EntityTypes : t # type => e.last[t] = d.last[t]
    BY <2>1, <2>2
  <2>5. \A t \in EntityTypes : d.last[t] \in Nat
    BY <2>1
  <2> QED  BY <2>2, <2>3, <2>4, <2>5
<1>3. StoreShape(e)
  BY <1>1, <1>2 DEF StoreShape
<1> QED  BY <1>1, <1>2, <1>3 DEF e

LEMMA InsertDoes ==
  ASSUME NEW d, StoreShape(d), NEW type \in RowTypes, NEW row
  PROVE  /\ StoreShape(Insert(d, type, row))
         /\ Insert(d, type, row).last = d.last /\ Insert(d, type, row).audit = d.audit
         /\ \A t \in RowTypes : t # type => Insert(d, type, row).rows[t] = d.rows[t]
         /\ Len(d.rows[type]) \in Nat
         /\ DOMAIN d.rows[type] = 1..Len(d.rows[type])
         /\ DOMAIN Insert(d, type, row).rows[type] = 1..Len(d.rows[type]) + 1
         /\ \A r \in DOMAIN d.rows[type] : Insert(d, type, row).rows[type][r] = d.rows[type][r]
         /\ Insert(d, type, row).rows[type][Len(d.rows[type]) + 1] = row
<1> DEFINE e == Insert(d, type, row)
           old == d.rows[type]
           new == Append(old, row)
<1>1. /\ DOMAIN e = Tables /\ e.last = d.last /\ e.audit = d.audit
      /\ e.rows = [d.rows EXCEPT ![type] = new]
  BY DEF StoreShape, Insert, Tables
<1>2. PICK S : old \in Seq(S)
  BY DEF StoreShape
<1>3. PICK T : T = S \union {row}
  OBVIOUS
<1>4. old \in Seq(T) /\ row \in T
  <2>1. old \in [1..Len(old) -> S] /\ Len(old) \in Nat
    BY <1>2
  <2>2. old \in [1..Len(old) -> T]
    BY <1>3, <2>1
  <2> QED  BY <1>3, <2>1, <2>2
<1> HIDE DEF old
<1>5. /\ new \in Seq(T) /\ Len(new) = Len(old) + 1 /\ Len(old) \in Nat
      /\ DOMAIN old = 1..Len(old) /\ DOMAIN new = 1..Len(old) + 1
      /\ \A r \in 1..Len(old) : new[r] = old[r]
      /\ new[Len(old) + 1] = row
  BY <1>4, AppendProperties
<1> HIDE DEF e, new
<1>6. /\ DOMAIN e.rows = RowTypes /\ e.rows[type] = new
      /\ \A t \in RowTypes : t # type => e.rows[t] = d.rows[t]
  BY <1>1 DEF StoreShape
<1>7. \A t \in RowTypes : \E U : e.rows[t] \in Seq(U)
  BY <1>5, <1>6 DEF StoreShape
<1>8. StoreShape(e)
  BY <1>1, <1>6, <1>7 DEF StoreShape
<1> QED  BY <1>1, <1>5, <1>6, <1>8 DEF e, old

LEMMA AmendDoes ==
  ASSUME NEW d, StoreShape(d), NEW type \in RowTypes, NEW row \in DOMAIN d.rows[type],
         DOMAIN d.rows[type][row] = {"number", "call", "amended"}
  PROVE  /\ StoreShape(Amend(d, type, row))
         /\ Amend(d, type, row).last = d.last /\ Amend(d, type, row).audit = d.audit
         /\ \A t \in RowTypes : t # type => Amend(d, type, row).rows[t] = d.rows[t]
         /\ DOMAIN Amend(d, type, row).rows[type] = DOMAIN d.rows[type]
         /\ \A r \in DOMAIN d.rows[type] :
              r # row => Amend(d, type, row).rows[type][r] = d.rows[type][r]
         /\ DOMAIN Amend(d, type, row).rows[type][row] = {"number", "call", "amended"}
         /\ Amend(d, type, row).rows[type][row].number = d.rows[type][row].number
         /\ Amend(d, type, row).rows[type][row].call = d.rows[type][row].call
         /\ Amend(d, type, row).rows[type][row].amended
<1> DEFINE e == Amend(d, type, row)
           old == d.rows[type]
           after == [old[row] EXCEPT !.amended = TRUE]
           new == [old EXCEPT ![row] = after]
<1>1. /\ DOMAIN e = Tables /\ e.last = d.last /\ e.audit = d.audit
      /\ e.rows = [d.rows EXCEPT ![type] = new]
  BY DEF StoreShape, Amend, Tables
<1>2. PICK S : old \in Seq(S)
  BY DEF StoreShape
<1>3. /\ DOMAIN after = {"number", "call", "amended"}
      /\ after.number = old[row].number /\ after.call = old[row].call
      /\ after.amended = TRUE
  OBVIOUS
<1> HIDE DEF old, after
<1>4. new \in Seq(S \union {after}) /\ DOMAIN new = DOMAIN old
      /\ new[row] = after /\ \A r \in DOMAIN old : r # row => new[r] = old[r]
  <2>1. old \in [1..Len(old) -> S] /\ Len(old) \in Nat
    BY <1>2
  <2>2. new \in [1..Len(old) -> S \union {after}]
    BY <2>1
  <2>3. row \in DOMAIN old
    BY DEF old
  <2> QED  BY <2>1, <2>2, <2>3
<1> HIDE DEF e, new
<1>5. /\ DOMAIN e.rows = RowTypes /\ e.rows[type] = new
      /\ \A t \in RowTypes : t # type => e.rows[t] = d.rows[t]
  BY <1>1 DEF StoreShape
<1>6. \A t \in RowTypes : \E U : e.rows[t] \in Seq(U)
  BY <1>4, <1>5 DEF StoreShape
<1>7. StoreShape(e)
  BY <1>1, <1>5, <1>6 DEF StoreShape
<1> QED  BY <1>1, <1>3, <1>4, <1>5, <1>7 DEF e, old

LEMMA AuditDoes ==
  ASSUME NEW d, StoreShape(d), NEW action, NEW row
  PROVE  /\ StoreShape(Audited(d, action, row))
         /\ Audited(d, action, row).last = d.last
         /\ Audited(d, action, row).rows = d.rows
         /\ Audited(d, action, row).audit
              = d.audit \union {[action |-> action, row |-> row]}
BY DEF StoreShape, Audited, Tables

-----------------------------------------------------------------------------
(* The rows and their numbers, and the commands in flight.                 *)

\* A row of a command, and a lifecycle event.
RowShape(type, row) ==
  IF type = "lifecycle_event" THEN DOMAIN row = {"number", "organization"}
  ELSE DOMAIN row = {"number", "call", "amended"} /\ row.call.op = type

RowsInv ==
  \A type \in RowTypes : \A row \in DOMAIN Rows(type) :
    /\ RowShape(type, Rows(type)[row])
    /\ Rows(type)[row].number \in Nat
    /\ Rows(type)[row].number <= db.last[type]

CommandSteps ==
  {"reserve", "number", "insert", "amend", "event_number", "event", "audit"}

RunSteps ==
  {"validate", "resolve", "profile", "decision", "report", "brief_tiles",
   "brief_decision", "manifest", "receipt"}

JobFields == {"at", "call", "number", "row"}

\* A command keeps a number that its sequence has passed, and the row it put in.
Commanding(j) ==
  /\ DOMAIN j = JobFields
  /\ j.at \in CommandSteps
  /\ j.call.op \in Commanded /\ j.call.import \in Nat
  /\ j.number \in Nat
  /\ j.at = "reserve" => j.call.import # 0
  /\ j.at = "insert" => j.number <= db.last[j.call.op]
  /\ j.at = "event" => j.number <= db.last["lifecycle_event"]
  /\ j.at \in {"event_number", "event"} => j.call.op = "organization"
  /\ j.at \in {"amend", "event_number", "event", "audit"} =>
       /\ j.row \in DOMAIN Rows(j.call.op)
       /\ Rows(j.call.op)[j.row].call = j.call

RunFields == {"at", "run", "request", "status", "seen"}

Running(j) ==
  /\ DOMAIN j = RunFields
  /\ j.at \in RunSteps

Held(j) == j = Idle \/ Commanding(j) \/ Running(j)

\* Drawn, of a job that is a constant.
DrawnBy(j, type) ==
  \/ j.at = "insert" /\ j.call.op = type /\ j.call.import = 0
  \/ j.at = "event" /\ type = "lifecycle_event"

DrawnApart ==
  \A type \in RowTypes : \A c, other \in Clerks :
    DrawnBy(job[c], type) /\ DrawnBy(job[other], type) /\ job[c].number = job[other].number
      => c = other

NumbersInv ==
  /\ StoreShape(db) /\ RowsInv
  /\ DOMAIN job = Clerks /\ \A c \in Clerks : Held(job[c])
  /\ DrawnApart

LEMMA TypesAre ==
  /\ Commanded \subseteq RowTypes /\ RowTypes \subseteq EntityTypes
  /\ Commanded \subseteq EntityTypes
  /\ "lifecycle_event" \in RowTypes /\ "lifecycle_event" \in EntityTypes
  /\ "lifecycle_event" \notin Commanded
  /\ Commanded = {"market", "organization", "membership", "scorecard", "action"}
BY DEF Commanded, RowTypes, EntityTypes

LEMMA HeldAt ==
  ASSUME NEW j, Held(j)
  PROVE  /\ j.at \in CommandSteps => Commanding(j)
         /\ j.at \in RunSteps => Running(j)
         /\ j.at = "idle" => j = Idle
<1>1. Idle.at = "idle" /\ "idle" \notin CommandSteps /\ "idle" \notin RunSteps
  BY DEF Idle, CommandSteps, RunSteps
<1>2. CommandSteps \cap RunSteps = {}
  BY DEF CommandSteps, RunSteps
<1>3. Commanding(j) => j.at \in CommandSteps
  BY DEF Commanding
<1>4. Running(j) => j.at \in RunSteps
  BY DEF Running
<1> QED  BY <1>1, <1>2, <1>3, <1>4 DEF Held

\* The tables only grow: rows keep their numbers and what they were asked for.
TablesGrow ==
  /\ \A type \in EntityTypes : db.last[type] \in Nat /\ db'.last[type] \in Nat
                               /\ db.last[type] <= db'.last[type]
  /\ \A type \in RowTypes : \A row \in DOMAIN Rows(type) :
       /\ row \in DOMAIN db'.rows[type]
       /\ db'.rows[type][row].number = Rows(type)[row].number
       /\ type # "lifecycle_event" => db'.rows[type][row].call = Rows(type)[row].call

LEMMA CommandingStays ==
  ASSUME TablesGrow, NEW j, Commanding(j)
  PROVE  Commanding(j)'
<1>1. /\ DOMAIN j = JobFields /\ j.at \in CommandSteps
      /\ j.call.op \in Commanded /\ j.call.import \in Nat /\ j.number \in Nat
      /\ j.at \in {"event_number", "event"} => j.call.op = "organization"
      /\ j.at = "reserve" => j.call.import # 0
  BY DEF Commanding
<1>2. j.at = "insert" => j.number <= db'.last[j.call.op]
  BY <1>1, TypesAre DEF Commanding, TablesGrow
<1>3. j.at = "event" => j.number <= db'.last["lifecycle_event"]
  BY <1>1, TypesAre DEF Commanding, TablesGrow
<1>4. j.at \in {"amend", "event_number", "event", "audit"} =>
        /\ j.row \in DOMAIN db'.rows[j.call.op]
        /\ db'.rows[j.call.op][j.row].call = j.call
  BY <1>1, TypesAre DEF Commanding, TablesGrow, Rows
<1> QED  BY <1>1, <1>2, <1>3, <1>4 DEF Commanding, Rows

LEMMA HeldStays ==
  ASSUME TablesGrow, NEW j, Held(j)
  PROVE  Held(j)'
BY CommandingStays DEF Held, Running

\* What a step of one clerk has to show.
LEMMA ClerkKeeps ==
  ASSUME NumbersInv, NEW c \in Clerks, NEW next, job' = [job EXCEPT ![c] = next],
         TablesGrow, StoreShape(db'), RowsInv', Held(next)',
         \A type \in RowTypes : \A other \in Clerks \ {c} :
           DrawnBy(next, type) /\ DrawnBy(job[other], type)
             => next.number # job[other].number
  PROVE  NumbersInv' /\ TablesGrow
<1>1. /\ DOMAIN job' = Clerks /\ job'[c] = next
      /\ \A other \in Clerks : other # c => job'[other] = job[other]
  BY DEF NumbersInv
<1>2. ASSUME NEW other \in Clerks
      PROVE  Held(job[other])'
  <2>1. CASE other = c
    BY <1>1, <2>1
  <2>2. CASE other # c
    <3>1. PICK j : j = job[other]
      OBVIOUS
    <3>2. Held(j)'
      BY <3>1, HeldStays DEF NumbersInv
    <3>3. job'[other] = j
      BY <1>1, <2>2, <3>1
    <3> QED  BY <3>2, <3>3
  <2> QED  BY <2>1, <2>2
<1>3. DrawnApart'
  BY <1>1 DEF NumbersInv, DrawnApart, DrawnBy
<1> QED  BY <1>1, <1>2, <1>3 DEF NumbersInv

LEMMA TablesStay ==
  ASSUME NumbersInv, db' = db
  PROVE  TablesGrow /\ StoreShape(db') /\ RowsInv'
<1>1. \A type \in EntityTypes : db.last[type] \in Nat
  BY DEF NumbersInv, StoreShape
<1>2. RowsInv'
  BY DEF NumbersInv, RowsInv, Rows
<1> QED  BY <1>1, <1>2 DEF TablesGrow, Rows, NumbersInv

\* A clerk that leaves the tables alone and draws nothing.
LEMMA QuietKeeps ==
  ASSUME NumbersInv, NEW c \in Clerks, NEW next, job' = [job EXCEPT ![c] = next],
         db' = db, Held(next), next.at \notin {"insert", "event"}
  PROVE  NumbersInv' /\ TablesGrow
<1>1. TablesGrow /\ StoreShape(db') /\ RowsInv'
  BY TablesStay
<1>2. Held(next)'
  BY <1>1, HeldStays
<1>3. \A type : ~DrawnBy(next, type)
  BY DEF DrawnBy
<1> QED  BY <1>1, <1>2, <1>3, ClerkKeeps

LEMMA IdleIsQuiet ==
  Held(Idle) /\ Idle.at \notin {"insert", "event"} /\ Idle.at = "idle"
BY DEF Held, Idle

LEMMA BeginKeeps ==
  ASSUME NumbersInv, NEW c \in Clerks, NEW call, NEW at \in {"number", "reserve"},
         Begin(c, call, at), call.op \in Commanded, call.import \in Nat,
         at = "reserve" => call.import # 0
  PROVE  NumbersInv' /\ TablesGrow
<1>1. PICK next : next = [at |-> at, call |-> call, number |-> 0, row |-> 0]
  OBVIOUS
<1>2. DOMAIN next = JobFields /\ next.at = at /\ next.call = call /\ next.number = 0
  BY <1>1 DEF JobFields
<1>3. Held(next)
  <2>1. /\ next.at \in CommandSteps
        /\ next.at \notin {"insert", "event", "event_number", "amend", "audit"}
    BY <1>2 DEF CommandSteps
  <2>2. next.at = "reserve" => next.call.import # 0
    BY <1>2
  <2>3. next.call.op \in Commanded /\ next.call.import \in Nat /\ next.number \in Nat
    BY <1>2
  <2>4. Commanding(next)
    BY <1>2, <2>1, <2>2, <2>3 DEF Commanding
  <2> QED  BY <2>4 DEF Held
<1>4. job' = [job EXCEPT ![c] = next] /\ db' = db
  BY <1>1 DEF Begin
<1> QED  BY <1>2, <1>3, <1>4, QuietKeeps

LEMMA CommandsBegin ==
  ASSUME NEW c, CreateMarket(c) \/ CreateOrganization(c) \/ AddMembership(c)
                \/ Evaluate(c) \/ CalculateCci(c) \/ AddAction(c)
  PROVE  \E call : \E at \in {"number", "reserve"} :
           /\ Begin(c, call, at) /\ call.op \in Commanded /\ call.import \in Nat
           /\ at = "reserve" => call.import # 0
<1>1. \A import \in Imports : import \in Nat \ {0}
  BY RegistryAssumption
<1>2. CASE CreateMarket(c)
  <2> DEFINE asked(name, other, import) ==
               [op |-> "market", name |-> name, owned |-> other, import |-> import]
  <2>1. PICK name, owned :
          \/ Begin(c, asked(name, owned, 0), "number")
          \/ \E import \in Imports : Begin(c, asked(name, owned, import), "reserve")
    BY <1>2 DEF CreateMarket
  <2>1a. PICK import, at :
          /\ Begin(c, asked(name, owned, import), at)
          /\ import \in Nat /\ at \in {"number", "reserve"}
          /\ at = "reserve" => import # 0
    <3>1. CASE Begin(c, asked(name, owned, 0), "number")
      BY <3>1
    <3>2. CASE \E import \in Imports : Begin(c, asked(name, owned, import), "reserve")
      <4> HIDE DEF asked
      <4> QED  BY <1>1, <3>2
    <3> QED  BY <2>1, <3>1, <3>2
  <2>2. PICK call : call = [op |-> "market", name |-> name, owned |-> owned, import |-> import]
    OBVIOUS
  <2>3. call.op = "market" /\ call.import = import
    BY <2>2
  <2> QED  BY <2>1a, <2>2, <2>3, TypesAre
<1>3. CASE CreateOrganization(c)
  <2> DEFINE asked(name, other, import) ==
               [op |-> "organization", name |-> name, domain |-> other, import |-> import]
  <2>1. PICK name, domain :
          \/ Begin(c, asked(name, domain, 0), "number")
          \/ \E import \in Imports : Begin(c, asked(name, domain, import), "reserve")
    BY <1>3 DEF CreateOrganization
  <2>1a. PICK import, at :
          /\ Begin(c, asked(name, domain, import), at)
          /\ import \in Nat /\ at \in {"number", "reserve"}
          /\ at = "reserve" => import # 0
    <3>1. CASE Begin(c, asked(name, domain, 0), "number")
      BY <3>1
    <3>2. CASE \E import \in Imports : Begin(c, asked(name, domain, import), "reserve")
      <4> HIDE DEF asked
      <4> QED  BY <1>1, <3>2
    <3> QED  BY <2>1, <3>1, <3>2
  <2>2. PICK call : call = [op |-> "organization", name |-> name, domain |-> domain,
                            import |-> import]
    OBVIOUS
  <2>3. call.op = "organization" /\ call.import = import
    BY <2>2
  <2> QED  BY <2>1a, <2>2, <2>3, TypesAre
<1>4. CASE AddMembership(c)
  <2>1. PICK market, organization :
          Begin(c, [op |-> "membership", market |-> market, organization |-> organization,
                    import |-> 0], "number")
    BY <1>4 DEF AddMembership
  <2>2. PICK call : call = [op |-> "membership", market |-> market,
                            organization |-> organization, import |-> 0]
    OBVIOUS
  <2>3. call.op = "membership" /\ call.import = 0
    BY <2>2
  <2> QED  BY <2>1, <2>2, <2>3, TypesAre
<1>5. CASE Evaluate(c)
  <2>1. PICK organization, model, cites :
          Begin(c, [op |-> "scorecard", organization |-> organization, model |-> model,
                    cites |-> cites, basis |-> {}, import |-> 0], "number")
    BY <1>5 DEF Evaluate
  <2>2. PICK call : call = [op |-> "scorecard", organization |-> organization,
                            model |-> model, cites |-> cites, basis |-> {}, import |-> 0]
    OBVIOUS
  <2>3. call.op = "scorecard" /\ call.import = 0
    BY <2>2
  <2> QED  BY <2>1, <2>2, <2>3, TypesAre
<1>6. CASE CalculateCci(c)
  <2>1. PICK organization, basis :
          Begin(c, [op |-> "scorecard", organization |-> organization, model |-> "Index",
                    cites |-> "nothing", basis |-> basis, import |-> 0], "number")
    BY <1>6 DEF CalculateCci
  <2>2. PICK call : call = [op |-> "scorecard", organization |-> organization,
                            model |-> "Index", cites |-> "nothing", basis |-> basis,
                            import |-> 0]
    OBVIOUS
  <2>3. call.op = "scorecard" /\ call.import = 0
    BY <2>2
  <2> QED  BY <2>1, <2>2, <2>3, TypesAre
<1>7. CASE AddAction(c)
  <2>1. PICK organization :
          Begin(c, [op |-> "action", organization |-> organization, import |-> 0], "number")
    BY <1>7 DEF AddAction
  <2>2. PICK call : call = [op |-> "action", organization |-> organization, import |-> 0]
    OBVIOUS
  <2>3. call.op = "action" /\ call.import = 0
    BY <2>2
  <2> QED  BY <2>1, <2>2, <2>3, TypesAre
<1> QED  BY <1>2, <1>3, <1>4, <1>5, <1>6, <1>7

-----------------------------------------------------------------------------
(* The transactions of a command.                                          *)

LEMMA ReserveNumberKeeps ==
  ASSUME NumbersInv, NEW c \in Clerks, ReserveNumber(c)
  PROVE  NumbersInv' /\ TablesGrow
<1>1. PICK j : j = job[c]
  OBVIOUS
<1>2. PICK type, number : type = j.call.op /\ number = j.call.import
  OBVIOUS
<1>3. Commanding(j) /\ j.at = "reserve" /\ type \in Commanded /\ number \in Nat
      /\ type \in EntityTypes
  BY <1>1, <1>2, HeldAt, TypesAre DEF ReserveNumber, Step, NumbersInv, CommandSteps, Commanding
<1>4. PICK next : next = [j EXCEPT !.at = "insert", !.number = number]
  OBVIOUS
<1>5. job' = [job EXCEPT ![c] = next] /\ db' = Reserve(db, type, number)
  BY <1>1, <1>2, <1>4 DEF ReserveNumber, Step, Op
<1>6. /\ DOMAIN next = JobFields /\ next.at = "insert" /\ next.call = j.call
      /\ next.number = number /\ next.row = j.row
  BY <1>3, <1>4 DEF Commanding, JobFields
<1>7. /\ StoreShape(db') /\ db'.rows = db.rows /\ db'.last[type] >= number
      /\ \A t \in EntityTypes : db'.last[t] >= db.last[t]
  BY <1>3, <1>5, ReserveDoes DEF NumbersInv
<1>8. \A t \in EntityTypes : db.last[t] \in Nat /\ db'.last[t] \in Nat
  BY <1>7 DEF NumbersInv, StoreShape
<1>9. TablesGrow
  BY <1>7, <1>8 DEF TablesGrow, Rows
<1>10. RowsInv'
  BY <1>7, <1>8, TypesAre DEF NumbersInv, RowsInv, Rows
<1>11. Held(next)'
  BY <1>2, <1>3, <1>6, <1>7, <1>8 DEF Held, Commanding, CommandSteps
<1>12. ASSUME NEW t \in RowTypes, NEW other \in Clerks \ {c},
              DrawnBy(next, t), DrawnBy(job[other], t)
       PROVE  next.number # job[other].number
  <2>1. number = 0
    BY <1>2, <1>6, <1>12 DEF DrawnBy
  <2> QED  BY <1>2, <1>3, <2>1 DEF Commanding
<1> QED  BY <1>5, <1>7, <1>9, <1>10, <1>11, <1>12, ClerkKeeps

\* The facts of a command's step, with its job as a constant.
LEMMA StepIs ==
  ASSUME NumbersInv, NEW c \in Clerks, NEW at \in CommandSteps, NEW next, NEW store,
         Step(c, at, next, store)
  PROVE  /\ Commanding(job[c]) /\ job[c].at = at
         /\ job' = [job EXCEPT ![c] = next] /\ db' = store
BY HeldAt DEF Step, NumbersInv

LEMMA IssueKeepsRows ==
  ASSUME NumbersInv, NEW type \in EntityTypes, db' = Issue(db, type)
  PROVE  /\ TablesGrow /\ StoreShape(db') /\ RowsInv'
         /\ Issued(db, type) = db.last[type] + 1 /\ db'.last[type] = db.last[type] + 1
         /\ db.last[type] \in Nat
<1>1. /\ StoreShape(db') /\ db'.rows = db.rows
      /\ db'.last[type] = db.last[type] + 1
      /\ \A t \in EntityTypes : t # type => db'.last[t] = db.last[t]
  BY IssueDoes DEF NumbersInv
<1>2. \A t \in EntityTypes : db.last[t] \in Nat /\ db'.last[t] \in Nat
  BY <1>1 DEF NumbersInv, StoreShape
<1>3. TablesGrow
  BY <1>1, <1>2 DEF TablesGrow, Rows
<1>4. RowsInv'
  BY <1>1, <1>2, TypesAre DEF NumbersInv, RowsInv, Rows
<1> QED  BY <1>1, <1>2, <1>3, <1>4 DEF Issued

LEMMA DrawNumberKeeps ==
  ASSUME NumbersInv, NEW c \in Clerks, DrawNumber(c)
  PROVE  NumbersInv' /\ TablesGrow
<1>1. PICK j : j = job[c]
  OBVIOUS
<1>2. PICK type, number : type = j.call.op /\ number = Issued(db, type)
  OBVIOUS
<1>3. PICK next : next = [j EXCEPT !.at = "insert", !.number = number]
  OBVIOUS
<1>4. Commanding(j) /\ j.at = "number" /\ job' = [job EXCEPT ![c] = next]
      /\ db' = Issue(db, type)
  BY <1>1, <1>2, <1>3, StepIs DEF DrawNumber, Op, CommandSteps
<1>5. type \in Commanded /\ type \in EntityTypes
  BY <1>2, <1>4, TypesAre DEF Commanding
<1>6. /\ TablesGrow /\ StoreShape(db') /\ RowsInv'
      /\ number = db.last[type] + 1 /\ db'.last[type] = db.last[type] + 1
      /\ db.last[type] \in Nat
  BY <1>2, <1>4, <1>5, IssueKeepsRows
<1>7. /\ DOMAIN next = JobFields /\ next.at = "insert" /\ next.call = j.call
      /\ next.number = number /\ next.row = j.row
  BY <1>3, <1>4 DEF Commanding, JobFields
<1>8. Held(next)'
  BY <1>2, <1>4, <1>6, <1>7 DEF Held, Commanding, CommandSteps
<1>9. ASSUME NEW t \in RowTypes, NEW other \in Clerks \ {c},
             DrawnBy(next, t), DrawnBy(job[other], t)
      PROVE  next.number # job[other].number
  <2>1. t = type
    BY <1>2, <1>7, <1>9 DEF DrawnBy
  <2>2. job[other].at = "insert" /\ job[other].call.op = type
    BY <1>5, <1>9, <2>1, TypesAre DEF DrawnBy
  <2>3. Commanding(job[other])
    BY <2>2, HeldAt DEF NumbersInv, CommandSteps
  <2>4. job[other].number <= db.last[type] /\ job[other].number \in Nat
    BY <2>2, <2>3 DEF Commanding
  <2> QED  BY <1>6, <1>7, <2>4
<1>10. \A t \in RowTypes : \A other \in Clerks \ {c} :
         DrawnBy(next, t) /\ DrawnBy(job[other], t) => next.number # job[other].number
  BY <1>9
<1>11. job' = [job EXCEPT ![c] = next]
  BY <1>4
<1> QED  BY <1>6, <1>8, <1>10, <1>11, ClerkKeeps

LEMMA DrawEventNumberKeeps ==
  ASSUME NumbersInv, NEW c \in Clerks, DrawEventNumber(c)
  PROVE  NumbersInv' /\ TablesGrow
<1>1. PICK j : j = job[c]
  OBVIOUS
<1>2. PICK type, number : type = "lifecycle_event" /\ number = Issued(db, type)
  OBVIOUS
<1>3. PICK next : next = [j EXCEPT !.at = "event", !.number = number]
  OBVIOUS
<1>4. Commanding(j) /\ j.at = "event_number" /\ job' = [job EXCEPT ![c] = next]
      /\ db' = Issue(db, type)
  BY <1>1, <1>2, <1>3, StepIs DEF DrawEventNumber, CommandSteps
<1>5. type \in EntityTypes
  BY <1>2, TypesAre
<1>6. /\ TablesGrow /\ StoreShape(db') /\ RowsInv'
      /\ number = db.last[type] + 1 /\ db'.last[type] = db.last[type] + 1
      /\ db.last[type] \in Nat
  BY <1>2, <1>4, <1>5, IssueKeepsRows
<1>7. /\ DOMAIN next = JobFields /\ next.at = "event" /\ next.call = j.call
      /\ next.number = number /\ next.row = j.row
  BY <1>3, <1>4 DEF Commanding, JobFields
<1>8. Held(next)'
  <2>1. Commanding(j)'
    BY <1>4, <1>6, CommandingStays
  <2>2. next.number \in Nat /\ next.number <= db'.last["lifecycle_event"]
    BY <1>2, <1>6, <1>7
  <2>3. /\ next.call.op \in Commanded /\ next.call.import \in Nat
        /\ next.call.op = "organization"
        /\ next.row \in DOMAIN Rows(next.call.op)'
        /\ Rows(next.call.op)'[next.row].call = next.call
    BY <1>4, <1>7, <2>1 DEF Commanding
  <2>4. Commanding(next)'
    BY <1>7, <2>2, <2>3 DEF Commanding, CommandSteps
  <2> QED  BY <2>4 DEF Held
<1>9. ASSUME NEW t \in RowTypes, NEW other \in Clerks \ {c},
             DrawnBy(next, t), DrawnBy(job[other], t)
      PROVE  next.number # job[other].number
  <2>1. t = type
    BY <1>2, <1>7, <1>9 DEF DrawnBy
  <2>2. Commanding(job[other])
    BY <1>9, HeldAt DEF NumbersInv, CommandSteps, DrawnBy
  <2>3. job[other].at = "event"
    BY <1>2, <1>9, <2>1, <2>2, TypesAre DEF DrawnBy, Commanding
  <2>4. job[other].number <= db.last[type] /\ job[other].number \in Nat
    BY <1>2, <2>2, <2>3 DEF Commanding
  <2> QED  BY <1>6, <1>7, <2>4
<1>10. \A t \in RowTypes : \A other \in Clerks \ {c} :
         DrawnBy(next, t) /\ DrawnBy(job[other], t) => next.number # job[other].number
  BY <1>9
<1>11. job' = [job EXCEPT ![c] = next]
  BY <1>4
<1> QED  BY <1>6, <1>8, <1>10, <1>11, ClerkKeeps

LEMMA AfterIs ==
  ASSUME NEW call, call.op \in Commanded
  PROVE  /\ After(call) \in {"amend", "event_number", "audit"}
         /\ After(call) = "event_number" <=> call.op = "organization"
BY TypesAre DEF After

\* A row put in a table, with a number its sequence has passed.
LEMMA InsertKeepsRows ==
  ASSUME NumbersInv, NEW type \in RowTypes, NEW row, db' = Insert(db, type, row),
         RowShape(type, row), row.number \in Nat, row.number <= db.last[type]
  PROVE  /\ TablesGrow /\ StoreShape(db') /\ RowsInv'
         /\ Len(Rows(type)) + 1 \in DOMAIN db'.rows[type]
         /\ db'.rows[type][Len(Rows(type)) + 1] = row
         /\ Len(Rows(type)) \in Nat /\ DOMAIN Rows(type) = 1..Len(Rows(type))
<1>1. /\ StoreShape(db') /\ db'.last = db.last
      /\ \A t \in RowTypes : t # type => db'.rows[t] = db.rows[t]
      /\ Len(db.rows[type]) \in Nat
      /\ DOMAIN db.rows[type] = 1..Len(db.rows[type])
      /\ DOMAIN db'.rows[type] = 1..Len(db.rows[type]) + 1
      /\ \A r \in DOMAIN db.rows[type] : db'.rows[type][r] = db.rows[type][r]
      /\ db'.rows[type][Len(db.rows[type]) + 1] = row
  BY InsertDoes DEF NumbersInv
<1>2. PICK n \in Nat : n = Len(db.rows[type])
  BY <1>1
<1>3. \A t \in EntityTypes : db.last[t] \in Nat
  BY DEF NumbersInv, StoreShape
<1>4. \A r \in DOMAIN db'.rows[type] : r \in DOMAIN db.rows[type] \/ r = n + 1
  BY <1>1, <1>2
<1>5. \A r \in DOMAIN db.rows[type] : r \in DOMAIN db'.rows[type]
  BY <1>1, <1>2
<1>6. TablesGrow
  BY <1>1, <1>3, <1>5 DEF TablesGrow, Rows
<1>7. RowsInv'
  <2>1. ASSUME NEW t \in RowTypes, NEW r \in DOMAIN db'.rows[t]
        PROVE  \/ db'.rows[t][r] = row /\ t = type
               \/ r \in DOMAIN db.rows[t] /\ db'.rows[t][r] = db.rows[t][r]
    BY <1>1, <1>2, <1>4, <2>1
  <2>2. ASSUME NEW t \in RowTypes, NEW r \in DOMAIN db.rows[t]
        PROVE  /\ RowShape(t, db.rows[t][r]) /\ db.rows[t][r].number \in Nat
               /\ db.rows[t][r].number <= db.last[t]
    BY DEF NumbersInv, RowsInv, Rows
  <2>3. ASSUME NEW t \in RowTypes, NEW r \in DOMAIN db'.rows[t]
        PROVE  /\ RowShape(t, db'.rows[t][r]) /\ db'.rows[t][r].number \in Nat
               /\ db'.rows[t][r].number <= db'.last[t]
    BY <1>1, <2>1, <2>2
  <2> QED  BY <2>3 DEF RowsInv, Rows
<1>8. n + 1 \in DOMAIN db'.rows[type]
  BY <1>1, <1>2
<1> QED  BY <1>1, <1>2, <1>6, <1>7, <1>8 DEF Rows

LEMMA InsertRowKeeps ==
  ASSUME NumbersInv, NEW c \in Clerks, InsertRow(c)
  PROVE  NumbersInv' /\ TablesGrow
<1>1. PICK j : j = job[c]
  OBVIOUS
<1>2. PICK type, row, n :
        /\ type = j.call.op /\ n = Len(Rows(type)) + 1
        /\ row = [number |-> j.number, call |-> j.call, amended |-> FALSE]
  OBVIOUS
<1>3. PICK next : next = [j EXCEPT !.at = After(j.call), !.row = n]
  OBVIOUS
<1>4. Commanding(j) /\ j.at = "insert" /\ job' = [job EXCEPT ![c] = next]
      /\ db' = Insert(db, type, row)
  BY <1>1, <1>2, <1>3, StepIs DEF InsertRow, Op, NewRow, CommandSteps
<1>5. /\ type \in Commanded /\ type \in RowTypes /\ type # "lifecycle_event"
      /\ j.number \in Nat /\ j.number <= db.last[type]
  BY <1>2, <1>4, TypesAre DEF Commanding
<1>6. DOMAIN row = {"number", "call", "amended"} /\ row.number = j.number /\ row.call = j.call
  BY <1>2
<1>7. RowShape(type, row)
  BY <1>2, <1>5, <1>6 DEF RowShape
<1>8. /\ TablesGrow /\ StoreShape(db') /\ RowsInv'
      /\ n \in DOMAIN db'.rows[type] /\ db'.rows[type][n] = row /\ n \in Nat
  <2>1. row.number \in Nat /\ row.number <= db.last[type]
    BY <1>5, <1>6
  <2>2. /\ TablesGrow /\ StoreShape(db') /\ RowsInv'
        /\ Len(Rows(type)) + 1 \in DOMAIN db'.rows[type]
        /\ db'.rows[type][Len(Rows(type)) + 1] = row
        /\ Len(Rows(type)) \in Nat
    BY <1>4, <1>5, <1>7, <2>1, InsertKeepsRows
  <2> QED  BY <1>2, <2>2
<1>9. /\ DOMAIN next = JobFields /\ next.at = After(j.call) /\ next.call = j.call
      /\ next.number = j.number /\ next.row = n
  BY <1>3, <1>4 DEF Commanding, JobFields
<1>10. /\ next.at \in {"amend", "event_number", "audit"}
       /\ next.at = "event_number" <=> j.call.op = "organization"
  BY <1>4, <1>9, AfterIs DEF Commanding
<1>11. Commanding(next)'
  <2>1. next.at \in CommandSteps /\ next.at \notin {"reserve", "insert", "event"}
    BY <1>10 DEF CommandSteps
  <2> QED  BY <1>2, <1>4, <1>5, <1>6, <1>8, <1>9, <1>10, <2>1 DEF Commanding, Rows
<1>12. \A t : ~DrawnBy(next, t)
  BY <1>10 DEF DrawnBy
<1> QED  BY <1>4, <1>8, <1>11, <1>12, ClerkKeeps DEF Held

LEMMA AmendKeepsRows ==
  ASSUME NumbersInv, NEW type \in Commanded, NEW row \in DOMAIN Rows(type),
         db' = Amend(db, type, row)
  PROVE  /\ TablesGrow /\ StoreShape(db') /\ RowsInv'
         /\ db'.rows[type][row].amended
         /\ \A t \in RowTypes : DOMAIN db'.rows[t] = DOMAIN db.rows[t]
<1>1. /\ type \in RowTypes /\ row \in DOMAIN db.rows[type]
      /\ DOMAIN db.rows[type][row] = {"number", "call", "amended"}
  BY TypesAre DEF NumbersInv, RowsInv, RowShape, Rows
<1>2. /\ StoreShape(db') /\ db'.last = db.last
      /\ \A t \in RowTypes : t # type => db'.rows[t] = db.rows[t]
      /\ DOMAIN db'.rows[type] = DOMAIN db.rows[type]
      /\ \A r \in DOMAIN db.rows[type] : r # row => db'.rows[type][r] = db.rows[type][r]
      /\ DOMAIN db'.rows[type][row] = {"number", "call", "amended"}
      /\ db'.rows[type][row].number = db.rows[type][row].number
      /\ db'.rows[type][row].call = db.rows[type][row].call
      /\ db'.rows[type][row].amended
  <2>1. StoreShape(db)
    BY DEF NumbersInv
  <2> QED  BY <1>1, <2>1, AmendDoes
<1>3. \A t \in EntityTypes : db.last[t] \in Nat
  BY DEF NumbersInv, StoreShape
<1>4. TablesGrow
  BY <1>2, <1>3 DEF TablesGrow, Rows
<1>5. ASSUME NEW t \in RowTypes, NEW r \in DOMAIN db'.rows[t]
      PROVE  /\ RowShape(t, db'.rows[t][r])
             /\ db'.rows[t][r].number \in Nat /\ db'.rows[t][r].number <= db.last[t]
  <2>1. r \in DOMAIN db.rows[t]
    BY <1>2, <1>5
  <2>2. /\ RowShape(t, db.rows[t][r])
        /\ db.rows[t][r].number \in Nat /\ db.rows[t][r].number <= db.last[t]
    BY <2>1 DEF NumbersInv, RowsInv, Rows
  <2>3. CASE t = type /\ r = row
    BY <1>1, <1>2, <2>2, <2>3, TypesAre DEF RowShape
  <2>4. CASE ~(t = type /\ r = row)
    BY <1>2, <2>1, <2>2, <2>4
  <2> QED  BY <2>3, <2>4
<1>6. RowsInv'
  BY <1>2, <1>5 DEF RowsInv, Rows
<1> QED  BY <1>2, <1>4, <1>6

LEMMA AmendRowKeeps ==
  ASSUME NumbersInv, NEW c \in Clerks, AmendRow(c)
  PROVE  NumbersInv' /\ TablesGrow
<1>1. PICK j : j = job[c]
  OBVIOUS
<1>2. PICK type, row : type = j.call.op /\ row = j.row
  OBVIOUS
<1>3. PICK next : next = [j EXCEPT !.at = "audit"]
  OBVIOUS
<1>4. Commanding(j) /\ j.at = "amend" /\ job' = [job EXCEPT ![c] = next]
      /\ db' = Amend(db, type, row)
  BY <1>1, <1>2, <1>3, StepIs DEF AmendRow, Op, CommandSteps
<1>5. type \in Commanded /\ row \in DOMAIN Rows(type)
  BY <1>2, <1>4 DEF Commanding
<1>6. /\ TablesGrow /\ StoreShape(db') /\ RowsInv'
  BY <1>4, <1>5, AmendKeepsRows
<1>7. /\ DOMAIN next = JobFields /\ next.at = "audit" /\ next.call = j.call
      /\ next.number = j.number /\ next.row = j.row
  BY <1>3, <1>4 DEF Commanding, JobFields
<1>8. Commanding(next)'
  <2>1. Commanding(j)'
    BY <1>4, <1>6, CommandingStays
  <2> QED  BY <1>4, <1>7, <2>1 DEF Commanding, CommandSteps
<1>9. \A t : ~DrawnBy(next, t)
  BY <1>7 DEF DrawnBy
<1> QED  BY <1>4, <1>6, <1>8, <1>9, ClerkKeeps DEF Held

LEMMA InsertEventKeeps ==
  ASSUME NumbersInv, NEW c \in Clerks, InsertEvent(c)
  PROVE  NumbersInv' /\ TablesGrow
<1>1. PICK j : j = job[c]
  OBVIOUS
<1>2. PICK row : row = [number |-> j.number, organization |-> j.row]
  OBVIOUS
<1>3. PICK next : next = [j EXCEPT !.at = "audit"]
  OBVIOUS
<1>4. Commanding(j) /\ j.at = "event" /\ job' = [job EXCEPT ![c] = next]
      /\ db' = Insert(db, "lifecycle_event", row)
  BY <1>1, <1>2, <1>3, StepIs DEF InsertEvent, CommandSteps
<1>5. /\ row.number \in Nat /\ row.number <= db.last["lifecycle_event"]
      /\ RowShape("lifecycle_event", row)
  BY <1>2, <1>4 DEF Commanding, RowShape
<1>6. /\ TablesGrow /\ StoreShape(db') /\ RowsInv'
  BY <1>4, <1>5, InsertKeepsRows, TypesAre
<1>7. /\ DOMAIN next = JobFields /\ next.at = "audit" /\ next.call = j.call
      /\ next.number = j.number /\ next.row = j.row
  BY <1>3, <1>4 DEF Commanding, JobFields
<1>8. Commanding(next)'
  <2>1. Commanding(j)'
    BY <1>4, <1>6, CommandingStays
  <2> QED  BY <1>4, <1>7, <2>1 DEF Commanding, CommandSteps
<1>9. \A t : ~DrawnBy(next, t)
  BY <1>7 DEF DrawnBy
<1> QED  BY <1>4, <1>6, <1>8, <1>9, ClerkKeeps DEF Held

LEMMA AuditRowKeeps ==
  ASSUME NumbersInv, NEW c \in Clerks, AuditRow(c)
  PROVE  NumbersInv' /\ TablesGrow /\ db'.rows = db.rows /\ db'.last = db.last
<1>1. PICK type, row : db' = Audited(db, type, row) /\ job' = [job EXCEPT ![c] = Idle]
  BY DEF AuditRow, Step
<1>2. StoreShape(db') /\ db'.last = db.last /\ db'.rows = db.rows
  BY <1>1, AuditDoes DEF NumbersInv
<1>3. \A t \in EntityTypes : db.last[t] \in Nat
  BY DEF NumbersInv, StoreShape
<1>4. TablesGrow
  BY <1>2, <1>3 DEF TablesGrow, Rows
<1>5. RowsInv'
  BY <1>2 DEF NumbersInv, RowsInv, Rows
<1>6. Held(Idle)'
  BY DEF Held
<1>7. \A t : ~DrawnBy(Idle, t)
  BY IdleIsQuiet DEF DrawnBy
<1>8. NumbersInv' /\ TablesGrow
  BY <1>1, <1>2, <1>4, <1>5, <1>6, <1>7, ClerkKeeps
<1> QED  BY <1>2, <1>8

LEMMA RefusedKeeps ==
  ASSUME NumbersInv, NEW c \in Clerks, RefuseRow(c) \/ CitationFails(c)
  PROVE  NumbersInv' /\ TablesGrow
<1>1. db' = db /\ job' = [job EXCEPT ![c] = Idle]
  BY DEF RefuseRow, CitationFails, Step
<1> QED  BY <1>1, QuietKeeps, IdleIsQuiet

LEMMA CommandKeeps ==
  ASSUME NumbersInv, NEW c \in Clerks, Command(c)
  PROVE  NumbersInv' /\ TablesGrow
<1>1. ASSUME CreateMarket(c) \/ CreateOrganization(c) \/ AddMembership(c)
             \/ Evaluate(c) \/ CalculateCci(c) \/ AddAction(c)
      PROVE  NumbersInv' /\ TablesGrow
  BY <1>1, CommandsBegin, BeginKeeps
<1>2. ASSUME CommandStep(c)
      PROVE  NumbersInv' /\ TablesGrow
  BY <1>2, ReserveNumberKeeps, DrawNumberKeeps, InsertRowKeeps, RefusedKeeps, AmendRowKeeps,
     DrawEventNumberKeeps, InsertEventKeeps, AuditRowKeeps DEF CommandStep
<1> QED  BY <1>1, <1>2 DEF Command

-----------------------------------------------------------------------------
(* The steps of a run: they leave the tables alone.                        *)

\* A save that goes through, and one that is cut short.
LEMMA SaveDoes ==
  ASSUME NEW c, NEW kind, NEW id, NEW body, NEW next, NEW remembered,
         Save(c, FALSE, kind, id, body, next, remembered)
  PROVE  /\ job' = [job EXCEPT ![c] = next] /\ db' = db /\ calls' = calls
         /\ files' = [files EXCEPT ![kind] = Written(@, id, body)]
         /\ completed' = [completed EXCEPT ![c] = remembered] /\ faults' = faults
BY DEF Save

LEMMA SaveIsCut ==
  ASSUME NEW c, NEW kind, NEW id, NEW body, NEW next, NEW remembered,
         Save(c, TRUE, kind, id, body, next, remembered)
  PROVE  /\ job' = [job EXCEPT ![c] = Idle] /\ db' = db /\ calls' = calls
         /\ files' = [files EXCEPT ![kind] = Written(@, id, Torn)]
         /\ completed' = [completed EXCEPT ![c] = {}] /\ faults' = faults + 1
BY DEF Save

LEMMA CutsAre ==
  \A cut \in Cuts : cut = TRUE \/ cut = FALSE
BY DEF Cuts

\* What a run's next job is, and what the job was.
RunGoesTo(c, next) ==
  /\ job' = [job EXCEPT ![c] = next] /\ db' = db
  /\ next = Idle \/ Running(next)

LEMMA ReadGoes ==
  ASSUME NumbersInv, NEW c \in Clerks, NEW at \in RunSteps, NEW to \in RunSteps,
         Read(c, at, to)
  PROVE  \E next : RunGoesTo(c, next)
<1>1. Running(job[c])
  BY HeldAt DEF Read, Stage, NumbersInv
<1> DEFINE next == [job[c] EXCEPT !.at = to, !.seen = Append(@, Scores(c))]
<1>2. DOMAIN next = RunFields /\ next.at = to
  BY <1>1 DEF Running, RunFields
<1>3. job' = [job EXCEPT ![c] = next] /\ db' = db
  BY DEF Read, Stage
<1> HIDE DEF next
<1> QED  BY <1>2, <1>3 DEF RunGoesTo, Running

LEMMA StageGoes ==
  ASSUME NumbersInv, NEW c \in Clerks, NEW at \in RunSteps, NEW to \in RunSteps,
         NEW status, job[c].at = at, db' = db,
         \/ job' = [job EXCEPT ![c] = [job[c] EXCEPT !.at = to]]
         \/ job' = [job EXCEPT ![c] = [job[c] EXCEPT !.at = to, !.status = status]]
         \/ job' = [job EXCEPT ![c] = [job[c] EXCEPT !.at = to, !.status = status,
                                                     !.seen = Append(@, Scores(c))]]
         \/ job' = [job EXCEPT ![c] = Idle]
  PROVE  \E next : RunGoesTo(c, next)
<1>1. Running(job[c])
  BY HeldAt DEF NumbersInv
<1> DEFINE one == [job[c] EXCEPT !.at = to]
           two == [job[c] EXCEPT !.at = to, !.status = status]
           three == [job[c] EXCEPT !.at = to, !.status = status, !.seen = Append(@, Scores(c))]
<1>2. /\ DOMAIN one = RunFields /\ one.at = to
      /\ DOMAIN two = RunFields /\ two.at = to
      /\ DOMAIN three = RunFields /\ three.at = to
  BY <1>1 DEF Running, RunFields
<1>3. PICK next \in {one, two, three, Idle} : job' = [job EXCEPT ![c] = next]
  OBVIOUS
<1> HIDE DEF one, two, three
<1>4. next = Idle \/ Running(next)
  BY <1>2, <1>3 DEF Running
<1> QED  BY <1>3, <1>4 DEF RunGoesTo

LEMMA GoesIdle ==
  ASSUME NEW c, job' = [job EXCEPT ![c] = Idle], db' = db
  PROVE  \E next : RunGoesTo(c, next)
BY DEF RunGoesTo

LEMMA StartGoes ==
  ASSUME NumbersInv, NEW c \in Clerks, NEW request, NEW cut \in Cuts, StartRun(c, request, cut)
  PROVE  \E next : RunGoesTo(c, next)
<1> DEFINE first == [at |-> "validate", run |-> runs + 1, request |-> request,
                     status |-> "Running", seen |-> <<>>]
           body == [request |-> request, ended |-> FALSE]
<1>1. CASE cut = TRUE
  <2>1. StartRun(c, request, TRUE)
    BY <1>1
  <2>2. job' = [job EXCEPT ![c] = Idle] /\ db' = db
    BY <2>1 DEF StartRun, Save
  <2> QED  BY <2>2, GoesIdle
<1>2. CASE cut = FALSE
  <2>1. StartRun(c, request, FALSE)
    BY <1>2
  <2>2. job' = [job EXCEPT ![c] = first] /\ db' = db
    BY <2>1 DEF StartRun, Save
  <2>3. DOMAIN first = RunFields /\ first.at \in RunSteps
    BY DEF RunFields, RunSteps
  <2> HIDE DEF first
  <2> QED  BY <2>2, <2>3 DEF RunGoesTo, Running
<1> QED  BY <1>1, <1>2, CutsAre

LEMMA EndManifestGoes ==
  ASSUME NumbersInv, NEW c \in Clerks, EndManifest(c, TRUE) \/ EndManifest(c, FALSE)
  PROVE  \E next : RunGoesTo(c, next)
<1>1. CASE EndManifest(c, TRUE)
  <2>1. job' = [job EXCEPT ![c] = Idle] /\ db' = db
    BY <1>1 DEF EndManifest, Save
  <2> QED  BY <2>1, GoesIdle
<1>2. CASE EndManifest(c, FALSE)
  <2>1. /\ job' = [job EXCEPT ![c] = [job[c] EXCEPT !.at = "receipt"]] /\ db' = db
        /\ job[c].at = "manifest"
    BY <1>2 DEF EndManifest, Save
  <2>2. "manifest" \in RunSteps /\ "receipt" \in RunSteps
    BY DEF RunSteps
  <2> QED  BY <2>1, <2>2, StageGoes
<1> QED  BY <1>1, <1>2

LEMMA SaveReceiptGoes ==
  ASSUME NumbersInv, NEW c \in Clerks, SaveReceipt(c, TRUE) \/ SaveReceipt(c, FALSE)
  PROVE  \E next : RunGoesTo(c, next)
<1>1. job' = [job EXCEPT ![c] = Idle] /\ db' = db
  <2>1. CASE SaveReceipt(c, TRUE)
    BY <2>1 DEF SaveReceipt, Save
  <2>2. CASE SaveReceipt(c, FALSE)
    BY <2>2 DEF SaveReceipt, Save
  <2> QED  BY <2>1, <2>2
<1> QED  BY <1>1, GoesIdle

LEMMA RunStepGoes ==
  ASSUME NumbersInv, NEW c \in Clerks, RunStep(c)
  PROVE  \E next : RunGoesTo(c, next)
<1>1. /\ "validate" \in RunSteps /\ "resolve" \in RunSteps /\ "profile" \in RunSteps
      /\ "decision" \in RunSteps /\ "report" \in RunSteps /\ "brief_tiles" \in RunSteps
      /\ "brief_decision" \in RunSteps /\ "manifest" \in RunSteps
  BY DEF RunSteps
<1>2. CASE Validate(c)
  BY <1>1, <1>2, StageGoes DEF Validate, Stage
<1>3. CASE Resolve(c)
  BY <1>1, <1>3, StageGoes DEF Resolve, Stage
<1>4. CASE ReadTiles(c)
  BY <1>1, <1>4, ReadGoes DEF ReadTiles
<1>5. CASE ReadDecision(c)
  BY <1>1, <1>5, ReadGoes DEF ReadDecision
<1>6. CASE Report(c)
  <2>1. PICK status : \/ job' = [job EXCEPT ![c] = [job[c] EXCEPT !.at = "brief_tiles"]]
                      \/ job' = [job EXCEPT ![c] = [job[c] EXCEPT !.at = "manifest",
                                                                  !.status = status]]
    BY <1>6 DEF Report, Stage
  <2>2. job[c].at = "report" /\ db' = db
    BY <1>6 DEF Report, Stage
  <2> QED  BY <1>1, <2>1, <2>2, StageGoes
<1>7. CASE ReadBriefTiles(c)
  BY <1>1, <1>7, ReadGoes DEF ReadBriefTiles
<1>8. CASE ReadBriefDecision(c)
  BY <1>1, <1>8, StageGoes DEF ReadBriefDecision, Stage
<1> QED  BY <1>2, <1>3, <1>4, <1>5, <1>6, <1>7, <1>8, EndManifestGoes, SaveReceiptGoes DEF RunStep

LEMMA FaultGoes ==
  ASSUME NumbersInv, NEW c \in Clerks, Raise(c) \/ ResolutionFails(c) \/ Die(c)
  PROVE  \E next : RunGoesTo(c, next)
<1>1. CASE Raise(c) \/ Die(c)
  <2>1. job' = [job EXCEPT ![c] = Idle] /\ db' = db
    BY <1>1 DEF Raise, Fail, Die
  <2> QED  BY <2>1, GoesIdle
<1>2. CASE ResolutionFails(c)
  <2>1. job' = [job EXCEPT ![c] = [job[c] EXCEPT !.at = "manifest",
                                                 !.status = "Revalidation_Required"]]
    BY <1>2 DEF ResolutionFails, NumbersInv
  <2>2. job[c].at = "resolve" /\ db' = db
    BY <1>2 DEF ResolutionFails
  <2>3. "resolve" \in RunSteps /\ "manifest" \in RunSteps
    BY DEF RunSteps
  <2> QED  BY <2>1, <2>2, <2>3, StageGoes
<1> QED  BY <1>1, <1>2

\* The steps there are: of a command, of a run, and of what cuts one short.
LEMMA StepsAre ==
  ASSUME NumbersInv, Next
  PROVE  \E c \in Clerks : \/ Command(c) /\ UNCHANGED <<files, completed, runs>>
                           \/ \E next : RunGoesTo(c, next)
<1>1. PICK c \in Clerks :
        \/ Command(c) /\ UNCHANGED <<files, completed, runs>>
        \/ \E request \in Requests, cut \in Cuts : StartRun(c, request, cut)
        \/ RunStep(c) \/ CutShort(c) \/ Raise(c) \/ ResolutionFails(c) \/ Die(c)
  BY DEF Next
<1>2. CASE CutShort(c)
  BY <1>2, EndManifestGoes, SaveReceiptGoes DEF CutShort
<1> QED  BY <1>1, <1>2, StartGoes, RunStepGoes, FaultGoes

LEMMA RunKeeps ==
  ASSUME NumbersInv, NEW c \in Clerks, NEW next, RunGoesTo(c, next)
  PROVE  NumbersInv' /\ TablesGrow
<1>1. Held(next) /\ next.at \notin {"insert", "event"}
  <2>1. CASE next = Idle
    BY <2>1, IdleIsQuiet
  <2>2. CASE Running(next)
    BY <2>2 DEF Running, RunSteps, Held
  <2> QED  BY <2>1, <2>2 DEF RunGoesTo
<1> QED  BY <1>1, QuietKeeps DEF RunGoesTo

LEMMA NumbersAreKept ==
  NumbersInv /\ [Next]_vars => NumbersInv'
<1> SUFFICES ASSUME NumbersInv, [Next]_vars PROVE NumbersInv'
  OBVIOUS
<1>1. CASE Next
  BY <1>1, StepsAre, CommandKeeps, RunKeeps
<1>2. CASE UNCHANGED vars
  <2>1. db' = db /\ job' = job
    BY <1>2 DEF vars
  <2>2. TablesGrow /\ StoreShape(db') /\ RowsInv'
    BY <2>1, TablesStay
  <2>3. ASSUME NEW c \in Clerks
        PROVE  Held(job[c])'
    <3>1. PICK j : j = job[c]
      OBVIOUS
    <3>2. Held(j)'
      BY <2>2, <3>1, HeldStays DEF NumbersInv
    <3>3. job'[c] = j
      BY <2>1, <3>1
    <3> QED  BY <3>2, <3>3
  <2>4. DrawnApart'
    BY <2>1 DEF NumbersInv, DrawnApart, DrawnBy
  <2> QED  BY <2>1, <2>2, <2>3, <2>4 DEF NumbersInv
<1> QED  BY <1>1, <1>2

-----------------------------------------------------------------------------
(* The start, and the numbers.                                             *)

LEMMA EmptyShape ==
  /\ StoreShape(EmptyStore)
  /\ \A type \in RowTypes : EmptyStore.rows[type] = <<>>
<1> DEFINE none == [type \in RowTypes |-> <<>>]
<1>1. /\ DOMAIN EmptyStore = Tables /\ EmptyStore.last = [type \in EntityTypes |-> 0]
      /\ EmptyStore.rows = none
  BY DEF EmptyStore, Tables
<1>2. DOMAIN none = RowTypes /\ \A type \in RowTypes : none[type] = <<>>
  OBVIOUS
<1>3. <<>> \in Seq({})
  OBVIOUS
<1>4. [type \in EntityTypes |-> 0] \in [EntityTypes -> Nat]
  OBVIOUS
<1> HIDE DEF none
<1>5. \A type \in RowTypes : EmptyStore.rows[type] = <<>>
  BY <1>1, <1>2
<1>6. \A type \in RowTypes : \E S : EmptyStore.rows[type] \in Seq(S)
  BY <1>3, <1>5
<1> QED  BY <1>1, <1>2, <1>4, <1>5, <1>6 DEF StoreShape

LEMMA SeedRowsAre ==
  /\ DOMAIN SeedRows = RowTypes
  /\ \A type \in RowTypes :
       \E row : /\ SeedRows[type] = <<row>> /\ RowShape(type, row) /\ row.number = 1
<1>1. DOMAIN SeedRows = RowTypes
  BY DEF SeedRows
<1>2. \E row : /\ SeedRows["market"] = <<row>> /\ RowShape("market", row) /\ row.number = 1
  BY DEF SeedRows, Numbered, RowShape, RowTypes, EntityTypes
<1>3. \E row : /\ SeedRows["organization"] = <<row>> /\ RowShape("organization", row)
               /\ row.number = 1
  BY DEF SeedRows, Numbered, RowShape, RowTypes, EntityTypes
<1>4. \E row : /\ SeedRows["membership"] = <<row>> /\ RowShape("membership", row)
               /\ row.number = 1
  BY DEF SeedRows, Numbered, RowShape, RowTypes, EntityTypes
<1>5. \E row : /\ SeedRows["scorecard"] = <<row>> /\ RowShape("scorecard", row)
               /\ row.number = 1
  BY DEF SeedRows, Numbered, RowShape, RowTypes, EntityTypes
<1>6. \E row : /\ SeedRows["action"] = <<row>> /\ RowShape("action", row) /\ row.number = 1
  BY DEF SeedRows, Numbered, RowShape, RowTypes, EntityTypes
<1>7. \E row : /\ SeedRows["lifecycle_event"] = <<row>> /\ RowShape("lifecycle_event", row)
               /\ row.number = 1
  BY DEF SeedRows, Numbered, RowShape, RowTypes, EntityTypes
<1> QED  BY <1>1, <1>2, <1>3, <1>4, <1>5, <1>6, <1>7 DEF RowTypes, EntityTypes

LEMMA NumbersAreRightAtFirst ==
  Init => NumbersInv
<1> SUFFICES ASSUME Init PROVE NumbersInv
  OBVIOUS
<1>1. /\ DOMAIN job = Clerks /\ \A c \in Clerks : job[c] = Idle
  BY DEF Init, RegistryInit
<1>2. (\A c \in Clerks : Held(job[c])) /\ DrawnApart
  BY <1>1, IdleIsQuiet DEF DrawnApart, DrawnBy
<1>3. PICK seed \in Seeds : db = Seeded(seed)
  BY DEF Init, RegistryInit
<1>4. CASE seed = "new"
  <2>1. db = EmptyStore
    BY <1>3, <1>4 DEF Seeded
  <2>2. \A type \in RowTypes : DOMAIN db.rows[type] = {}
    BY <2>1, EmptyShape
  <2>3. StoreShape(db) /\ RowsInv
    BY <2>1, <2>2, EmptyShape DEF RowsInv, Rows
  <2> QED  BY <1>1, <1>2, <2>3 DEF NumbersInv
<1>5. CASE seed # "new"
  <2> DEFINE lasts == [type \in EntityTypes |->
                         IF type = "evidence" THEN 0 ELSE Len(SeedRows[type])]
  <2>1. DOMAIN db = Tables /\ db.rows = SeedRows /\ db.last = lasts
    BY <1>3, <1>5 DEF Seeded, EmptyStore, Tables
  <2>2. ASSUME NEW type \in RowTypes
        PROVE  /\ \E S : SeedRows[type] \in Seq(S)
               /\ Len(SeedRows[type]) = 1 /\ DOMAIN SeedRows[type] = {1}
               /\ RowShape(type, SeedRows[type][1]) /\ SeedRows[type][1].number = 1
    <3>1. PICK row : SeedRows[type] = <<row>> /\ RowShape(type, row) /\ row.number = 1
      BY SeedRowsAre
    <3>2. <<row>> \in Seq({row}) /\ Len(<<row>>) = 1 /\ DOMAIN <<row>> = {1} /\ <<row>>[1] = row
      OBVIOUS
    <3> QED  BY <3>1, <3>2
  <2>3. lasts \in [EntityTypes -> Nat] /\ \A type \in RowTypes : lasts[type] = 1
    BY <2>2 DEF RowTypes
  <2> HIDE DEF lasts
  <2>4. StoreShape(db)
    BY <2>1, <2>2, <2>3, SeedRowsAre DEF StoreShape
  <2>5. RowsInv
    BY <2>1, <2>2, <2>3 DEF RowsInv, Rows
  <2> QED  BY <1>1, <1>2, <2>4, <2>5 DEF NumbersInv
<1> QED  BY <1>4, <1>5

LEMMA NumbersHold ==
  Spec => []NumbersInv
<1> QED  BY NumbersAreRightAtFirst, NumbersAreKept, PTL DEF Spec

\* What is on file or held is behind its sequence, and two commands never
\* hold the same drawn number: next_cof_id commits each draw by itself, and an
\* explicit identifier moves the sequence up before it is used.
THEOREM NumbersAreAlwaysIssuedOnce ==
  Spec => []NumbersAreIssuedOnce
<1>1. ASSUME NumbersInv
      PROVE  NumbersAreIssuedOnce
  <2>1. ASSUME NEW c \in Clerks, job[c].at = "insert"
        PROVE  job[c].number <= db.last[Op(c)]
    BY <1>1, <2>1, HeldAt DEF NumbersInv, CommandSteps, Commanding, Op
  <2>2. \A c \in Clerks, type \in RowTypes : Drawn(c, type) <=> DrawnBy(job[c], type)
    BY DEF Drawn, DrawnBy, Op
  <2>3. \A type \in RowTypes : \A row \in DOMAIN Rows(type) :
          Rows(type)[row].number <= db.last[type]
    BY <1>1 DEF NumbersInv, RowsInv
  <2>4. \A type \in RowTypes : \A c, other \in Clerks :
          Drawn(c, type) /\ Drawn(other, type) /\ job[c].number = job[other].number
            => c = other
    BY <1>1, <2>2 DEF NumbersInv, DrawnApart
  <2> QED  BY <2>1, <2>3, <2>4 DEF NumbersAreIssuedOnce
<1> QED  BY <1>1, NumbersHold, PTL

-----------------------------------------------------------------------------
(* What each transaction of a command does to its job and to the tables.   *)

\* What a transaction may add to: audit entries, amendments and events stay.
MoreDone ==
  /\ db.audit \subseteq db'.audit
  /\ \A type \in Commanded : \A row \in DOMAIN Rows(type) :
       Rows(type)[row].amended => db'.rows[type][row].amended
  /\ \A event \in DOMAIN Rows("lifecycle_event") :
       db'.rows["lifecycle_event"][event] = Rows("lifecycle_event")[event]

SameRows(type) == DOMAIN db'.rows[type] = DOMAIN Rows(type)

\* The tables are left alone, but for numbers drawn.
Untouched == db'.rows = db.rows /\ db'.audit = db.audit

LEMMA UntouchedAdds ==
  ASSUME Untouched
  PROVE  MoreDone /\ \A type : SameRows(type)
BY DEF Untouched, MoreDone, SameRows, Rows

LEMMA InsertAdds ==
  ASSUME NumbersInv, NEW type \in RowTypes, NEW row, db' = Insert(db, type, row)
  PROVE  /\ MoreDone /\ \A t \in RowTypes : t # type => SameRows(t)
         /\ DOMAIN db'.rows[type] = DOMAIN Rows(type) \union {Len(Rows(type)) + 1}
         /\ db'.rows[type][Len(Rows(type)) + 1] = row
         /\ \A r \in DOMAIN Rows(type) : db'.rows[type][r] = Rows(type)[r]
         /\ Len(Rows(type)) + 1 \notin DOMAIN Rows(type)
<1>1. /\ db'.audit = db.audit
      /\ \A t \in RowTypes : t # type => db'.rows[t] = db.rows[t]
      /\ Len(db.rows[type]) \in Nat
      /\ DOMAIN db.rows[type] = 1..Len(db.rows[type])
      /\ DOMAIN db'.rows[type] = 1..Len(db.rows[type]) + 1
      /\ \A r \in DOMAIN db.rows[type] : db'.rows[type][r] = db.rows[type][r]
      /\ db'.rows[type][Len(db.rows[type]) + 1] = row
  BY InsertDoes DEF NumbersInv
<1>2. PICK n \in Nat : n = Len(db.rows[type])
  BY <1>1
<1>3. 1..n + 1 = (1..n) \union {n + 1} /\ n + 1 \notin 1..n
  BY <1>2
<1>4. \A t \in RowTypes : \A r \in DOMAIN db.rows[t] : db'.rows[t][r] = db.rows[t][r]
  BY <1>1
<1>5. MoreDone
  BY <1>1, <1>4, TypesAre DEF MoreDone, Rows
<1>6. \A t \in RowTypes : t # type => SameRows(t)
  BY <1>1 DEF SameRows, Rows
<1> QED  BY <1>1, <1>2, <1>3, <1>5, <1>6 DEF Rows

LEMMA AmendAdds ==
  ASSUME NumbersInv, NEW type \in Commanded, NEW row \in DOMAIN Rows(type),
         db' = Amend(db, type, row)
  PROVE  /\ MoreDone /\ \A t \in RowTypes : SameRows(t)
         /\ db'.rows[type][row].amended
<1>1. /\ type \in RowTypes /\ row \in DOMAIN db.rows[type] /\ type # "lifecycle_event"
      /\ DOMAIN db.rows[type][row] = {"number", "call", "amended"}
  BY TypesAre DEF NumbersInv, RowsInv, RowShape, Rows
<1>2. StoreShape(db)
  BY DEF NumbersInv
<1>3. /\ db'.audit = db.audit
      /\ \A t \in RowTypes : t # type => db'.rows[t] = db.rows[t]
      /\ DOMAIN db'.rows[type] = DOMAIN db.rows[type]
      /\ \A r \in DOMAIN db.rows[type] : r # row => db'.rows[type][r] = db.rows[type][r]
      /\ db'.rows[type][row].amended
  BY <1>1, <1>2, AmendDoes
<1>4. \A t \in RowTypes : SameRows(t)
  BY <1>3 DEF SameRows, Rows
<1>5. db'.rows["lifecycle_event"] = db.rows["lifecycle_event"]
  BY <1>1, <1>3, TypesAre
<1>6. ASSUME NEW t \in Commanded, NEW r \in DOMAIN db.rows[t], db.rows[t][r].amended
      PROVE  db'.rows[t][r].amended
  BY <1>3, <1>6, TypesAre
<1>7. MoreDone
  BY <1>3, <1>5, <1>6 DEF MoreDone, Rows
<1> QED  BY <1>3, <1>4, <1>7

LEMMA AuditAdds ==
  ASSUME NumbersInv, NEW type, NEW row, db' = Audited(db, type, row)
  PROVE  /\ MoreDone /\ \A t : SameRows(t)
         /\ db'.rows = db.rows /\ [action |-> type, row |-> row] \in db'.audit
<1>1. /\ db'.rows = db.rows
      /\ db'.audit = db.audit \union {[action |-> type, row |-> row]}
  BY AuditDoes DEF NumbersInv
<1> QED  BY <1>1 DEF MoreDone, SameRows, Rows

Moves(c, next) == job' = [job EXCEPT ![c] = next]

\* A number is drawn or reserved for the row.
LEMMA NumberIs ==
  ASSUME NumbersInv, NEW c \in Clerks, ReserveNumber(c) \/ DrawNumber(c)
  PROVE  \E next :
           /\ Commanding(job[c]) /\ job[c].at \in {"reserve", "number"}
           /\ Moves(c, next) /\ next.at = "insert" /\ DOMAIN next = JobFields
           /\ next.call = job[c].call /\ next.row = job[c].row
           /\ job[c].at = "number" => next.number = db.last[Op(c)] + 1
           /\ Untouched
<1>1. CASE ReserveNumber(c)
  <2>1. PICK j, number : j = job[c] /\ number = job[c].call.import
    OBVIOUS
  <2>2. PICK next : next = [j EXCEPT !.at = "insert", !.number = number]
    OBVIOUS
  <2>3. /\ Moves(c, next) /\ Commanding(j) /\ j.at = "reserve"
        /\ db' = Reserve(db, j.call.op, number)
    BY <1>1, <2>1, <2>2, StepIs DEF ReserveNumber, CommandSteps, Moves, Op
  <2>4. /\ next.at = "insert" /\ DOMAIN next = JobFields
        /\ next.call = j.call /\ next.row = j.row
    BY <2>2, <2>3 DEF Commanding, JobFields
  <2>5. number \in Nat /\ j.call.op \in EntityTypes
    BY <2>1, <2>3, TypesAre DEF Commanding
  <2>6. Untouched
    BY <2>3, <2>5, ReserveDoes DEF Untouched, NumbersInv
  <2> QED  BY <2>1, <2>3, <2>4, <2>6
<1>2. CASE DrawNumber(c)
  <2>1. PICK j, number : j = job[c] /\ number = Issued(db, Op(c))
    OBVIOUS
  <2>2. PICK next : next = [j EXCEPT !.at = "insert", !.number = number]
    OBVIOUS
  <2>3. /\ Moves(c, next) /\ Commanding(j) /\ j.at = "number"
        /\ db' = Issue(db, j.call.op)
    BY <1>2, <2>1, <2>2, StepIs DEF DrawNumber, CommandSteps, Moves, Op
  <2>4. /\ next.at = "insert" /\ DOMAIN next = JobFields /\ next.number = number
        /\ next.call = j.call /\ next.row = j.row
    BY <2>2, <2>3 DEF Commanding, JobFields
  <2>5. j.call.op \in EntityTypes
    BY <2>3, TypesAre DEF Commanding
  <2>6. Untouched
    BY <2>3, <2>5, IssueDoes DEF Untouched, NumbersInv
  <2> QED  BY <2>1, <2>3, <2>4, <2>6 DEF Issued
<1> QED  BY <1>1, <1>2

LEMMA InsertRowIs ==
  ASSUME NumbersInv, NEW c \in Clerks, InsertRow(c)
  PROVE  \E next :
           /\ Commanding(job[c]) /\ job[c].at = "insert"
           /\ Moves(c, next) /\ next.at = After(job[c].call) /\ DOMAIN next = JobFields
           /\ next.call = job[c].call /\ next.row = Len(Rows(Op(c))) + 1
           /\ db' = Insert(db, Op(c), NewRow(c)) /\ ~Conflicts(c)
           /\ Op(c) \in Commanded /\ Op(c) \in RowTypes
<1>1. PICK j, at, row : j = job[c] /\ at = After(job[c].call) /\ row = Len(Rows(Op(c))) + 1
  OBVIOUS
<1>2. PICK next : next = [j EXCEPT !.at = at, !.row = row]
  OBVIOUS
<1>3. /\ Moves(c, next) /\ Commanding(j) /\ j.at = "insert"
      /\ db' = Insert(db, Op(c), NewRow(c)) /\ ~Conflicts(c)
  BY <1>1, <1>2, StepIs DEF InsertRow, CommandSteps, Moves
<1>4. /\ next.at = at /\ next.call = j.call /\ next.row = row /\ DOMAIN next = JobFields
  BY <1>2, <1>3 DEF Commanding, JobFields
<1>5. Op(c) \in Commanded /\ Op(c) \in RowTypes
  BY <1>1, <1>3, TypesAre DEF Commanding, Op
<1> QED  BY <1>1, <1>3, <1>4, <1>5

LEMMA AmendRowIs ==
  ASSUME NumbersInv, NEW c \in Clerks, AmendRow(c)
  PROVE  \E next :
           /\ Commanding(job[c]) /\ job[c].at = "amend"
           /\ Moves(c, next) /\ next.at = "audit" /\ DOMAIN next = JobFields
           /\ next.call = job[c].call /\ next.row = job[c].row
           /\ db' = Amend(db, Op(c), job[c].row)
           /\ Op(c) \in Commanded /\ job[c].row \in DOMAIN Rows(Op(c))
<1>1. PICK j : j = job[c]
  OBVIOUS
<1>2. PICK next : next = [j EXCEPT !.at = "audit"]
  OBVIOUS
<1>3. /\ Moves(c, next) /\ Commanding(j) /\ j.at = "amend"
      /\ db' = Amend(db, Op(c), j.row)
  BY <1>1, <1>2, StepIs DEF AmendRow, CommandSteps, Moves
<1>4. /\ next.at = "audit" /\ next.call = j.call /\ next.row = j.row /\ DOMAIN next = JobFields
  BY <1>2, <1>3 DEF Commanding, JobFields
<1>5. Op(c) \in Commanded /\ j.row \in DOMAIN Rows(Op(c))
  BY <1>1, <1>3 DEF Commanding, Op
<1> QED  BY <1>1, <1>3, <1>4, <1>5

\* An event's number is drawn, and the event put in.
LEMMA EventIs ==
  ASSUME NumbersInv, NEW c \in Clerks, DrawEventNumber(c) \/ InsertEvent(c)
  PROVE  \E next :
           /\ Commanding(job[c]) /\ job[c].call.op = "organization"
           /\ Moves(c, next) /\ next.at \in {"event", "audit"} /\ DOMAIN next = JobFields
           /\ next.call = job[c].call /\ next.row = job[c].row
           /\ \/ next.at = "event" /\ Untouched
              \/ /\ next.at = "audit"
                 /\ db' = Insert(db, "lifecycle_event",
                                 [number |-> job[c].number, organization |-> job[c].row])
<1>1. CASE DrawEventNumber(c)
  <2>1. PICK j, number : j = job[c] /\ number = Issued(db, "lifecycle_event")
    OBVIOUS
  <2>2. PICK next : next = [j EXCEPT !.at = "event", !.number = number]
    OBVIOUS
  <2>3. /\ Moves(c, next) /\ Commanding(j) /\ j.at = "event_number"
        /\ db' = Issue(db, "lifecycle_event")
    BY <1>1, <2>1, <2>2, StepIs DEF DrawEventNumber, CommandSteps, Moves
  <2>4. /\ next.at = "event" /\ next.call = j.call /\ next.row = j.row
        /\ DOMAIN next = JobFields
    BY <2>2, <2>3 DEF Commanding, JobFields
  <2>5. Untouched
    BY <2>3, TypesAre, IssueDoes DEF Untouched, NumbersInv
  <2>6. j.call.op = "organization"
    BY <2>3 DEF Commanding
  <2> QED  BY <2>1, <2>3, <2>4, <2>5, <2>6
<1>2. CASE InsertEvent(c)
  <2>1. PICK j : j = job[c]
    OBVIOUS
  <2>2. PICK next : next = [j EXCEPT !.at = "audit"]
    OBVIOUS
  <2>3. /\ Moves(c, next) /\ Commanding(j) /\ j.at = "event"
        /\ db' = Insert(db, "lifecycle_event", [number |-> j.number, organization |-> j.row])
    BY <1>2, <2>1, <2>2, StepIs DEF InsertEvent, CommandSteps, Moves
  <2>4. /\ next.at = "audit" /\ next.call = j.call /\ next.row = j.row
        /\ DOMAIN next = JobFields
    BY <2>2, <2>3 DEF Commanding, JobFields
  <2>5. j.call.op = "organization"
    BY <2>3 DEF Commanding
  <2> QED  BY <2>1, <2>3, <2>4, <2>5
<1> QED  BY <1>1, <1>2

LEMMA AuditRowIs ==
  ASSUME NumbersInv, NEW c \in Clerks, AuditRow(c)
  PROVE  /\ Commanding(job[c]) /\ job[c].at = "audit" /\ Moves(c, Idle)
         /\ db' = Audited(db, Op(c), job[c].row)
BY StepIs DEF AuditRow, CommandSteps, Moves

LEMMA RefusedIs ==
  ASSUME NumbersInv, NEW c \in Clerks, RefuseRow(c) \/ CitationFails(c)
  PROVE  /\ Commanding(job[c]) /\ Moves(c, Idle) /\ db' = db
         /\ \/ job[c].at = "insert"
            \/ /\ job[c].at = "amend" /\ Op(c) = "scorecard"
               /\ job[c].call.cites \in Unlinkable
BY StepIs DEF RefuseRow, CitationFails, CitationRefused, CommandSteps, Moves

-----------------------------------------------------------------------------
(* The runs and their files.                                               *)

FileKinds == {"manifests", "receipts"}

Known(request) == request.organization \in DOMAIN Rows("organization")

Terminal == {"Completed", "Partially_Completed", "Revalidation_Required"}

\* How a run may end: Completed means done.
Outcome(request, status, seen) ==
  /\ status \in Terminal
  /\ status = "Completed" =>
       Known(request) /\ Len(seen) = IF request.brief THEN 4 ELSE 2

\* Of two readings the later has, for a scorecard of the earlier, one that is
\* not older.
NotBefore(earlier, later) ==
  \A model \in DOMAIN earlier : \A n \in earlier[model] :
    \E k \in later[model] : n <= k

InOrder(seen) ==
  \A i, j \in DOMAIN seen : i < j => NotBefore(seen[i], seen[j])

\* The scorecards on file of an organization and a model.
Numbers(organization, model) ==
  {Rows("scorecard")[row].number : row \in
     {r \in DOMAIN Rows("scorecard") :
        /\ Rows("scorecard")[r].call.organization = organization
        /\ Rows("scorecard")[r].call.model = model}}

\* What was read is on file.
OnFile(request, reading) ==
  /\ DOMAIN reading = Models \union {"Index"}
  /\ \A model \in Models \union {"Index"} :
       reading[model] \subseteq Numbers(request.organization, model)

EndedManifest(request) == [request |-> request, ended |-> TRUE]

\* How far a run has come by its step.
AtStep(j) ==
  /\ j.at \in {"validate", "resolve", "profile"} => Len(j.seen) = 0
  /\ j.at = "decision" => Len(j.seen) = 1
  /\ j.at \in {"report", "brief_tiles"} => Len(j.seen) = 2
  /\ j.at = "brief_decision" => Len(j.seen) = 3
  /\ j.at \in {"brief_tiles", "brief_decision"} => j.request.brief
  /\ j.at \in {"profile", "decision", "report", "brief_tiles", "brief_decision"} =>
       Known(j.request)
  /\ j.at \in {"manifest", "receipt"} => Outcome(j.request, j.status, j.seen)
  /\ j.at = "receipt" =>
       /\ j.run \in DOMAIN files.manifests
       /\ files.manifests[j.run] = EndedManifest(j.request)

Ran(j) ==
  /\ j.run \in Nat /\ j.run <= runs /\ j.run \notin DOMAIN files.receipts
  /\ \E S : j.seen \in Seq(S)
  /\ InOrder(j.seen) /\ \A i \in DOMAIN j.seen : OnFile(j.request, j.seen[i])
  /\ AtStep(j)

\* A receipt, and the manifest it names.
Sound(receipt, manifest) ==
  /\ receipt.manifest = manifest
  /\ Outcome(receipt.request, receipt.status, receipt.seen)
  /\ InOrder(receipt.seen)

Filed(id) ==
  /\ id \in Nat /\ id <= runs
  /\ id \in DOMAIN files.manifests /\ files.manifests[id] # Torn
  /\ files.manifests[id].ended
  /\ files.receipts[id] # Torn => Sound(files.receipts[id], files.manifests[id])

RunsInv ==
  /\ runs \in Nat /\ DOMAIN files = FileKinds
  /\ \A id \in DOMAIN files.receipts : Filed(id)
  /\ \A c \in Clerks : job[c].at \in RunSteps => Ran(job[c])
  /\ \A c, other \in Clerks :
       job[c].at \in RunSteps /\ job[other].at \in RunSteps /\ c # other
         => job[c].run # job[other].run

LEMMA WrittenIs ==
  ASSUME NEW dir, NEW name, NEW body
  PROVE  /\ DOMAIN Written(dir, name, body) = DOMAIN dir \union {name}
         /\ Written(dir, name, body)[name] = body
         /\ \A n \in DOMAIN dir : n # name => Written(dir, name, body)[n] = dir[n]
BY DEF Written

LEMMA KnownStays ==
  ASSUME TablesGrow, NEW request, Known(request)
  PROVE  Known(request)'
BY TypesAre DEF Known, TablesGrow, Rows, RowTypes, EntityTypes

LEMMA OutcomeStays ==
  ASSUME TablesGrow, NEW request, NEW status, NEW seen, Outcome(request, status, seen)
  PROVE  Outcome(request, status, seen)'
BY KnownStays DEF Outcome

LEMMA NumbersStay ==
  ASSUME TablesGrow, NEW organization, NEW model
  PROVE  Numbers(organization, model) \subseteq Numbers(organization, model)'
<1>1. "scorecard" \in RowTypes /\ "scorecard" # "lifecycle_event"
  BY DEF RowTypes, EntityTypes
<1>2. \A row \in DOMAIN Rows("scorecard") :
        /\ row \in DOMAIN Rows("scorecard")'
        /\ Rows("scorecard")'[row].number = Rows("scorecard")[row].number
        /\ Rows("scorecard")'[row].call = Rows("scorecard")[row].call
  BY <1>1 DEF TablesGrow, Rows
<1> QED  BY <1>2 DEF Numbers

LEMMA OnFileStays ==
  ASSUME TablesGrow, NEW request, NEW reading, OnFile(request, reading)
  PROVE  OnFile(request, reading)'
<1>1. \A model : Numbers(request.organization, model)
                   \subseteq Numbers(request.organization, model)'
  BY NumbersStay
<1> QED  BY <1>1 DEF OnFile

\* A run is not disturbed by what leaves its manifest alone.
LEMMA RanStays ==
  ASSUME TablesGrow, runs \in Nat, runs' \in Nat, runs <= runs', NEW j, Ran(j),
         j.run \notin DOMAIN files'.receipts,
         j.at = "receipt" => /\ j.run \in DOMAIN files'.manifests
                             /\ files'.manifests[j.run] = files.manifests[j.run]
  PROVE  Ran(j)'
<1>1. j.run \in Nat /\ j.run <= runs'
  BY DEF Ran
<1>2. \A i \in DOMAIN j.seen : OnFile(j.request, j.seen[i])'
  BY OnFileStays DEF Ran
<1>3. /\ Known(j.request) => Known(j.request)'
      /\ Outcome(j.request, j.status, j.seen) => Outcome(j.request, j.status, j.seen)'
  BY KnownStays, OutcomeStays
<1>4. AtStep(j)'
  BY <1>3 DEF Ran, AtStep
<1>5. (\E S : j.seen \in Seq(S)) /\ InOrder(j.seen)
  BY DEF Ran
<1> QED  BY <1>1, <1>2, <1>4, <1>5 DEF Ran

LEMMA FiledStays ==
  ASSUME TablesGrow, runs \in Nat, runs' \in Nat, runs <= runs', NEW id, Filed(id),
         files'.receipts[id] = files.receipts[id],
         id \in DOMAIN files'.manifests, files'.manifests[id] = files.manifests[id]
  PROVE  Filed(id)'
<1>1. PICK receipt, manifest :
        receipt = files.receipts[id] /\ manifest = files.manifests[id]
  OBVIOUS
<1>2. /\ id \in Nat /\ id <= runs' /\ manifest # Torn /\ manifest.ended
      /\ receipt # Torn => Sound(receipt, manifest)
  BY <1>1 DEF Filed
<1>3. receipt # Torn => Sound(receipt, manifest)'
  BY <1>2, OutcomeStays DEF Sound
<1>4. files'.receipts[id] = receipt /\ files'.manifests[id] = manifest
  BY <1>1
<1> QED  BY <1>2, <1>3, <1>4 DEF Filed

\* What a step of one clerk has to show of the runs.
LEMMA ClerkRuns ==
  ASSUME NumbersInv, RunsInv, TablesGrow, NEW c \in Clerks, NEW next,
         job' = [job EXCEPT ![c] = next],
         runs' \in Nat, runs <= runs', DOMAIN files' = FileKinds,
         \A id \in DOMAIN files'.receipts : Filed(id)',
         next.at \in RunSteps => Ran(next)',
         \A other \in Clerks \ {c} : job[other].at \in RunSteps =>
           /\ job[other].run \notin DOMAIN files'.receipts
           /\ next.at \in RunSteps => job[other].run # next.run
           /\ job[other].run \in DOMAIN files.manifests =>
                /\ job[other].run \in DOMAIN files'.manifests
                /\ files'.manifests[job[other].run] = files.manifests[job[other].run]
  PROVE  RunsInv'
<1>1. /\ job'[c] = next /\ \A other \in Clerks : other # c => job'[other] = job[other]
  BY DEF NumbersInv
<1>2. ASSUME NEW other \in Clerks, job'[other].at \in RunSteps
      PROVE  Ran(job[other])'
  <2>1. CASE other = c
    BY <1>1, <1>2, <2>1
  <2>2. CASE other # c
    <3>1. PICK j : j = job[other]
      OBVIOUS
    <3>2. job'[other] = j
      BY <1>1, <2>2, <3>1
    <3>3. Ran(j) /\ runs \in Nat
      BY <1>2, <3>1, <3>2 DEF RunsInv
    <3>4. /\ j.run \notin DOMAIN files'.receipts
          /\ j.run \in DOMAIN files.manifests =>
               /\ j.run \in DOMAIN files'.manifests
               /\ files'.manifests[j.run] = files.manifests[j.run]
      BY <1>2, <2>2, <3>1, <3>2
    <3>5. j.at = "receipt" => j.run \in DOMAIN files.manifests
      BY <3>3 DEF Ran, AtStep
    <3>6. Ran(j)'
      BY <3>3, <3>4, <3>5, RanStays
    <3> QED  BY <3>2, <3>6
  <2> QED  BY <2>1, <2>2
<1>3. ASSUME NEW d \in Clerks, NEW other \in Clerks, d # other,
             job'[d].at \in RunSteps, job'[other].at \in RunSteps
      PROVE  job'[d].run # job'[other].run
  <2>1. CASE d # c /\ other # c
    BY <1>1, <1>3, <2>1 DEF RunsInv
  <2>2. CASE d = c
    BY <1>1, <1>3, <2>2
  <2>3. CASE other = c
    BY <1>1, <1>3, <2>3
  <2> QED  BY <2>1, <2>2, <2>3
<1> QED  BY <1>2, <1>3 DEF RunsInv

\* A clerk that leaves the files alone.
LEMMA FilesStay ==
  ASSUME NumbersInv, RunsInv, TablesGrow, NEW c \in Clerks, NEW next,
         job' = [job EXCEPT ![c] = next], files' = files, runs' = runs,
         next.at \in RunSteps => Ran(next)' /\ job[c].at \in RunSteps /\ next.run = job[c].run
  PROVE  RunsInv'
<1>1. runs \in Nat /\ DOMAIN files = FileKinds
  BY DEF RunsInv
<1>2. ASSUME NEW id \in DOMAIN files.receipts
      PROVE  Filed(id)'
  <2>1. Filed(id)
    BY DEF RunsInv
  <2>2. id \in DOMAIN files.manifests
    BY <2>1 DEF Filed
  <2> QED  BY <1>1, <2>1, <2>2, FiledStays
<1>3. ASSUME NEW other \in Clerks \ {c}, job[other].at \in RunSteps
      PROVE  /\ job[other].run \notin DOMAIN files.receipts
             /\ next.at \in RunSteps => job[other].run # next.run
  BY <1>3 DEF RunsInv, Ran
<1>4. /\ runs' \in Nat /\ runs <= runs' /\ DOMAIN files' = FileKinds
      /\ \A id \in DOMAIN files'.receipts : Filed(id)'
      /\ next.at \in RunSteps => Ran(next)'
  BY <1>1, <1>2
<1>5. \A other \in Clerks \ {c} : job[other].at \in RunSteps =>
        /\ job[other].run \notin DOMAIN files'.receipts
        /\ next.at \in RunSteps => job[other].run # next.run
        /\ job[other].run \in DOMAIN files.manifests =>
             /\ job[other].run \in DOMAIN files'.manifests
             /\ files'.manifests[job[other].run] = files.manifests[job[other].run]
  BY <1>3
<1> QED  BY <1>4, <1>5, ClerkRuns

\* A run goes on to its next step and leaves everything else alone.
LEMMA StageRuns ==
  ASSUME NumbersInv, RunsInv, NEW c \in Clerks, NEW next, job' = [job EXCEPT ![c] = next],
         db' = db, files' = files, runs' = runs,
         next.at \in RunSteps => Ran(next) /\ job[c].at \in RunSteps /\ next.run = job[c].run
  PROVE  RunsInv'
<1>1. TablesGrow /\ runs \in Nat
  BY TablesStay DEF RunsInv
<1>2. ASSUME next.at \in RunSteps
      PROVE  Ran(next)'
  <2>1. Ran(next) /\ next.run \notin DOMAIN files.receipts
    BY <1>2 DEF Ran
  <2>2. next.at = "receipt" => next.run \in DOMAIN files.manifests
    BY <2>1 DEF Ran, AtStep
  <2> QED  BY <1>1, <2>1, <2>2, RanStays
<1> QED  BY <1>1, <1>2, FilesStay

\* A set of numbers with a bound has a greatest one.
LEMMA GreatestIsThere ==
  ASSUME NEW S \in SUBSET Nat, S # {}, NEW bound \in Nat, \A x \in S : x <= bound
  PROVE  \E greatest \in S : \A x \in S : x <= greatest
<1> DEFINE T == {bound - x : x \in S}
<1>1. T \in SUBSET Nat /\ T # {}
  <2>1. \A x \in S : bound - x \in Nat
    OBVIOUS
  <2>2. T \subseteq Nat
    BY <2>1
  <2>3. PICK x : x \in S
    OBVIOUS
  <2>4. bound - x \in T
    BY <2>3
  <2> QED  BY <2>2, <2>4
<1>2. PICK least \in T : \A other \in T : ~(<<other, least>> \in OpToRel(<, Nat))
  BY <1>1, NatLessThanWellFounded, WFMin
<1>3. PICK greatest \in S : least = bound - greatest
  BY <1>2
<1>4. ASSUME NEW x \in S, greatest < x
      PROVE  FALSE
  <2>1. bound - x \in T /\ bound - x \in Nat /\ least \in Nat
    BY <1>1, <1>2
  <2>2. bound - x < least
    BY <1>3, <1>4
  <2>3. <<bound - x, least>> \in OpToRel(<, Nat)
    BY <2>1, <2>2 DEF OpToRel
  <2> QED  BY <1>2, <2>1, <2>3
<1>5. \A x \in S : x <= greatest
  BY <1>4
<1> QED  BY <1>5

LEMMA LatestIs ==
  ASSUME NEW organization, NEW model
  PROVE  Latest(organization, model)
           = {n \in Numbers(organization, model) :
                \A other \in Numbers(organization, model) : other <= n}
BY DEF Latest, Numbers

LEMMA NumbersAreBounded ==
  ASSUME NumbersInv, NEW organization, NEW model
  PROVE  /\ Numbers(organization, model) \in SUBSET Nat
         /\ db.last["scorecard"] \in Nat
         /\ \A n \in Numbers(organization, model) : n <= db.last["scorecard"]
<1>1. "scorecard" \in RowTypes /\ "scorecard" \in EntityTypes
  BY DEF RowTypes, EntityTypes
<1> QED  BY <1>1 DEF NumbersInv, RowsInv, Numbers, StoreShape

\* What is on file is not after what is read now.
LEMMA ReadingsCover ==
  ASSUME NumbersInv, NEW organization, NEW model, NEW n \in Numbers(organization, model)
  PROVE  \E k \in Latest(organization, model) : n <= k
<1> DEFINE S == Numbers(organization, model)
<1>1. S \in SUBSET Nat /\ S # {} /\ db.last["scorecard"] \in Nat
      /\ \A x \in S : x <= db.last["scorecard"]
  BY NumbersAreBounded
<1> HIDE DEF S
<1>2. PICK greatest \in S : \A x \in S : x <= greatest
  BY <1>1, GreatestIsThere
<1> QED  BY <1>2, LatestIs DEF S

LEMMA ScoresAre ==
  ASSUME NEW c, NEW request, request = job[c].request
  PROVE  /\ OnFile(request, Scores(c))
         /\ \A model \in Models \union {"Index"} :
              Scores(c)[model] = Latest(request.organization, model)
<1>1. /\ DOMAIN Scores(c) = Models \union {"Index"}
      /\ \A model \in Models \union {"Index"} :
           Scores(c)[model] = Latest(request.organization, model)
  BY DEF Scores
<1>2. \A model : Latest(request.organization, model)
                   \subseteq Numbers(request.organization, model)
  BY LatestIs
<1> QED  BY <1>1, <1>2 DEF OnFile

\* What is read now is not before what was read.
LEMMA ReadingIsNext ==
  ASSUME NumbersInv, NEW c \in Clerks, Running(job[c]), Ran(job[c]),
         NEW seen, seen = Append(job[c].seen, Scores(c))
  PROVE  /\ Len(seen) = Len(job[c].seen) + 1 /\ Len(job[c].seen) \in Nat
         /\ \E S : seen \in Seq(S)
         /\ InOrder(seen)
         /\ \A i \in DOMAIN seen : OnFile(job[c].request, seen[i])
<1>1. PICK old, reading, request :
        old = job[c].seen /\ reading = Scores(c) /\ request = job[c].request
  OBVIOUS
<1>2. PICK S : old \in Seq(S)
  BY <1>1 DEF Ran
<1>3. PICK T : T = S \union {reading}
  OBVIOUS
<1>4. old \in Seq(T) /\ reading \in T
  <2>1. old \in [1..Len(old) -> S] /\ Len(old) \in Nat
    BY <1>2
  <2>2. old \in [1..Len(old) -> T]
    BY <1>3, <2>1
  <2> QED  BY <1>3, <2>1, <2>2
<1>5. PICK n \in Nat : n = Len(old)
  BY <1>4
<1>6. /\ seen \in Seq(T) /\ Len(seen) = n + 1
      /\ DOMAIN old = 1..n /\ DOMAIN seen = 1..n + 1
      /\ \A r \in 1..n : seen[r] = old[r]
      /\ seen[n + 1] = reading
  BY <1>1, <1>4, <1>5, AppendProperties
<1>7. OnFile(request, reading)
      /\ \A model \in Models \union {"Index"} :
           reading[model] = Latest(request.organization, model)
  BY <1>1, ScoresAre
<1>8. ASSUME NEW i \in DOMAIN seen
      PROVE  OnFile(request, seen[i])
  <2>1. CASE i \in 1..n
    BY <1>1, <1>6, <2>1 DEF Ran
  <2>2. CASE i = n + 1
    BY <1>6, <1>7, <2>2
  <2>3. i \in 1..n \/ i = n + 1
    BY <1>6
  <2> QED  BY <2>1, <2>2, <2>3
<1>9. ASSUME NEW i \in DOMAIN seen, NEW j \in DOMAIN seen, i < j
      PROVE  NotBefore(seen[i], seen[j])
  <2>1. i \in 1..n /\ (j \in 1..n \/ j = n + 1)
    BY <1>5, <1>6, <1>9
  <2>2. CASE j \in 1..n
    BY <1>1, <1>6, <1>9, <2>1, <2>2 DEF Ran, InOrder
  <2>3. CASE j = n + 1
    <3>1. OnFile(request, seen[i]) /\ seen[j] = reading
      BY <1>6, <1>8, <2>3
    <3>2. PICK earlier : earlier = seen[i]
      OBVIOUS
    <3>3. ASSUME NEW model \in DOMAIN earlier, NEW k \in earlier[model]
          PROVE  \E later \in reading[model] : k <= later
      BY <1>7, <3>1, <3>2, <3>3, ReadingsCover DEF OnFile
    <3> QED  BY <3>1, <3>2, <3>3 DEF NotBefore
  <2> QED  BY <2>1, <2>2, <2>3
<1>10. InOrder(seen)
  BY <1>9 DEF InOrder
<1> QED  BY <1>1, <1>5, <1>6, <1>8, <1>10

LEMMA IdleRuns ==
  ASSUME NumbersInv, RunsInv, NEW c \in Clerks, job' = [job EXCEPT ![c] = Idle],
         db' = db, files' = files, runs' = runs
  PROVE  RunsInv'
<1>1. Idle.at \notin RunSteps
  BY DEF Idle, RunSteps
<1> QED  BY <1>1, StageRuns

\* What is known of a run at work.
LEMMA AtWork ==
  ASSUME NumbersInv, RunsInv, NEW c \in Clerks, NEW at \in RunSteps, job[c].at = at
  PROVE  Running(job[c]) /\ Ran(job[c]) /\ AtStep(job[c])
<1>1. Held(job[c])
  BY DEF NumbersInv
<1>2. Running(job[c])
  BY <1>1, HeldAt
<1>3. Ran(job[c])
  BY DEF RunsInv
<1> QED  BY <1>2, <1>3 DEF Ran

LEMMA ValidateRuns ==
  ASSUME NumbersInv, RunsInv, NEW c \in Clerks, Validate(c)
  PROVE  RunsInv'
<1>1. PICK j : j = job[c]
  OBVIOUS
<1>2. PICK next : next = [j EXCEPT !.at = "resolve"]
  OBVIOUS
<1>3. /\ j.at = "validate" /\ db' = db /\ files' = files /\ runs' = runs
      /\ job' = [job EXCEPT ![c] = Idle] \/ job' = [job EXCEPT ![c] = next]
  BY <1>1, <1>2 DEF Validate, Stage
<1>4. "validate" \in RunSteps
  BY DEF RunSteps
<1>5. Running(j) /\ Ran(j) /\ AtStep(j)
  BY <1>1, <1>3, <1>4, AtWork
<1>6. /\ next.at = "resolve" /\ next.run = j.run /\ next.request = j.request
      /\ next.status = j.status /\ next.seen = j.seen
  BY <1>2, <1>5 DEF Running, RunFields
<1>7. AtStep(next)
  BY <1>3, <1>5, <1>6 DEF AtStep
<1>8. Ran(next)
  BY <1>5, <1>6, <1>7 DEF Ran
<1> QED  BY <1>1, <1>3, <1>4, <1>6, <1>8, IdleRuns, StageRuns

LEMMA ResolveRuns ==
  ASSUME NumbersInv, RunsInv, NEW c \in Clerks, Resolve(c)
  PROVE  RunsInv'
<1>1. PICK j : j = job[c]
  OBVIOUS
<1>2. PICK next : \/ Resolved(c) /\ next = [j EXCEPT !.at = "profile"]
                  \/ /\ ~Resolved(c)
                     /\ next = [j EXCEPT !.at = "manifest", !.status = "Revalidation_Required"]
  OBVIOUS
<1>3. /\ j.at = "resolve" /\ db' = db /\ files' = files /\ runs' = runs
      /\ job' = [job EXCEPT ![c] = next]
  BY <1>1, <1>2 DEF Resolve, Stage
<1>4. "resolve" \in RunSteps
  BY DEF RunSteps
<1>5. Running(j) /\ Ran(j) /\ AtStep(j)
  BY <1>1, <1>3, <1>4, AtWork
<1>6. /\ next.run = j.run /\ next.request = j.request /\ next.seen = j.seen
      /\ \/ next.at = "profile" /\ Resolved(c)
         \/ next.at = "manifest" /\ next.status = "Revalidation_Required"
  BY <1>2, <1>5 DEF Running, RunFields
<1>7. Resolved(c) => Known(j.request)
  BY <1>1 DEF Resolved, Known
<1>8. AtStep(next)
  BY <1>3, <1>5, <1>6, <1>7 DEF AtStep, Outcome, Terminal
<1>9. Ran(next)
  BY <1>5, <1>6, <1>8 DEF Ran
<1> QED  BY <1>1, <1>3, <1>4, <1>6, <1>9, StageRuns

LEMMA Counts ==
  ASSUME NEW n \in Nat, NEW m, m = n + 1
  PROVE  (n = 0 => m = 1) /\ (n = 1 => m = 2) /\ (n = 2 => m = 3) /\ (n = 3 => m = 4)
OBVIOUS

\* A reading, and the step it leads to.
LEMMA ReadRuns ==
  ASSUME NumbersInv, RunsInv, NEW c \in Clerks, NEW at \in RunSteps, NEW to, NEW next,
         job[c].at = at, db' = db, files' = files, runs' = runs,
         job' = [job EXCEPT ![c] = next],
         next.at = to, next.run = job[c].run, next.request = job[c].request,
         next.seen = Append(job[c].seen, Scores(c)),
         \/ at = "profile" /\ to = "decision"
         \/ at = "decision" /\ to = "report"
         \/ at = "brief_tiles" /\ to = "brief_decision"
         \/ at = "brief_decision" /\ to = "manifest" /\ next.status = "Completed"
  PROVE  RunsInv'
<1>1. PICK j, seen : j = job[c] /\ seen = Append(j.seen, Scores(c))
  OBVIOUS
<1>2. Running(j) /\ Ran(j) /\ AtStep(j) /\ j.at = at
  BY <1>1, AtWork
<1>3. /\ next.at = to /\ next.run = j.run /\ next.request = j.request /\ next.seen = seen
  BY <1>1
<1>4. /\ Len(seen) = Len(j.seen) + 1 /\ Len(j.seen) \in Nat
      /\ \E S : seen \in Seq(S)
      /\ InOrder(seen)
      /\ \A i \in DOMAIN seen : OnFile(j.request, seen[i])
  BY <1>1, <1>2, ReadingIsNext
<1>4a. PICK n, m : n = Len(j.seen) /\ m = Len(seen) /\ n \in Nat /\ m = n + 1
  BY <1>4
<1>4b. (n = 0 => m = 1) /\ (n = 1 => m = 2) /\ (n = 2 => m = 3) /\ (n = 3 => m = 4)
  BY <1>4a, Counts
<1>5. AtStep(next)
  <2>1. CASE at = "profile" /\ to = "decision"
    BY <1>2, <1>3, <1>4, <2>1 DEF AtStep
  <2>2. CASE at = "decision" /\ to = "report"
    <3>1. Len(j.seen) = 1 /\ Known(j.request)
      BY <1>2, <2>2 DEF AtStep
    <3>2. m = 2
      BY <1>4a, <1>4b, <3>1
    <3> QED  BY <1>3, <1>4a, <2>2, <3>1, <3>2 DEF AtStep
  <2>3. CASE at = "brief_tiles" /\ to = "brief_decision"
    <3>1. Len(j.seen) = 2 /\ Known(j.request) /\ j.request.brief
      BY <1>2, <2>3 DEF AtStep
    <3>2. m = 3
      BY <1>4a, <1>4b, <3>1
    <3> QED  BY <1>3, <1>4a, <2>3, <3>1, <3>2 DEF AtStep
  <2>4. CASE at = "brief_decision" /\ to = "manifest"
    <3>1. Len(j.seen) = 3 /\ j.request.brief /\ Known(j.request)
      BY <1>2, <2>4 DEF AtStep
    <3>2. m = 4
      BY <1>4a, <1>4b, <3>1
    <3>3. Outcome(j.request, "Completed", seen)
      BY <1>4a, <3>1, <3>2 DEF Outcome, Terminal
    <3> QED  BY <1>3, <2>4, <3>3 DEF AtStep
  <2> QED  BY <2>1, <2>2, <2>3, <2>4
<1>6. Ran(next)
  BY <1>2, <1>3, <1>4, <1>5 DEF Ran
<1> QED  BY <1>1, <1>2, <1>3, <1>6, StageRuns

LEMMA ReadsRun ==
  ASSUME NumbersInv, RunsInv, NEW c \in Clerks, NEW at \in RunSteps, NEW to,
         Read(c, at, to),
         \/ at = "profile" /\ to = "decision"
         \/ at = "decision" /\ to = "report"
         \/ at = "brief_tiles" /\ to = "brief_decision"
  PROVE  RunsInv'
<1>0. PICK j, reading : j = job[c] /\ reading = Scores(c)
  OBVIOUS
<1>1. PICK next : next = [j EXCEPT !.at = to, !.seen = Append(@, reading)]
  OBVIOUS
<1>2. /\ job[c].at = at /\ job' = [job EXCEPT ![c] = next]
      /\ db' = db /\ files' = files /\ runs' = runs
  BY <1>0, <1>1 DEF Read, Stage
<1>2a. Running(j)
  BY <1>0, <1>2, AtWork
<1>3. /\ next.at = to /\ next.run = j.run /\ next.request = j.request
      /\ next.seen = Append(j.seen, reading)
  BY <1>1, <1>2a DEF Running, RunFields
<1> QED  BY <1>0, <1>2, <1>3, ReadRuns

LEMMA ReadBriefDecisionRuns ==
  ASSUME NumbersInv, RunsInv, NEW c \in Clerks, ReadBriefDecision(c)
  PROVE  RunsInv'
<1>0. PICK j, reading : j = job[c] /\ reading = Scores(c)
  OBVIOUS
<1>1. PICK next : next = [j EXCEPT !.at = "manifest", !.status = "Completed",
                                   !.seen = Append(@, reading)]
  OBVIOUS
<1>2. /\ job[c].at = "brief_decision" /\ job' = [job EXCEPT ![c] = next]
      /\ db' = db /\ files' = files /\ runs' = runs
  BY <1>0, <1>1 DEF ReadBriefDecision, Stage
<1>3. "brief_decision" \in RunSteps
  BY DEF RunSteps
<1>4. Running(j)
  BY <1>0, <1>2, <1>3, AtWork
<1>5. /\ next.at = "manifest" /\ next.run = j.run /\ next.request = j.request
      /\ next.seen = Append(j.seen, reading)
  BY <1>1, <1>4 DEF Running, RunFields
<1>6. next.status = "Completed"
  BY <1>1, <1>4 DEF Running, RunFields
<1> QED  BY <1>0, <1>2, <1>3, <1>5, <1>6, ReadRuns

LEMMA ReportRuns ==
  ASSUME NumbersInv, RunsInv, NEW c \in Clerks, Report(c)
  PROVE  RunsInv'
<1>1. PICK j : j = job[c]
  OBVIOUS
<1>2. PICK next :
        /\ j.at = "report" /\ db' = db /\ files' = files /\ runs' = runs
        /\ job' = [job EXCEPT ![c] = next]
        /\ \/ /\ j.request.brief /\ next = [j EXCEPT !.at = "brief_tiles"]
           \/ /\ j.request.brief
              /\ next = [j EXCEPT !.at = "manifest", !.status = "Partially_Completed"]
           \/ /\ ~j.request.brief
              /\ next = [j EXCEPT !.at = "manifest", !.status = "Completed"]
  <2>1. CASE j.request.brief /\ c \in Reporting
    BY <1>1, <2>1 DEF Report, Stage
  <2>2. CASE j.request.brief /\ c \notin Reporting
    BY <1>1, <2>2 DEF Report, Stage
  <2>3. CASE ~j.request.brief
    BY <1>1, <2>3 DEF Report, Stage
  <2> QED  BY <2>1, <2>2, <2>3
<1>3. "report" \in RunSteps
  BY DEF RunSteps
<1>4. Running(j) /\ Ran(j) /\ AtStep(j)
  BY <1>1, <1>2, <1>3, AtWork
<1>5. /\ next.run = j.run /\ next.request = j.request /\ next.seen = j.seen
      /\ \/ next.at = "brief_tiles" /\ j.request.brief
         \/ next.at = "manifest" /\ next.status = "Partially_Completed"
         \/ next.at = "manifest" /\ next.status = "Completed" /\ ~j.request.brief
  BY <1>2, <1>4 DEF Running, RunFields
<1>6. Len(j.seen) = 2 /\ Known(j.request)
  BY <1>2, <1>4 DEF AtStep
<1>7. AtStep(next)
  <2>1. CASE next.at = "brief_tiles"
    BY <1>5, <1>6, <2>1 DEF AtStep
  <2>2. CASE next.at = "manifest"
    BY <1>5, <1>6, <2>2 DEF AtStep, Outcome, Terminal
  <2> QED  BY <1>5, <2>1, <2>2
<1>8. Ran(next)
  BY <1>4, <1>5, <1>7 DEF Ran
<1> QED  BY <1>1, <1>2, <1>3, <1>5, <1>8, StageRuns

\* A file of a run that is written, whole or torn.
Wrote(kind, id, body) ==
  files' = [files EXCEPT ![kind] = Written(@, id, body)]

LEMMA WroteIs ==
  ASSUME RunsInv, NEW kind \in FileKinds, NEW id, NEW body, Wrote(kind, id, body)
  PROVE  /\ DOMAIN files' = FileKinds
         /\ DOMAIN files'[kind] = DOMAIN files[kind] \union {id}
         /\ files'[kind][id] = body
         /\ \A n \in DOMAIN files[kind] : n # id => files'[kind][n] = files[kind][n]
         /\ \A k \in FileKinds : k # kind => files'[k] = files[k]
<1>1. /\ DOMAIN files' = FileKinds
      /\ files'[kind] = Written(files[kind], id, body)
      /\ \A k \in FileKinds : k # kind => files'[k] = files[k]
  BY DEF Wrote, RunsInv
<1>2. PICK dir : dir = files[kind]
  OBVIOUS
<1>3. /\ DOMAIN Written(dir, id, body) = DOMAIN dir \union {id}
      /\ Written(dir, id, body)[id] = body
      /\ \A n \in DOMAIN dir : n # id => Written(dir, id, body)[n] = dir[n]
  BY DEF Written
<1> QED  BY <1>1, <1>2, <1>3

\* A manifest that is written for a run without a receipt.
LEMMA ManifestWritten ==
  ASSUME NumbersInv, RunsInv, NEW c \in Clerks, NEW next, NEW id, NEW body,
         job' = [job EXCEPT ![c] = next], db' = db, Wrote("manifests", id, body),
         runs' \in Nat, runs <= runs', id \notin DOMAIN files.receipts,
         next.at \in RunSteps => Ran(next)' /\ next.run = id,
         \A other \in Clerks \ {c} : job[other].at \in RunSteps => job[other].run # id
  PROVE  RunsInv'
<1>1. TablesGrow /\ runs \in Nat
  BY TablesStay DEF RunsInv
<1>2. "manifests" \in FileKinds /\ "receipts" \in FileKinds
  BY DEF FileKinds
<1>3. /\ DOMAIN files' = FileKinds
      /\ DOMAIN files'.manifests = DOMAIN files.manifests \union {id}
      /\ \A n \in DOMAIN files.manifests : n # id => files'.manifests[n] = files.manifests[n]
      /\ files'.receipts = files.receipts
  BY <1>2, WroteIs
<1>4. ASSUME NEW n \in DOMAIN files.receipts
      PROVE  Filed(n)'
  <2>1. Filed(n) /\ n # id
    BY DEF RunsInv
  <2>2. n \in DOMAIN files.manifests
    BY <2>1 DEF Filed
  <2> QED  BY <1>1, <1>3, <2>1, <2>2, FiledStays
<1>5. ASSUME NEW other \in Clerks \ {c}, job[other].at \in RunSteps
      PROVE  /\ job[other].run \notin DOMAIN files'.receipts
             /\ next.at \in RunSteps => job[other].run # next.run
             /\ job[other].run \in DOMAIN files.manifests =>
                  /\ job[other].run \in DOMAIN files'.manifests
                  /\ files'.manifests[job[other].run] = files.manifests[job[other].run]
  <2>1. PICK run : run = job[other].run
    OBVIOUS
  <2>2. run # id
    BY <1>5, <2>1
  <2>3. run \notin DOMAIN files.receipts
    BY <1>5, <2>1 DEF RunsInv, Ran
  <2>4. run \in DOMAIN files.manifests =>
          run \in DOMAIN files'.manifests /\ files'.manifests[run] = files.manifests[run]
    BY <1>3, <2>2
  <2>5. next.at \in RunSteps => run # next.run
    BY <2>2
  <2> QED  BY <1>3, <2>1, <2>3, <2>4, <2>5
<1>6. \A n \in DOMAIN files'.receipts : Filed(n)'
  BY <1>3, <1>4
<1>7. next.at \in RunSteps => Ran(next)'
  OBVIOUS
<1> QED  BY <1>1, <1>3, <1>5, <1>6, <1>7, ClerkRuns

\* The runs of others are other runs.
LEMMA OthersRun ==
  ASSUME RunsInv, NEW c \in Clerks, job[c].at \in RunSteps
  PROVE  \A other \in Clerks \ {c} : job[other].at \in RunSteps =>
           job[other].run # job[c].run
BY DEF RunsInv

LEMMA EndManifestRuns ==
  ASSUME NumbersInv, RunsInv, NEW c \in Clerks, EndManifest(c, TRUE) \/ EndManifest(c, FALSE)
  PROVE  RunsInv'
<1>1. PICK j : j = job[c]
  OBVIOUS
<1>2. PICK next : next = [j EXCEPT !.at = "receipt"]
  OBVIOUS
<1>3. /\ j.at = "manifest" /\ db' = db /\ runs' = runs
      /\ \/ job' = [job EXCEPT ![c] = Idle] /\ Wrote("manifests", j.run, Torn)
         \/ /\ job' = [job EXCEPT ![c] = next]
            /\ Wrote("manifests", j.run, EndedManifest(j.request))
  <2>1. CASE EndManifest(c, TRUE)
    BY <1>1, <2>1 DEF EndManifest, Save, Wrote
  <2>2. CASE EndManifest(c, FALSE)
    BY <1>1, <1>2, <2>2 DEF EndManifest, Save, Wrote, EndedManifest
  <2> QED  BY <2>1, <2>2
<1>4. "manifest" \in RunSteps /\ "receipt" \in RunSteps /\ Idle.at \notin RunSteps
  BY DEF RunSteps, Idle
<1>5. Running(j) /\ Ran(j) /\ AtStep(j)
  BY <1>1, <1>3, <1>4, AtWork
<1>6. /\ \A other \in Clerks \ {c} : job[other].at \in RunSteps => job[other].run # j.run
      /\ j.run \notin DOMAIN files.receipts /\ runs \in Nat /\ runs' \in Nat /\ runs <= runs'
  BY <1>1, <1>3, <1>4, <1>5, OthersRun DEF Ran, RunsInv
<1>7. CASE job' = [job EXCEPT ![c] = Idle] /\ Wrote("manifests", j.run, Torn)
  BY <1>3, <1>4, <1>6, <1>7, ManifestWritten
<1>8. CASE /\ job' = [job EXCEPT ![c] = next]
           /\ Wrote("manifests", j.run, EndedManifest(j.request))
  <2>1. /\ next.at = "receipt" /\ next.run = j.run /\ next.request = j.request
        /\ next.status = j.status /\ next.seen = j.seen
    BY <1>2, <1>5 DEF Running, RunFields
  <2>2. /\ j.run \in DOMAIN files'.manifests
        /\ files'.manifests[j.run] = EndedManifest(j.request)
        /\ files'.receipts = files.receipts
    BY <1>8, WroteIs DEF FileKinds
  <2>3. TablesGrow
    BY <1>3, TablesStay
  <2>4. Outcome(j.request, j.status, j.seen)'
    BY <1>3, <1>5, <2>3, OutcomeStays DEF AtStep
  <2>5. AtStep(next)'
    BY <2>1, <2>2, <2>4 DEF AtStep
  <2>6. \A i \in DOMAIN j.seen : OnFile(j.request, j.seen[i])'
    BY <1>5, <2>3, OnFileStays DEF Ran
  <2>7. /\ j.run \in Nat /\ j.run <= runs' /\ j.run \notin DOMAIN files'.receipts
        /\ (\E S : j.seen \in Seq(S)) /\ InOrder(j.seen)
    BY <1>3, <1>5, <2>2 DEF Ran
  <2>8. Ran(next)'
    BY <2>1, <2>5, <2>6, <2>7 DEF Ran
  <2>9. next.at \in RunSteps => Ran(next)' /\ next.run = j.run
    BY <2>1, <2>8
  <2>10. db' = db
    BY <1>3
  <2> QED  BY <1>6, <1>8, <2>9, <2>10, ManifestWritten
<1> QED  BY <1>3, <1>7, <1>8

LEMMA StartRunRuns ==
  ASSUME NumbersInv, RunsInv, NEW c \in Clerks, NEW request, NEW cut \in Cuts,
         StartRun(c, request, cut)
  PROVE  RunsInv'
<1>1. PICK n : n = runs + 1
  OBVIOUS
<1>2. PICK next : next = [at |-> "validate", run |-> n, request |-> request,
                          status |-> "Running", seen |-> <<>>]
  OBVIOUS
<1>3. /\ db' = db /\ runs' = n
      /\ \/ job' = [job EXCEPT ![c] = Idle] /\ Wrote("manifests", n, Torn)
         \/ /\ job' = [job EXCEPT ![c] = next]
            /\ Wrote("manifests", n, [request |-> request, ended |-> FALSE])
  <2>1. CASE cut = TRUE
    <3>1. StartRun(c, request, TRUE)
      BY <2>1
    <3> QED  BY <1>1, <3>1 DEF StartRun, Save, Wrote
  <2>2. CASE cut = FALSE
    <3>1. StartRun(c, request, FALSE)
      BY <2>2
    <3> QED  BY <1>1, <1>2, <3>1 DEF StartRun, Save, Wrote
  <2> QED  BY <2>1, <2>2, CutsAre
<1>4. PICK r \in Nat : r = runs
  BY DEF RunsInv
<1>5. r + 1 \in Nat /\ r <= r + 1 /\ \A id \in Nat : id <= r => id # r + 1
  BY <1>4
<1>6. /\ n \notin DOMAIN files.receipts
      /\ \A other \in Clerks \ {c} : job[other].at \in RunSteps => job[other].run # n
  BY <1>1, <1>4, <1>5 DEF RunsInv, Ran, Filed
<1>7. runs' \in Nat /\ runs <= runs'
  BY <1>1, <1>3, <1>4, <1>5
<1>8. CASE job' = [job EXCEPT ![c] = Idle] /\ Wrote("manifests", n, Torn)
  <2>1. Idle.at \notin RunSteps
    BY DEF RunSteps, Idle
  <2> QED  BY <1>3, <1>6, <1>7, <1>8, <2>1, ManifestWritten
<1>9. CASE /\ job' = [job EXCEPT ![c] = next]
           /\ Wrote("manifests", n, [request |-> request, ended |-> FALSE])
  <2>1. /\ next.at = "validate" /\ next.run = n /\ next.request = request
        /\ next.seen = <<>>
    BY <1>2
  <2>2. <<>> \in Seq({}) /\ Len(<<>>) = 0 /\ DOMAIN <<>> = {}
    OBVIOUS
  <2>3. files'.receipts = files.receipts
    BY <1>9, WroteIs DEF FileKinds
  <2>4. AtStep(next)'
    BY <2>1, <2>2 DEF AtStep
  <2>5. InOrder(next.seen) /\ \A i \in DOMAIN next.seen : OnFile(next.request, next.seen[i])'
    BY <2>1, <2>2 DEF InOrder
  <2>6. next.run \in Nat /\ next.run <= runs' /\ next.run \notin DOMAIN files'.receipts
    BY <1>1, <1>3, <1>4, <1>5, <1>6, <2>1, <2>3
  <2>7. \E S : next.seen \in Seq(S)
    BY <2>1, <2>2
  <2>8. Ran(next)'
    BY <2>4, <2>5, <2>6, <2>7 DEF Ran
  <2>9. PICK body : body = [request |-> request, ended |-> FALSE]
    OBVIOUS
  <2>10. job' = [job EXCEPT ![c] = next] /\ Wrote("manifests", n, body)
    BY <1>9, <2>9
  <2> HIDE <1>9
  <2> QED  BY <1>3, <1>6, <1>7, <2>1, <2>8, <2>10, ManifestWritten
<1> QED  BY <1>3, <1>8, <1>9

\* A manifest with the time of its completion is no torn file.
ManifestsAreWhole == \A request : EndedManifest(request) # Torn

LEMMA SaveReceiptRuns ==
  ASSUME ManifestsAreWhole, NumbersInv, RunsInv, NEW c \in Clerks,
         SaveReceipt(c, TRUE) \/ SaveReceipt(c, FALSE)
  PROVE  RunsInv'
<1>1. PICK j : j = job[c]
  OBVIOUS
<1>2. PICK body : body = [request |-> j.request, status |-> j.status, seen |-> j.seen,
                          manifest |-> EndedManifest(j.request)]
  OBVIOUS
<1>3. PICK receipt \in {Torn, body} :
        /\ j.at = "receipt" /\ db' = db /\ runs' = runs
        /\ job' = [job EXCEPT ![c] = Idle] /\ Wrote("receipts", j.run, receipt)
  <2>1. CASE SaveReceipt(c, TRUE)
    BY <1>1, <2>1 DEF SaveReceipt, Save, Wrote
  <2>2. CASE SaveReceipt(c, FALSE)
    BY <1>1, <1>2, <2>2 DEF SaveReceipt, Save, Wrote, EndedManifest
  <2> QED  BY <2>1, <2>2
<1>4. "receipt" \in RunSteps /\ Idle.at \notin RunSteps
  BY DEF RunSteps, Idle
<1>5. Ran(j) /\ AtStep(j)
  BY <1>1, <1>3, <1>4, AtWork
<1>6. /\ DOMAIN files' = FileKinds /\ files'.manifests = files.manifests
      /\ DOMAIN files'.receipts = DOMAIN files.receipts \union {j.run}
      /\ files'.receipts[j.run] = receipt
      /\ \A n \in DOMAIN files.receipts : n # j.run => files'.receipts[n] = files.receipts[n]
  BY <1>3, WroteIs DEF FileKinds
<1>7. TablesGrow /\ runs \in Nat
  BY <1>3, TablesStay DEF RunsInv
<1>8. Filed(j.run)'
  <2>1. /\ j.run \in DOMAIN files.manifests
        /\ files.manifests[j.run] = EndedManifest(j.request)
        /\ Outcome(j.request, j.status, j.seen)
    BY <1>3, <1>5 DEF AtStep
  <2>2. EndedManifest(j.request) # Torn /\ EndedManifest(j.request).ended
    BY DEF ManifestsAreWhole, EndedManifest
  <2>3. Outcome(j.request, j.status, j.seen)'
    BY <1>7, <2>1, OutcomeStays
  <2>4. Sound(body, EndedManifest(j.request))'
    BY <1>2, <1>5, <2>3 DEF Sound, Ran
  <2>5. receipt # Torn => Sound(receipt, EndedManifest(j.request))'
    BY <1>3, <2>4
  <2>6. j.run \in Nat /\ j.run <= runs'
    BY <1>3, <1>5 DEF Ran
  <2> QED  BY <1>6, <2>1, <2>2, <2>5, <2>6 DEF Filed
<1>9. ASSUME NEW n \in DOMAIN files'.receipts
      PROVE  Filed(n)'
  <2>1. CASE n = j.run
    BY <1>8, <2>1
  <2>2. CASE n # j.run
    <3>1. n \in DOMAIN files.receipts /\ Filed(n)
      BY <1>6, <1>9, <2>2 DEF RunsInv
    <3>2. n \in DOMAIN files.manifests
      BY <3>1 DEF Filed
    <3>3. runs' = runs
      BY <1>3
    <3> QED  BY <1>6, <1>7, <2>2, <3>1, <3>2, <3>3, FiledStays
  <2> QED  BY <2>1, <2>2
<1>10. ASSUME NEW other \in Clerks \ {c}, job[other].at \in RunSteps
       PROVE  job[other].run \notin DOMAIN files'.receipts
  <2>1. job[other].run # j.run
    BY <1>1, <1>3, <1>4, <1>10, OthersRun
  <2>2. job[other].run \notin DOMAIN files.receipts
    BY <1>10 DEF RunsInv, Ran
  <2> QED  BY <1>6, <2>1, <2>2
<1>11. runs' \in Nat /\ runs <= runs'
  BY <1>3, <1>7
<1> QED  BY <1>3, <1>4, <1>6, <1>7, <1>9, <1>10, <1>11, ClerkRuns

LEMMA FaultRuns ==
  ASSUME NumbersInv, RunsInv, NEW c \in Clerks, Raise(c) \/ ResolutionFails(c) \/ Die(c)
  PROVE  RunsInv'
<1>1. CASE Raise(c) \/ Die(c)
  <2>1. job' = [job EXCEPT ![c] = Idle] /\ db' = db /\ files' = files /\ runs' = runs
    BY <1>1 DEF Raise, Fail, Die
  <2> QED  BY <2>1, IdleRuns
<1>2. CASE ResolutionFails(c)
  <2>1. PICK j : j = job[c]
    OBVIOUS
  <2>2. PICK next : next = [j EXCEPT !.at = "manifest", !.status = "Revalidation_Required"]
    OBVIOUS
  <2>3. /\ j.at = "resolve" /\ db' = db /\ files' = files /\ runs' = runs
        /\ job' = [job EXCEPT ![c] = next]
    BY <1>2, <2>1, <2>2 DEF ResolutionFails, NumbersInv
  <2>4. "resolve" \in RunSteps
    BY DEF RunSteps
  <2>5. Running(j) /\ Ran(j)
    BY <2>1, <2>3, <2>4, AtWork
  <2>6. /\ next.run = j.run /\ next.request = j.request /\ next.seen = j.seen
        /\ next.at = "manifest" /\ next.status = "Revalidation_Required"
    BY <2>2, <2>5 DEF Running, RunFields
  <2>7. AtStep(next)
    BY <2>6 DEF AtStep, Outcome, Terminal
  <2>8. Ran(next)
    BY <2>5, <2>6, <2>7 DEF Ran
  <2> QED  BY <2>1, <2>3, <2>4, <2>6, <2>8, StageRuns
<1> QED  BY <1>1, <1>2

\* A command does not become a run.
LEMMA CommandGoes ==
  ASSUME NumbersInv, NEW c \in Clerks, Command(c)
  PROVE  \E next : job' = [job EXCEPT ![c] = next] /\ next.at \notin RunSteps
<1>1. ASSUME NEW call, NEW at \in {"number", "reserve"}, Begin(c, call, at)
      PROVE  \E next : job' = [job EXCEPT ![c] = next] /\ next.at \notin RunSteps
  <2>1. PICK next : next = [at |-> at, call |-> call, number |-> 0, row |-> 0]
    OBVIOUS
  <2>2. next.at = at /\ at \notin RunSteps
    BY <2>1 DEF RunSteps
  <2>3. job' = [job EXCEPT ![c] = next]
    BY <1>1, <2>1 DEF Begin
  <2> QED  BY <2>2, <2>3
<1>2. /\ Idle.at \notin RunSteps /\ "insert" \notin RunSteps /\ "audit" \notin RunSteps
      /\ "event" \notin RunSteps /\ "amend" \notin RunSteps /\ "event_number" \notin RunSteps
  BY DEF RunSteps, Idle
<1>3. CASE CommandStep(c)
  <2>1. CASE InsertRow(c)
    <3>1. PICK next : /\ Commanding(job[c]) /\ Moves(c, next)
                      /\ next.at = After(job[c].call)
      BY <2>1, InsertRowIs
    <3>2. next.at \in {"amend", "event_number", "audit"}
      BY <3>1, AfterIs DEF Commanding
    <3> QED  BY <1>2, <3>1, <3>2 DEF Moves
  <2>2. CASE ReserveNumber(c) \/ DrawNumber(c)
    <3>1. PICK next : Moves(c, next) /\ next.at = "insert"
      BY <2>2, NumberIs
    <3> QED  BY <1>2, <3>1 DEF Moves
  <2>3. CASE AmendRow(c)
    <3>1. PICK next : Moves(c, next) /\ next.at = "audit"
      BY <2>3, AmendRowIs
    <3> QED  BY <1>2, <3>1 DEF Moves
  <2>4. CASE DrawEventNumber(c) \/ InsertEvent(c)
    <3>1. PICK next : Moves(c, next) /\ next.at \in {"event", "audit"}
      BY <2>4, EventIs
    <3> QED  BY <1>2, <3>1 DEF Moves
  <2>5. CASE RefuseRow(c) \/ CitationFails(c) \/ AuditRow(c)
    BY <1>2, <2>5, RefusedIs, AuditRowIs DEF Moves
  <2> QED  BY <1>3, <2>1, <2>2, <2>3, <2>4, <2>5 DEF CommandStep
<1>4. CASE CreateMarket(c) \/ CreateOrganization(c) \/ AddMembership(c)
            \/ Evaluate(c) \/ CalculateCci(c) \/ AddAction(c)
  BY <1>1, <1>4, CommandsBegin
<1> QED  BY <1>3, <1>4 DEF Command

LEMMA RunsAreKept ==
  ASSUME ManifestsAreWhole
  PROVE  NumbersInv /\ RunsInv /\ [Next]_vars => RunsInv'
<1> SUFFICES ASSUME NumbersInv, RunsInv, [Next]_vars PROVE RunsInv'
  OBVIOUS
<1>1. CASE Next
  <2>1. PICK c \in Clerks :
          \/ Command(c) /\ UNCHANGED <<files, completed, runs>>
          \/ \E request \in Requests, cut \in Cuts : StartRun(c, request, cut)
          \/ RunStep(c) \/ CutShort(c) \/ Raise(c) \/ ResolutionFails(c) \/ Die(c)
    BY <1>1 DEF Next
  <2>2. CASE Command(c) /\ UNCHANGED <<files, completed, runs>>
    <3>1. PICK next : job' = [job EXCEPT ![c] = next] /\ next.at \notin RunSteps
      BY <2>2, CommandGoes
    <3>2. TablesGrow /\ files' = files /\ runs' = runs
      BY <2>2, CommandKeeps
    <3> QED  BY <3>1, <3>2, FilesStay
  <2>3. CASE RunStep(c)
    <3>1. /\ "profile" \in RunSteps /\ "decision" \in RunSteps /\ "brief_tiles" \in RunSteps
      BY DEF RunSteps
    <3>2. CASE ReadTiles(c) \/ ReadDecision(c) \/ ReadBriefTiles(c)
      BY <3>1, <3>2, ReadsRun DEF ReadTiles, ReadDecision, ReadBriefTiles
    <3> QED  BY <2>3, <3>2, ValidateRuns, ResolveRuns, ReportRuns, ReadBriefDecisionRuns,
             EndManifestRuns, SaveReceiptRuns DEF RunStep
  <2>4. CASE CutShort(c)
    BY <2>4, EndManifestRuns, SaveReceiptRuns DEF CutShort
  <2> QED  BY <2>1, <2>2, <2>3, <2>4, StartRunRuns, FaultRuns
<1>2. CASE UNCHANGED vars
  <2>1. db' = db /\ job' = job /\ files' = files /\ runs' = runs
    BY <1>2 DEF vars
  <2>2. TablesGrow /\ runs \in Nat
    BY <2>1, TablesStay DEF RunsInv
  <2>3. ASSUME NEW id \in DOMAIN files'.receipts
        PROVE  Filed(id)'
    <3>1. Filed(id) /\ id \in DOMAIN files.manifests
      BY <2>1 DEF RunsInv, Filed
    <3> QED  BY <2>1, <2>2, <3>1, FiledStays
  <2>4. ASSUME NEW c \in Clerks, job'[c].at \in RunSteps
        PROVE  Ran(job[c])'
    <3>1. PICK j : j = job[c]
      OBVIOUS
    <3>2. Ran(j) /\ j.run \notin DOMAIN files.receipts
      BY <2>1, <2>4, <3>1 DEF RunsInv, Ran
    <3>3. j.at = "receipt" => j.run \in DOMAIN files.manifests
      BY <3>2 DEF Ran, AtStep
    <3>4. Ran(j)'
      BY <2>1, <2>2, <3>2, <3>3, RanStays
    <3> QED  BY <2>1, <3>1, <3>4
  <2> QED  BY <2>1, <2>3, <2>4 DEF RunsInv
<1> QED  BY <1>1, <1>2

LEMMA RunsAreRightAtFirst ==
  Init => RunsInv
<1> SUFFICES ASSUME Init PROVE RunsInv
  OBVIOUS
<1>1. /\ runs = 0 /\ DOMAIN files = FileKinds /\ DOMAIN files.receipts = {}
  BY DEF Init, FileKinds
<1>2. \A c \in Clerks : job[c].at \notin RunSteps
  BY DEF Init, RegistryInit, Idle, RunSteps
<1> QED  BY <1>1, <1>2 DEF RunsInv

LEMMA RunsHold ==
  ASSUME ManifestsAreWhole
  PROVE  Spec => [](NumbersInv /\ RunsInv)
<1>1. Init => NumbersInv /\ RunsInv
  BY NumbersAreRightAtFirst, RunsAreRightAtFirst
<1>2. NumbersInv /\ RunsInv /\ [Next]_vars => NumbersInv' /\ RunsInv'
  BY NumbersAreKept, RunsAreKept
<1> QED  BY <1>1, <1>2, PTL DEF Spec

\* A receipt on file is true: the manifest it names was written to its end and
\* is on file, it has a terminal status, and Completed means that the
\* organization is registered and the profile and the brief were read.
THEOREM PipelineReceiptsAreAlwaysTrue ==
  ASSUME ManifestsAreWhole
  PROVE  Spec => []ReceiptsAreTrue
<1>1. ASSUME RunsInv
      PROVE  ReceiptsAreTrue
  <2>1. \A id \in DOMAIN files.receipts :
          id \in Readable(files.manifests) /\ files.manifests[id].ended
    BY <1>1 DEF RunsInv, Filed, Readable
  <2>2. ASSUME NEW id \in Receipts, NEW receipt, receipt = files.receipts[id]
        PROVE  /\ receipt.manifest = files.manifests[id]
               /\ Outcome(receipt.request, receipt.status, receipt.seen)
    BY <1>1, <2>2 DEF RunsInv, Filed, Receipts, Readable, Sound
  <2> QED  BY <2>1, <2>2 DEF ReceiptsAreTrue, Outcome, Terminal, Known
<1> QED  BY <1>1, RunsHold, PTL

\* The readings of a run never go back in time, whoever scores in between:
\* the decision is not older than the tiles beside it, nor the brief than the
\* profile.
THEOREM ReadsNeverGoBackInTime ==
  ASSUME ManifestsAreWhole
  PROVE  Spec => []ReadsNeverGoBack
<1>1. ASSUME RunsInv
      PROVE  ReadsNeverGoBack
  <2>1. ASSUME NEW id \in Receipts
        PROVE  InOrder(files.receipts[id].seen)
    BY <1>1, <2>1 DEF RunsInv, Filed, Receipts, Readable, Sound
  <2> QED  BY <2>1 DEF ReadsNeverGoBack, InOrder, NotBefore
<1> QED  BY <1>1, RunsHold, PTL

-----------------------------------------------------------------------------
(* The confidence index.                                                   *)

Cards == DOMAIN Rows("scorecard")

Card(row) == Rows("scorecard")[row]

CardsApart ==
  \A row, other \in Cards : Card(row).number = Card(other).number => row = other

\* The components of an index are on file, of one organization, and one a model.
Based(organization, basis) ==
  /\ \A n \in basis : \E row \in Cards :
       /\ Card(row).number = n
       /\ Card(row).call.organization = organization
       /\ Card(row).call.model \in Models
  /\ \A n, k \in basis, row, other \in Cards :
       Card(row).number = n /\ Card(other).number = k
         /\ Card(row).call.model = Card(other).call.model
           => n = k

\* The call of a scorecard, with its number once it has one.
IndexCall(call) ==
  call.model = "Index" => Based(call.organization, call.basis)

DatedAfter(call, number) ==
  call.model = "Index" => \A n \in call.basis : n < number

\* A scorecard is not imported, so its number is drawn after its basis was read.
Calculating(j) ==
  j.call.op = "scorecard" =>
    /\ j.call.import = 0 /\ IndexCall(j.call)
    /\ j.at = "insert" => DatedAfter(j.call, j.number)

IndexInv ==
  /\ CardsApart
  /\ \A row \in Cards : IndexCall(Card(row).call) /\ DatedAfter(Card(row).call, Card(row).number)
  /\ \A c \in Clerks : job[c].at \in CommandSteps => Calculating(job[c])

LEMMA CardsGrow ==
  ASSUME TablesGrow
  PROVE  \A row \in Cards :
           /\ row \in Cards' /\ Card(row)'.number = Card(row).number
           /\ Card(row)'.call = Card(row).call
BY DEF TablesGrow, Cards, Card, Rows, RowTypes, EntityTypes

LEMMA BasedStays ==
  ASSUME TablesGrow, CardsApart', NEW organization, NEW basis, Based(organization, basis)
  PROVE  Based(organization, basis)'
<1>1. \A row \in Cards :
        /\ row \in Cards' /\ Card(row)'.number = Card(row).number
        /\ Card(row)'.call = Card(row).call
  BY CardsGrow
<1>2. ASSUME NEW n \in basis
      PROVE  \E row \in Cards' :
               /\ Card(row)'.number = n
               /\ Card(row)'.call.organization = organization
               /\ Card(row)'.call.model \in Models
  <2>1. PICK row \in Cards :
          /\ Card(row).number = n
          /\ Card(row).call.organization = organization
          /\ Card(row).call.model \in Models
    BY DEF Based
  <2> QED  BY <1>1, <2>1
<1>3. ASSUME NEW n \in basis, NEW row \in Cards', Card(row)'.number = n
      PROVE  row \in Cards
  <2>1. PICK old \in Cards : Card(old).number = n
    BY DEF Based
  <2>2. old \in Cards' /\ Card(old)'.number = n
    BY <1>1, <2>1
  <2>3. old = row
    BY <1>3, <2>2 DEF CardsApart
  <2> QED  BY <2>3
<1>4. ASSUME NEW n \in basis, NEW k \in basis, NEW row \in Cards', NEW other \in Cards',
             Card(row)'.number = n, Card(other)'.number = k,
             Card(row)'.call.model = Card(other)'.call.model
      PROVE  n = k
  <2>1. row \in Cards /\ other \in Cards
    BY <1>3, <1>4
  <2>2. /\ Card(row).number = n /\ Card(other).number = k
        /\ Card(row).call.model = Card(other).call.model
    BY <1>1, <1>4, <2>1
  <2> QED  BY <2>1, <2>2 DEF Based
<1> QED  BY <1>2, <1>4 DEF Based

LEMMA CalculatingStays ==
  ASSUME TablesGrow, CardsApart', NEW j, Calculating(j)
  PROVE  Calculating(j)'
BY BasedStays DEF Calculating, IndexCall, DatedAfter

\* A clerk that puts no scorecard in.
LEMMA ClerkCalculates ==
  ASSUME NumbersInv, IndexInv, TablesGrow, NEW c \in Clerks, NEW next, Moves(c, next),
         Cards' = Cards, next.at \in CommandSteps => Calculating(next)
  PROVE  IndexInv'
<1>1. /\ job'[c] = next /\ \A other \in Clerks : other # c => job'[other] = job[other]
  BY DEF NumbersInv, Moves
<1>2. \A row \in Cards :
        /\ row \in Cards' /\ Card(row)'.number = Card(row).number
        /\ Card(row)'.call = Card(row).call
  BY CardsGrow
<1>3. CardsApart'
  BY <1>2 DEF IndexInv, CardsApart
<1>4. ASSUME NEW row \in Cards', NEW call, NEW number,
             call = Card(row)'.call, number = Card(row)'.number
      PROVE  IndexCall(call)' /\ DatedAfter(call, number)
  <2>1. call = Card(row).call /\ number = Card(row).number /\ row \in Cards
    BY <1>2, <1>4
  <2>2. IndexCall(call) /\ DatedAfter(call, number)
    BY <2>1 DEF IndexInv
  <2>3. IndexCall(call)'
    BY <1>3, <2>2, BasedStays DEF IndexCall
  <2> QED  BY <2>2, <2>3
<1>5. ASSUME NEW other \in Clerks, job'[other].at \in CommandSteps
      PROVE  Calculating(job[other])'
  <2>1. PICK j : j = job'[other]
    OBVIOUS
  <2>2. Calculating(j)
    BY <1>1, <1>5, <2>1 DEF IndexInv
  <2>3. Calculating(j)'
    BY <1>3, <2>2, CalculatingStays
  <2> QED  BY <2>1, <2>3
<1> QED  BY <1>3, <1>4, <1>5 DEF IndexInv

\* What a profile shows of an organization makes a basis.
LEMMA LatestIsBased ==
  ASSUME NumbersInv, CardsApart, NEW organization
  PROVE  Based(organization, UNION {Latest(organization, model) : model \in Models})
<1> DEFINE basis == UNION {Latest(organization, model) : model \in Models}
<1>1. ASSUME NEW n \in basis
      PROVE  \E model \in Models : n \in Latest(organization, model)
  OBVIOUS
<1> HIDE DEF basis
<1>2. ASSUME NEW model, NEW n \in Latest(organization, model)
      PROVE  \E row \in Cards :
               /\ Card(row).number = n
               /\ Card(row).call.organization = organization
               /\ Card(row).call.model = model
  <2>1. n \in Numbers(organization, model)
    BY LatestIs
  <2> QED  BY <2>1 DEF Numbers, Cards, Card
<1>3. ASSUME NEW model, NEW n \in Latest(organization, model),
             NEW k \in Latest(organization, model)
      PROVE  n = k
  <2>1. /\ n \in Numbers(organization, model) /\ k \in Numbers(organization, model)
        /\ n <= k /\ k <= n
    BY LatestIs
  <2>2. n \in Nat /\ k \in Nat
    BY <2>1, NumbersAreBounded
  <2> QED  BY <2>1, <2>2
<1>4. ASSUME NEW n \in basis, NEW k \in basis, NEW row \in Cards, NEW other \in Cards,
             Card(row).number = n, Card(other).number = k,
             Card(row).call.model = Card(other).call.model
      PROVE  n = k
  <2>1. PICK model \in Models : n \in Latest(organization, model)
    BY <1>1
  <2>2. PICK kind \in Models : k \in Latest(organization, kind)
    BY <1>1
  <2>3. Card(row).call.model = model
    BY <1>2, <1>4, <2>1 DEF CardsApart
  <2>4. Card(other).call.model = kind
    BY <1>2, <1>4, <2>2 DEF CardsApart
  <2>5. model = kind
    BY <1>4, <2>3, <2>4
  <2> QED  BY <1>3, <2>1, <2>2, <2>5
<1>5. ASSUME NEW n \in basis
      PROVE  \E row \in Cards :
               /\ Card(row).number = n
               /\ Card(row).call.organization = organization
               /\ Card(row).call.model \in Models
  BY <1>1, <1>2
<1>6. Based(organization, basis)
  BY <1>4, <1>5 DEF Based
<1> QED  BY <1>6 DEF basis

\* What a command that begins asks for.
LEMMA BeginsCalculating ==
  ASSUME NumbersInv, IndexInv, NEW c,
         CreateMarket(c) \/ CreateOrganization(c) \/ AddMembership(c)
           \/ Evaluate(c) \/ CalculateCci(c) \/ AddAction(c)
  PROVE  \E call : \E at \in {"number", "reserve"} :
           /\ Begin(c, call, at)
           /\ call.op = "scorecard" => call.import = 0 /\ IndexCall(call)
<1>1. CASE CreateMarket(c)
  <2> DEFINE asked(name, owned, import) ==
               [op |-> "market", name |-> name, owned |-> owned, import |-> import]
  <2>1. \A name : \A owned : \A import : asked(name, owned, import).op = "market"
    OBVIOUS
  <2>2. \E name : \E owned : \E import : \E at \in {"number", "reserve"} :
          Begin(c, asked(name, owned, import), at)
    BY <1>1 DEF CreateMarket
  <2> HIDE DEF asked
  <2> QED  BY <2>1, <2>2
<1>2. CASE CreateOrganization(c)
  <2> DEFINE asked(name, domain, import) ==
               [op |-> "organization", name |-> name, domain |-> domain, import |-> import]
  <2>1. \A name : \A domain : \A import : asked(name, domain, import).op = "organization"
    OBVIOUS
  <2>2. \E name : \E domain : \E import : \E at \in {"number", "reserve"} :
          Begin(c, asked(name, domain, import), at)
    BY <1>2 DEF CreateOrganization
  <2> HIDE DEF asked
  <2> QED  BY <2>1, <2>2
<1>3. CASE AddMembership(c)
  <2>1. PICK market, organization :
          Begin(c, [op |-> "membership", market |-> market, organization |-> organization,
                    import |-> 0], "number")
    BY <1>3 DEF AddMembership
  <2>2. PICK call : call = [op |-> "membership", market |-> market,
                            organization |-> organization, import |-> 0]
    OBVIOUS
  <2> QED  BY <2>1, <2>2
<1>4. CASE AddAction(c)
  <2>1. PICK organization :
          Begin(c, [op |-> "action", organization |-> organization, import |-> 0], "number")
    BY <1>4 DEF AddAction
  <2>2. PICK call : call = [op |-> "action", organization |-> organization, import |-> 0]
    OBVIOUS
  <2> QED  BY <2>1, <2>2
<1>5. CASE Evaluate(c)
  <2>1. PICK model \in Models : \E organization : \E cites :
          Begin(c, [op |-> "scorecard", organization |-> organization, model |-> model,
                    cites |-> cites, basis |-> {}, import |-> 0], "number")
    BY <1>5 DEF Evaluate
  <2>2. PICK organization, cites :
          Begin(c, [op |-> "scorecard", organization |-> organization, model |-> model,
                    cites |-> cites, basis |-> {}, import |-> 0], "number")
    BY <2>1
  <2>3. PICK call : call = [op |-> "scorecard", organization |-> organization,
                            model |-> model, cites |-> cites, basis |-> {}, import |-> 0]
    OBVIOUS
  <2>4. call.import = 0 /\ call.model # "Index"
    BY <2>3, RegistryAssumption
  <2>5. IndexCall(call)
    BY <2>4 DEF IndexCall
  <2> QED  BY <2>2, <2>3, <2>4, <2>5
<1>6. CASE CalculateCci(c)
  <2>1. PICK organization, basis :
          /\ basis = UNION {Latest(organization, model) : model \in Models}
          /\ Begin(c, [op |-> "scorecard", organization |-> organization, model |-> "Index",
                       cites |-> "nothing", basis |-> basis, import |-> 0], "number")
    BY <1>6 DEF CalculateCci
  <2>2. PICK call : call = [op |-> "scorecard", organization |-> organization,
                            model |-> "Index", cites |-> "nothing", basis |-> basis,
                            import |-> 0]
    OBVIOUS
  <2>3. call.import = 0 /\ call.organization = organization /\ call.basis = basis
    BY <2>2
  <2>4. Based(organization, basis)
    BY <2>1, LatestIsBased DEF IndexInv
  <2>5. IndexCall(call)
    BY <2>3, <2>4 DEF IndexCall
  <2> QED  BY <2>1, <2>2, <2>3, <2>5
<1> QED  BY <1>1, <1>2, <1>3, <1>4, <1>5, <1>6

LEMMA BeginCalculates ==
  ASSUME NumbersInv, IndexInv, TablesGrow, NEW c \in Clerks, NEW call,
         NEW at \in {"number", "reserve"}, Begin(c, call, at),
         call.op = "scorecard" => call.import = 0 /\ IndexCall(call)
  PROVE  IndexInv'
<1>1. PICK next : next = [at |-> at, call |-> call, number |-> 0, row |-> 0]
  OBVIOUS
<1>2. next.at = at /\ next.call = call
  BY <1>1
<1>3. Calculating(next)
  BY <1>2 DEF Calculating
<1>4. Moves(c, next) /\ Cards' = Cards
  BY <1>1 DEF Begin, Moves, Cards, Rows
<1> QED  BY <1>3, <1>4, ClerkCalculates

\* A number that is drawn is beyond the basis.
LEMMA NumberCalculates ==
  ASSUME NumbersInv, IndexInv, TablesGrow, NEW c \in Clerks,
         ReserveNumber(c) \/ DrawNumber(c)
  PROVE  IndexInv'
<1>1. PICK next :
        /\ Commanding(job[c]) /\ job[c].at \in {"reserve", "number"}
        /\ Moves(c, next) /\ next.at = "insert"
        /\ next.call = job[c].call
        /\ job[c].at = "number" => next.number = db.last[Op(c)] + 1
        /\ Untouched
  BY NumberIs
<1>2. Cards' = Cards
  BY <1>1 DEF Untouched, Cards, Rows
<1>3. PICK j : j = job[c]
  OBVIOUS
<1>4. Calculating(j)
  BY <1>1, <1>3 DEF IndexInv, CommandSteps
<1>5. ASSUME j.call.op = "scorecard"
      PROVE  /\ j.call.import = 0 /\ IndexCall(j.call)
             /\ DatedAfter(j.call, next.number)
  <2>1. j.call.import = 0 /\ IndexCall(j.call)
    BY <1>4, <1>5 DEF Calculating
  <2>2. next.number = db.last["scorecard"] + 1
    BY <1>1, <1>3, <1>5, <2>1 DEF Commanding, Op
  <2>3. ASSUME j.call.model = "Index", NEW n \in j.call.basis
        PROVE  n < next.number
    <3>1. PICK row \in Cards : Card(row).number = n
      BY <2>1, <2>3 DEF IndexCall, Based
    <3>2. n \in Nat /\ n <= db.last["scorecard"] /\ db.last["scorecard"] \in Nat
      BY <3>1 DEF NumbersInv, RowsInv, StoreShape, Cards, Card, RowTypes, EntityTypes
    <3> QED  BY <2>2, <3>2
  <2> QED  BY <2>1, <2>3 DEF DatedAfter
<1>6. Calculating(next)
  BY <1>1, <1>3, <1>5 DEF Calculating
<1> QED  BY <1>1, <1>2, <1>6, ClerkCalculates

\* A scorecard that is put in has a number of its own, after its basis.
LEMMA InsertCalculates ==
  ASSUME NumbersInv, IndexInv, TablesGrow, NEW c \in Clerks, InsertRow(c)
  PROVE  IndexInv'
<1>1. PICK j : j = job[c]
  OBVIOUS
<1>2. PICK next :
        /\ Commanding(j) /\ j.at = "insert"
        /\ Moves(c, next) /\ next.at = After(j.call) /\ next.call = j.call
        /\ db' = Insert(db, j.call.op, NewRow(c)) /\ ~Conflicts(c)
        /\ j.call.op \in Commanded /\ j.call.op \in RowTypes
  BY <1>1, InsertRowIs DEF Op
<1>3. Calculating(j) /\ next.at # "insert"
  BY <1>1, <1>2, AfterIs DEF IndexInv, CommandSteps
<1>4. Calculating(next)
  BY <1>2, <1>3 DEF Calculating
<1>5. CASE j.call.op # "scorecard"
  <2>1. Cards' = Cards
    BY <1>2, <1>5, InsertAdds DEF SameRows, Cards, Rows, RowTypes, EntityTypes
  <2> QED  BY <1>2, <1>4, <2>1, ClerkCalculates
<1>6. CASE j.call.op = "scorecard"
  <2>1. PICK row : row = NewRow(c)
    OBVIOUS
  <2>2. row.number = j.number /\ row.call = j.call
    BY <1>1, <2>1 DEF NewRow
  <2>3. PICK n : n = Len(Rows("scorecard")) + 1
    OBVIOUS
  <2>4. /\ Cards' = Cards \union {n} /\ Card(n)' = row /\ n \notin Cards
        /\ \A r \in Cards : Card(r)' = Card(r)
    BY <1>2, <1>6, <2>1, <2>3, InsertAdds DEF Cards, Card, Rows
  <2>5. \A r \in Cards : Card(r).number # j.number
    BY <1>1, <1>2, <1>6, <2>1, <2>2 DEF Conflicts, Clash, Op, Cards, Card
  <2>6. CardsApart'
    <3>1. ASSUME NEW r \in Cards', NEW other \in Cards', Card(r)'.number = Card(other)'.number
          PROVE  r = other
      <4>1. CASE r \in Cards /\ other \in Cards
        BY <2>4, <3>1, <4>1 DEF IndexInv, CardsApart
      <4>2. CASE r = n /\ other \in Cards
        BY <2>2, <2>4, <2>5, <3>1, <4>2
      <4>3. CASE r \in Cards /\ other = n
        BY <2>2, <2>4, <2>5, <3>1, <4>3
      <4> QED  BY <2>4, <4>1, <4>2, <4>3
    <3> QED  BY <3>1 DEF CardsApart
  <2>7. IndexCall(j.call) /\ DatedAfter(j.call, j.number)
    BY <1>2, <1>3, <1>6 DEF Calculating
  <2>8. ASSUME NEW r \in Cards', NEW call, NEW number,
               call = Card(r)'.call, number = Card(r)'.number
        PROVE  IndexCall(call)' /\ DatedAfter(call, number)
    <3>1. IndexCall(call) /\ DatedAfter(call, number)
      BY <2>2, <2>4, <2>7, <2>8 DEF IndexInv
    <3> QED  BY <2>6, <3>1, BasedStays DEF IndexCall
  <2>9. ASSUME NEW other \in Clerks, job'[other].at \in CommandSteps
        PROVE  Calculating(job[other])'
    <3>1. PICK k : k = job'[other]
      OBVIOUS
    <3>2. Calculating(k)
      BY <1>2, <1>4, <2>9, <3>1 DEF IndexInv, Moves, NumbersInv
    <3>3. Calculating(k)'
      BY <2>6, <3>2, CalculatingStays
    <3> QED  BY <3>1, <3>3
  <2> QED  BY <2>6, <2>8, <2>9 DEF IndexInv
<1> QED  BY <1>5, <1>6

\* The rest of a command, and what is no command.
LEMMA OthersCalculate ==
  ASSUME NumbersInv, IndexInv, TablesGrow, NEW c \in Clerks,
         \/ AmendRow(c) \/ DrawEventNumber(c) \/ InsertEvent(c)
         \/ AuditRow(c) \/ RefuseRow(c) \/ CitationFails(c)
  PROVE  IndexInv'
<1>1. Idle.at \notin CommandSteps
  BY DEF Idle, CommandSteps
<1>2. "scorecard" \in RowTypes /\ "scorecard" # "lifecycle_event"
  BY DEF RowTypes, EntityTypes
<1>3. ASSUME NEW next, Commanding(job[c]), Moves(c, next), next.call = job[c].call,
             next.at # "insert", SameRows("scorecard")
      PROVE  IndexInv'
  <2>1. PICK j : j = job[c]
    OBVIOUS
  <2>2. Calculating(j)
    BY <1>3, <2>1 DEF IndexInv, Commanding
  <2>3. Calculating(next)
    BY <1>3, <2>1, <2>2 DEF Calculating
  <2>4. Cards' = Cards
    BY <1>3 DEF SameRows, Cards, Rows
  <2> QED  BY <1>3, <2>3, <2>4, ClerkCalculates
<1>4. CASE AmendRow(c)
  <2>1. PICK next :
          /\ Commanding(job[c]) /\ Moves(c, next) /\ next.at = "audit"
          /\ next.call = job[c].call
          /\ db' = Amend(db, Op(c), job[c].row)
          /\ Op(c) \in Commanded /\ job[c].row \in DOMAIN Rows(Op(c))
    BY <1>4, AmendRowIs
  <2>2. SameRows("scorecard")
    BY <1>2, <2>1, AmendAdds
  <2> QED  BY <1>3, <2>1, <2>2
<1>5. CASE DrawEventNumber(c) \/ InsertEvent(c)
  <2>1. PICK next :
          /\ Commanding(job[c])
          /\ Moves(c, next) /\ next.at \in {"event", "audit"}
          /\ next.call = job[c].call
          /\ \/ Untouched
             \/ \E row : db' = Insert(db, "lifecycle_event", row)
    BY <1>5, EventIs
  <2>2. SameRows("scorecard")
    BY <1>2, <2>1, UntouchedAdds, InsertAdds, TypesAre
  <2> QED  BY <1>3, <2>1, <2>2
<1>6. CASE AuditRow(c) \/ RefuseRow(c) \/ CitationFails(c)
  <2>1. Moves(c, Idle) /\ Cards' = Cards
    BY <1>6, AuditRowIs, RefusedIs, AuditAdds DEF Cards, Rows
  <2> QED  BY <1>1, <2>1, ClerkCalculates
<1> QED  BY <1>4, <1>5, <1>6

LEMMA IndexIsKept ==
  NumbersInv /\ IndexInv /\ [Next]_vars => IndexInv'
<1> SUFFICES ASSUME NumbersInv, IndexInv, [Next]_vars PROVE IndexInv'
  OBVIOUS
<1>1. CASE Next
  <2>1. PICK c \in Clerks : Command(c) \/ \E next : RunGoesTo(c, next)
    BY <1>1, StepsAre
  <2>2. CASE Command(c)
    <3>1. TablesGrow
      BY <2>2, CommandKeeps
    <3>2. CASE CommandStep(c)
      BY <3>1, <3>2, NumberCalculates, InsertCalculates, OthersCalculate DEF CommandStep
    <3>3. CASE CreateMarket(c) \/ CreateOrganization(c) \/ AddMembership(c)
                \/ Evaluate(c) \/ CalculateCci(c) \/ AddAction(c)
      BY <3>1, <3>3, BeginsCalculating, BeginCalculates
    <3> QED  BY <2>2, <3>2, <3>3 DEF Command
  <2>3. CASE \E next : RunGoesTo(c, next)
    <3>1. PICK next : RunGoesTo(c, next)
      BY <2>3
    <3>2. Moves(c, next) /\ Cards' = Cards /\ TablesGrow
      BY <3>1, RunKeeps DEF RunGoesTo, Moves, Cards, Rows
    <3>3. next.at \notin CommandSteps
      <4>1. next = Idle \/ next.at \in RunSteps
        BY <3>1 DEF RunGoesTo, Running
      <4>2. Idle.at \notin CommandSteps /\ RunSteps \cap CommandSteps = {}
        BY DEF RunSteps, Idle, CommandSteps
      <4> QED  BY <4>1, <4>2
    <3> QED  BY <3>2, <3>3, ClerkCalculates
  <2> QED  BY <2>1, <2>2, <2>3
<1>2. CASE UNCHANGED vars
  <2>1. db' = db /\ job' = job
    BY <1>2 DEF vars
  <2>2. TablesGrow
    BY <2>1, TablesStay
  <2>3. CardsApart'
    BY <2>1 DEF IndexInv, CardsApart, Cards, Card, Rows
  <2>4. ASSUME NEW r \in Cards', NEW call, NEW number,
               call = Card(r)'.call, number = Card(r)'.number
        PROVE  IndexCall(call)' /\ DatedAfter(call, number)
    <3>1. IndexCall(call) /\ DatedAfter(call, number)
      BY <2>1, <2>4 DEF IndexInv, Cards, Card, Rows
    <3> QED  BY <2>2, <2>3, <3>1, BasedStays DEF IndexCall
  <2>5. ASSUME NEW c \in Clerks, job'[c].at \in CommandSteps
        PROVE  Calculating(job[c])'
    <3>1. PICK k : k = job'[c]
      OBVIOUS
    <3>2. Calculating(k)
      BY <2>1, <2>5, <3>1 DEF IndexInv
    <3>3. Calculating(k)'
      BY <2>2, <2>3, <3>2, CalculatingStays
    <3> QED  BY <3>1, <3>3
  <2> QED  BY <2>3, <2>4, <2>5 DEF IndexInv
<1> QED  BY <1>1, <1>2

LEMMA IndexIsRightAtFirst ==
  Init => IndexInv
<1> SUFFICES ASSUME Init PROVE IndexInv
  OBVIOUS
<1>1. \A c \in Clerks : job[c].at \notin CommandSteps
  BY DEF Init, RegistryInit, Idle, CommandSteps
<1>2. PICK seed \in Seeds : db = Seeded(seed)
  BY DEF Init, RegistryInit
<1>3. "scorecard" \in RowTypes
  BY DEF RowTypes, EntityTypes
<1>4. CASE seed = "new"
  <2>1. Cards = {}
    BY <1>2, <1>3, <1>4, EmptyShape DEF Seeded, Cards, Rows
  <2> QED  BY <1>1, <2>1 DEF IndexInv, CardsApart
<1>5. CASE seed # "new"
  <2>1. db.rows = SeedRows
    BY <1>2, <1>5 DEF Seeded, EmptyStore
  <2>2. \E row : SeedRows["scorecard"] = <<row>> /\ row.call.model = "Fit"
    BY DEF SeedRows, Numbered, RowTypes, EntityTypes
  <2>3. PICK row : SeedRows["scorecard"] = <<row>> /\ row.call.model = "Fit"
    BY <2>2
  <2>4. DOMAIN <<row>> = {1} /\ <<row>>[1] = row
    OBVIOUS
  <2>5. Cards = {1} /\ Card(1) = row
    BY <2>1, <2>3, <2>4 DEF Cards, Card, Rows
  <2>6. row.call.model # "Index"
    BY <2>3, RegistryAssumption
  <2> QED  BY <1>1, <2>5, <2>6 DEF IndexInv, CardsApart, IndexCall, DatedAfter
<1> QED  BY <1>4, <1>5

\* The scorecards a confidence index was computed from are on file, of its
\* organization, dated before it and one a model, though profile and index are
\* steps apart and others score in between.
THEOREM IndexAlwaysHasItsComponents ==
  Spec => []IndexHasItsComponents
<1>1. Init => NumbersInv /\ IndexInv
  BY NumbersAreRightAtFirst, IndexIsRightAtFirst
<1>2. NumbersInv /\ IndexInv /\ [Next]_vars => NumbersInv' /\ IndexInv'
  BY NumbersAreKept, IndexIsKept
<1>3. ASSUME IndexInv
      PROVE  IndexHasItsComponents
  <2>1. ASSUME NEW row \in Cards, Card(row).call.model = "Index"
        PROVE  /\ Based(Card(row).call.organization, Card(row).call.basis)
               /\ \A n \in Card(row).call.basis : n < Card(row).number
    BY <1>3, <2>1 DEF IndexInv, IndexCall, DatedAfter
  <2> QED  BY <2>1 DEF IndexHasItsComponents, Based, Cards, Card
<1> QED  BY <1>1, <1>2, <1>3, PTL DEF Spec

-----------------------------------------------------------------------------
(* What faults leave unfinished.                                           *)

\* A row a job is at work on.
Holds(j, type, row) ==
  j # Idle /\ "row" \in DOMAIN j /\ j.call.op = type /\ j.row = row

\* A row nobody is at work on, that lacks something.
IsLeft(type, row) ==
  /\ type \in Commanded /\ row \in DOMAIN Rows(type)
  /\ \A c \in Clerks : ~Holds(job[c], type, row)
  /\ Unfinished(type, row)
  /\ ~(type = "scorecard" /\ Rows(type)[row].call.cites \in Unlinkable)

\* What a command adds to its row before it audits it.
Added(call, row) ==
  /\ After(call) = "amend" => Rows(call.op)[row].amended
  /\ call.op = "organization" =>
       \E event \in DOMAIN Rows("lifecycle_event") :
         Rows("lifecycle_event")[event].organization = row

\* A command has no row before it puts one in, and has added to it what belongs
\* to it when it audits it.
Tidy(j) ==
  /\ j.at \in {"reserve", "number", "insert"} => j.row = 0
  /\ j.at = "amend" => j.call.op # "organization"
  /\ j.at = "audit" => Added(j.call, j.row)

TidyInv ==
  \A c \in Clerks : job[c].at \in CommandSteps => Tidy(job[c])

LEMMA LeftIs ==
  ASSUME NEW x
  PROVE  x \in LeftUnfinished <=> \E type : \E row : x = <<type, row>> /\ IsLeft(type, row)
<1>1. ASSUME x \in LeftUnfinished
      PROVE  \E type : \E row : x = <<type, row>> /\ IsLeft(type, row)
  <2>1. PICK type \in Commanded : x \in {type} \X Left(type)
    BY <1>1 DEF LeftUnfinished
  <2>2. PICK row \in Left(type) : x = <<type, row>>
    BY <2>1
  <2>3. /\ x[1] = type /\ x[2] = row
        /\ Unfinished(type, row)
        /\ ~(type = "scorecard" /\ Rows(type)[row].call.cites \in Unlinkable)
    BY <1>1, <2>2 DEF LeftUnfinished
  <2>4. row \in DOMAIN Rows(type) /\ \A c \in Clerks : ~Holds(job[c], type, row)
    BY <2>2 DEF Left, Holds, Op
  <2> QED  BY <2>1, <2>2, <2>3, <2>4 DEF IsLeft
<1>2. ASSUME NEW type, NEW row, x = <<type, row>>, IsLeft(type, row)
      PROVE  x \in LeftUnfinished
  <2>1. x[1] = type /\ x[2] = row
    BY <1>2
  <2>2. row \in Left(type) /\ type \in Commanded
    BY <1>2 DEF IsLeft, Holds, Left, Op
  <2>3. x \in UNION {{t} \X Left(t) : t \in Commanded}
    BY <1>2, <2>2
  <2> QED  BY <1>2, <2>1, <2>3 DEF LeftUnfinished, IsLeft
<1> QED  BY <1>1, <1>2

LEMMA LeftIsThen ==
  ASSUME NEW x
  PROVE  x \in LeftUnfinished' <=> \E type : \E row : x = <<type, row>> /\ IsLeft(type, row)'
<1>1. ASSUME x \in LeftUnfinished'
      PROVE  \E type : \E row : x = <<type, row>> /\ IsLeft(type, row)'
  <2>1. PICK type \in Commanded : x \in {type} \X Left(type)'
    BY <1>1 DEF LeftUnfinished
  <2>2. PICK row \in Left(type)' : x = <<type, row>>
    BY <2>1
  <2>3. /\ x[1] = type /\ x[2] = row
        /\ Unfinished(type, row)'
        /\ ~(type = "scorecard" /\ Rows(type)'[row].call.cites \in Unlinkable)
    BY <1>1, <2>2 DEF LeftUnfinished
  <2>4. row \in DOMAIN Rows(type)' /\ \A c \in Clerks : ~Holds(job'[c], type, row)
    BY <2>2 DEF Left, Holds, Op
  <2> QED  BY <2>1, <2>2, <2>3, <2>4 DEF IsLeft
<1>2. ASSUME NEW type, NEW row, x = <<type, row>>, IsLeft(type, row)'
      PROVE  x \in LeftUnfinished'
  <2>1. x[1] = type /\ x[2] = row
    BY <1>2
  <2>2. row \in Left(type)' /\ type \in Commanded
    BY <1>2 DEF IsLeft, Holds, Left, Op
  <2>3. x \in UNION {{t} \X Left(t)' : t \in Commanded}
    BY <1>2, <2>2
  <2> QED  BY <1>2, <2>1, <2>3 DEF LeftUnfinished, IsLeft
<1> QED  BY <1>1, <1>2

\* No row is row 0.
LEMMA RowsAreNumbered ==
  ASSUME NumbersInv, NEW type \in RowTypes, NEW row \in DOMAIN Rows(type)
  PROVE  row # 0
<1>1. PICK S : Rows(type) \in Seq(S)
  BY DEF NumbersInv, StoreShape, Rows
<1>2. DOMAIN Rows(type) = 1..Len(Rows(type)) /\ Len(Rows(type)) \in Nat
  BY <1>1
<1> QED  BY <1>2

\* What is unfinished was so before.
LEMMA UnfinishedBefore ==
  ASSUME NumbersInv, TablesGrow, MoreDone, NEW type \in Commanded,
         NEW row \in DOMAIN Rows(type), Unfinished(type, row)'
  PROVE  Unfinished(type, row)
<1>1. /\ type \in RowTypes /\ type # "lifecycle_event" /\ "lifecycle_event" \in RowTypes
  BY TypesAre
<1>2. PICK call : call = Rows(type)[row].call
  OBVIOUS
<1>3. Rows(type)'[row].call = call
  BY <1>1, <1>2 DEF TablesGrow, Rows
<1>4. \/ [action |-> type, row |-> row] \notin db'.audit
      \/ After(call) = "amend" /\ ~Rows(type)'[row].amended
      \/ /\ type = "organization"
         /\ ~\E event \in DOMAIN Rows("lifecycle_event")' :
              Rows("lifecycle_event")'[event].organization = row
  BY <1>3 DEF Unfinished
<1>5. /\ db.audit \subseteq db'.audit
      /\ Rows(type)[row].amended => Rows(type)'[row].amended
      /\ \A event \in DOMAIN Rows("lifecycle_event") :
           /\ event \in DOMAIN Rows("lifecycle_event")'
           /\ Rows("lifecycle_event")'[event] = Rows("lifecycle_event")[event]
  BY <1>1 DEF MoreDone, TablesGrow, Rows
<1> QED  BY <1>2, <1>4, <1>5 DEF Unfinished

\* What a clerk leaves behind was left before, or is what it lets go of.
LEMMA LeftBehind ==
  ASSUME NumbersInv, TablesGrow, MoreDone, NEW c \in Clerks, NEW next, Moves(c, next),
         \A type \in Commanded : \A row \in DOMAIN Rows(type)' :
           row \notin DOMAIN Rows(type) => Holds(next, type, row),
         NEW type, NEW row, IsLeft(type, row)'
  PROVE  \/ IsLeft(type, row)
         \/ /\ Holds(job[c], type, row) /\ ~Holds(next, type, row)
            /\ row \in DOMAIN Rows(type) /\ row # 0
            /\ type \in Commanded
            /\ Unfinished(type, row)' /\ Rows(type)'[row].call = Rows(type)[row].call
            /\ ~(type = "scorecard" /\ Rows(type)[row].call.cites \in Unlinkable)
<1>1. /\ job'[c] = next /\ \A d \in Clerks : d # c => job'[d] = job[d]
  BY DEF NumbersInv, Moves
<1>2. /\ type \in Commanded /\ row \in DOMAIN Rows(type)'
      /\ \A d \in Clerks : ~Holds(job'[d], type, row)
      /\ Unfinished(type, row)'
      /\ ~(type = "scorecard" /\ Rows(type)'[row].call.cites \in Unlinkable)
  BY DEF IsLeft, Holds
<1>3. row \in DOMAIN Rows(type)
  BY <1>1, <1>2
<1>4. Rows(type)'[row].call = Rows(type)[row].call /\ row # 0
  BY <1>2, <1>3, TypesAre, RowsAreNumbered DEF TablesGrow, Rows
<1>5. Unfinished(type, row)
  BY <1>2, <1>3, UnfinishedBefore
<1>6. \A d \in Clerks : d # c => ~Holds(job[d], type, row)
  BY <1>1, <1>2
<1>7. ~Holds(next, type, row)
  BY <1>1, <1>2
<1>8. CASE Holds(job[c], type, row)
  BY <1>2, <1>3, <1>4, <1>7, <1>8
<1>9. CASE ~Holds(job[c], type, row)
  BY <1>2, <1>3, <1>4, <1>5, <1>6, <1>9 DEF IsLeft
<1> QED  BY <1>8, <1>9

\* A step of a command leaves nothing behind.
NothingLeft == \A type : \A row : IsLeft(type, row)' => IsLeft(type, row)

LEMMA JobsHold ==
  ASSUME NEW j, Commanding(j), NEW type, NEW row
  PROVE  Holds(j, type, row) <=> j.call.op = type /\ j.row = row
<1>1. j # Idle /\ "row" \in DOMAIN j
  <2>1. Idle.at \notin CommandSteps
    BY IdleIsQuiet DEF CommandSteps
  <2> QED  BY <2>1 DEF Commanding, JobFields
<1> QED  BY <1>1 DEF Holds

LEMMA NothingIsHeld ==
  ASSUME NEW j, j = Idle \/ Running(j), NEW type, NEW row
  PROVE  ~Holds(j, type, row)
BY DEF Holds, Running, RunFields

\* A step that keeps its row, or has none yet.
LEMMA KeepsItsRow ==
  ASSUME NumbersInv, TablesGrow, MoreDone, NEW c \in Clerks, NEW next, Moves(c, next),
         \A type \in Commanded : SameRows(type),
         next.at \in CommandSteps, DOMAIN next = JobFields, Commanding(job[c]),
         next.call = job[c].call, next.row = job[c].row
  PROVE  NothingLeft
<1>1. \A type : \A row : Holds(job[c], type, row) => Holds(next, type, row)
  <2>1. Idle.at \notin CommandSteps
    BY IdleIsQuiet DEF CommandSteps
  <2>2. next # Idle /\ "row" \in DOMAIN next
    BY <2>1 DEF JobFields
  <2> QED  BY <2>2 DEF Holds
<1>2. \A type \in Commanded : \A row \in DOMAIN Rows(type)' : row \in DOMAIN Rows(type)
  BY DEF SameRows, Rows
<1> QED  BY <1>1, <1>2, LeftBehind DEF NothingLeft

\* A clerk that had nothing.
LEMMA HadNothing ==
  ASSUME NumbersInv, NEW c \in Clerks, NEW next, Moves(c, next), db' = db,
         job[c] = Idle \/ Running(job[c])
  PROVE  NothingLeft
<1>1. TablesGrow /\ MoreDone /\ \A type : SameRows(type)
  BY TablesStay, UntouchedAdds DEF Untouched
<1>2. \A type \in Commanded : \A row \in DOMAIN Rows(type)' : row \in DOMAIN Rows(type)
  BY <1>1 DEF SameRows, Rows
<1>3. \A type : \A row : ~Holds(job[c], type, row)
  BY NothingIsHeld
<1> QED  BY <1>1, <1>2, <1>3, LeftBehind DEF NothingLeft

LEMMA NumberLeaves ==
  ASSUME NumbersInv, TablesGrow, NEW c \in Clerks, ReserveNumber(c) \/ DrawNumber(c)
  PROVE  NothingLeft
<1>1. PICK next :
        /\ Commanding(job[c]) /\ Moves(c, next) /\ next.at = "insert"
        /\ DOMAIN next = JobFields
        /\ next.call = job[c].call /\ next.row = job[c].row /\ Untouched
  BY NumberIs
<1>2. MoreDone /\ \A type \in Commanded : SameRows(type)
  BY <1>1, UntouchedAdds
<1>3. next.at \in CommandSteps
  BY <1>1 DEF CommandSteps
<1> QED  BY <1>1, <1>2, <1>3, KeepsItsRow

LEMMA AmendLeaves ==
  ASSUME NumbersInv, TablesGrow, NEW c \in Clerks, AmendRow(c)
  PROVE  NothingLeft
<1>1. PICK next :
        /\ Commanding(job[c]) /\ Moves(c, next) /\ next.at = "audit"
        /\ DOMAIN next = JobFields
        /\ next.call = job[c].call /\ next.row = job[c].row
        /\ db' = Amend(db, Op(c), job[c].row)
        /\ Op(c) \in Commanded /\ job[c].row \in DOMAIN Rows(Op(c))
  BY AmendRowIs
<1>2. MoreDone /\ \A type \in Commanded : SameRows(type)
  BY <1>1, AmendAdds, TypesAre
<1>3. next.at \in CommandSteps
  BY <1>1 DEF CommandSteps
<1> QED  BY <1>1, <1>2, <1>3, KeepsItsRow

LEMMA EventLeaves ==
  ASSUME NumbersInv, TablesGrow, NEW c \in Clerks, DrawEventNumber(c) \/ InsertEvent(c)
  PROVE  NothingLeft
<1>1. PICK next :
        /\ Commanding(job[c]) /\ Moves(c, next) /\ next.at \in {"event", "audit"}
        /\ DOMAIN next = JobFields
        /\ next.call = job[c].call /\ next.row = job[c].row
        /\ Untouched \/ \E row : db' = Insert(db, "lifecycle_event", row)
  BY EventIs
<1>2. MoreDone /\ \A type \in Commanded : SameRows(type)
  <2>1. CASE Untouched
    BY <2>1, UntouchedAdds
  <2>2. CASE \E row : db' = Insert(db, "lifecycle_event", row)
    <3>1. MoreDone /\ \A type \in RowTypes : type # "lifecycle_event" => SameRows(type)
      BY <2>2, InsertAdds, TypesAre
    <3> QED  BY <3>1, TypesAre
  <2> QED  BY <1>1, <2>1, <2>2
<1>3. next.at \in CommandSteps
  BY <1>1 DEF CommandSteps
<1> QED  BY <1>1, <1>2, <1>3, KeepsItsRow

LEMMA InsertLeaves ==
  ASSUME NumbersInv, TidyInv, TablesGrow, NEW c \in Clerks, InsertRow(c)
  PROVE  NothingLeft
<1>1. PICK next :
        /\ Commanding(job[c]) /\ job[c].at = "insert"
        /\ Moves(c, next) /\ next.at = After(job[c].call) /\ DOMAIN next = JobFields
        /\ next.call = job[c].call /\ next.row = Len(Rows(Op(c))) + 1
        /\ db' = Insert(db, Op(c), NewRow(c))
        /\ Op(c) \in Commanded /\ Op(c) \in RowTypes
  BY InsertRowIs
<1>2. /\ MoreDone /\ \A type \in RowTypes : type # Op(c) => SameRows(type)
      /\ DOMAIN db'.rows[Op(c)] = DOMAIN Rows(Op(c)) \union {next.row}
  BY <1>1, InsertAdds
<1>3. ASSUME NEW type \in Commanded, NEW row \in DOMAIN Rows(type)',
             row \notin DOMAIN Rows(type)
      PROVE  Holds(next, type, row)
  <2>1. type = Op(c) /\ row = next.row
    BY <1>2, <1>3, TypesAre DEF SameRows, Rows
  <2>2. next # Idle
    <3>1. next.at # "idle"
      BY <1>1, AfterIs DEF Commanding
    <3> QED  BY <3>1, IdleIsQuiet
  <2> QED  BY <1>1, <2>1, <2>2 DEF Holds, JobFields, Op
<1>4. job[c].row = 0
  BY <1>1 DEF TidyInv, Tidy, CommandSteps
<1>5. \A type : \A row : row # 0 => ~Holds(job[c], type, row)
  BY <1>4 DEF Holds
<1> QED  BY <1>1, <1>2, <1>3, <1>5, LeftBehind DEF NothingLeft

LEMMA RefusedLeaves ==
  ASSUME NumbersInv, TidyInv, NEW c \in Clerks, RefuseRow(c) \/ CitationFails(c)
  PROVE  NothingLeft
<1>1. /\ Commanding(job[c]) /\ Moves(c, Idle) /\ db' = db
      /\ \/ job[c].at = "insert"
         \/ job[c].at = "amend" /\ Op(c) = "scorecard" /\ job[c].call.cites \in Unlinkable
  BY RefusedIs
<1>2. TablesGrow /\ MoreDone /\ \A type : SameRows(type)
  BY <1>1, TablesStay, UntouchedAdds DEF Untouched
<1>3. \A type \in Commanded : \A row \in DOMAIN Rows(type)' : row \in DOMAIN Rows(type)
  BY <1>2 DEF SameRows, Rows
<1>4. ASSUME NEW type, NEW row, Holds(job[c], type, row), row # 0
      PROVE  type = "scorecard" /\ Rows(type)[row].call.cites \in Unlinkable
  <2>1. job[c].call.op = type /\ job[c].row = row
    BY <1>4 DEF Holds
  <2>2. job[c].at # "insert"
    BY <1>4, <2>1 DEF TidyInv, Tidy, CommandSteps
  <2>3. /\ job[c].at = "amend" /\ type = "scorecard"
        /\ job[c].call.cites \in Unlinkable
    BY <1>1, <2>1, <2>2 DEF Op
  <2>4. Rows(type)[row].call = job[c].call
    BY <1>1, <2>1, <2>3 DEF Commanding
  <2> QED  BY <2>3, <2>4
<1> QED  BY <1>1, <1>2, <1>3, <1>4, LeftBehind DEF NothingLeft

LEMMA AuditLeaves ==
  ASSUME NumbersInv, TidyInv, NEW c \in Clerks, TablesGrow, AuditRow(c)
  PROVE  NothingLeft
<1>1. /\ Commanding(job[c]) /\ job[c].at = "audit" /\ Moves(c, Idle)
      /\ db' = Audited(db, Op(c), job[c].row)
  BY AuditRowIs
<1>2. /\ MoreDone /\ \A type : SameRows(type)
      /\ db'.rows = db.rows /\ [action |-> Op(c), row |-> job[c].row] \in db'.audit
  BY <1>1, AuditAdds
<1>3. \A type \in Commanded : \A row \in DOMAIN Rows(type)' : row \in DOMAIN Rows(type)
  BY <1>2 DEF SameRows, Rows
<1>4. ASSUME NEW type, NEW row, Holds(job[c], type, row)
      PROVE  ~Unfinished(type, row)'
  <2>1. job[c].call.op = type /\ job[c].row = row
    BY <1>4 DEF Holds
  <2>2. PICK call : call = job[c].call
    OBVIOUS
  <2>3. Rows(type)[row].call = call /\ call.op = type
    BY <1>1, <2>1, <2>2 DEF Commanding
  <2>4. Added(call, row)
    BY <1>1, <2>1, <2>2 DEF TidyInv, Tidy, CommandSteps
  <2>5. [action |-> type, row |-> row] \in db'.audit
    BY <1>2, <2>1 DEF Op
  <2> QED  BY <1>2, <2>3, <2>4, <2>5 DEF Unfinished, Added, Rows
<1> QED  BY <1>1, <1>2, <1>3, <1>4, LeftBehind DEF NothingLeft

LEMMA AddedStays ==
  ASSUME TablesGrow, MoreDone, NEW call, call.op \in Commanded,
         NEW row \in DOMAIN Rows(call.op), Added(call, row)
  PROVE  Added(call, row)'
<1>1. Rows(call.op)[row].amended => Rows(call.op)'[row].amended
  BY DEF MoreDone, Rows
<1>2. ASSUME NEW event \in DOMAIN Rows("lifecycle_event")
      PROVE  /\ event \in DOMAIN Rows("lifecycle_event")'
             /\ Rows("lifecycle_event")'[event] = Rows("lifecycle_event")[event]
  BY TypesAre DEF MoreDone, TablesGrow, Rows
<1> QED  BY <1>1, <1>2 DEF Added

LEMMA ClerkTidies ==
  ASSUME NumbersInv, TidyInv, TablesGrow, MoreDone, NEW c \in Clerks, NEW next,
         Moves(c, next), next.at \in CommandSteps => Tidy(next)'
  PROVE  TidyInv'
<1>1. /\ job'[c] = next /\ \A other \in Clerks : other # c => job'[other] = job[other]
  BY DEF NumbersInv, Moves
<1>2. ASSUME NEW d \in Clerks, job'[d].at \in CommandSteps
      PROVE  Tidy(job[d])'
  <2>1. CASE d = c
    BY <1>1, <1>2, <2>1
  <2>2. CASE d # c
    <3>1. PICK j : j = job[d]
      OBVIOUS
    <3>2. job'[d] = j
      BY <1>1, <2>2, <3>1
    <3>3. Tidy(j) /\ Commanding(j)
      BY <1>2, <3>1, <3>2, HeldAt DEF TidyInv, NumbersInv
    <3>4. j.at = "audit" => Added(j.call, j.row)'
      BY <3>3, AddedStays DEF Tidy, Commanding
    <3>5. Tidy(j)'
      BY <3>3, <3>4 DEF Tidy
    <3> QED  BY <3>2, <3>5
  <2> QED  BY <2>1, <2>2
<1> QED  BY <1>2 DEF TidyInv

LEMMA BeginTidies ==
  ASSUME NumbersInv, TidyInv, TablesGrow, NEW c \in Clerks, NEW call,
         NEW at \in {"number", "reserve"}, Begin(c, call, at)
  PROVE  TidyInv' /\ NothingLeft /\ faults' = faults
<1>1. PICK next : next = [at |-> at, call |-> call, number |-> 0, row |-> 0]
  OBVIOUS
<1>2. next.at = at /\ next.row = 0
  BY <1>1
<1>3. Tidy(next)'
  BY <1>2 DEF Tidy
<1>4. Moves(c, next) /\ db' = db /\ faults' = faults /\ job[c].at = "idle"
  BY <1>1 DEF Begin, Moves
<1>5. MoreDone
  BY <1>4, UntouchedAdds DEF Untouched
<1>6. job[c] = Idle
  BY <1>4, HeldAt DEF NumbersInv
<1> QED  BY <1>3, <1>4, <1>5, <1>6, ClerkTidies, HadNothing

LEMMA CommandStepTidies ==
  ASSUME NumbersInv, TidyInv, TablesGrow, NEW c \in Clerks, CommandStep(c)
  PROVE  TidyInv'
<1>1. Idle.at \notin CommandSteps
  BY IdleIsQuiet DEF CommandSteps
<1>2. CASE ReserveNumber(c) \/ DrawNumber(c)
  <2>1. PICK next :
          /\ Commanding(job[c]) /\ job[c].at \in {"reserve", "number"}
          /\ Moves(c, next) /\ next.at = "insert" /\ next.row = job[c].row /\ Untouched
    BY <1>2, NumberIs
  <2>2. job[c].row = 0
    BY <2>1 DEF TidyInv, Tidy, Commanding
  <2>3. Tidy(next)'
    BY <2>1, <2>2 DEF Tidy
  <2> QED  BY <2>1, <2>3, UntouchedAdds, ClerkTidies
<1>3. CASE InsertRow(c)
  <2>1. PICK next :
          /\ Commanding(job[c])
          /\ Moves(c, next) /\ next.at = After(job[c].call) /\ next.call = job[c].call
          /\ db' = Insert(db, Op(c), NewRow(c)) /\ Op(c) \in RowTypes
    BY <1>3, InsertRowIs
  <2>2. PICK call : call = job[c].call
    OBVIOUS
  <2>3. /\ next.at \in {"amend", "event_number", "audit"} /\ next.at = After(call)
        /\ next.at = "event_number" <=> call.op = "organization"
        /\ next.call = call
    BY <2>1, <2>2, AfterIs DEF Commanding
  <2>4. next.at = "audit" => Added(next.call, next.row)'
    BY <2>3 DEF Added
  <2>5. Tidy(next)'
    BY <2>3, <2>4 DEF Tidy
  <2>6. MoreDone
    BY <2>1, InsertAdds
  <2> QED  BY <2>1, <2>5, <2>6, ClerkTidies
<1>4. CASE AmendRow(c)
  <2>1. PICK next :
          /\ Commanding(job[c]) /\ job[c].at = "amend" /\ Moves(c, next) /\ next.at = "audit"
          /\ next.call = job[c].call /\ next.row = job[c].row
          /\ db' = Amend(db, Op(c), job[c].row)
          /\ Op(c) \in Commanded /\ job[c].row \in DOMAIN Rows(Op(c))
    BY <1>4, AmendRowIs
  <2>2. MoreDone /\ db'.rows[Op(c)][job[c].row].amended
    BY <2>1, AmendAdds
  <2>3. job[c].call.op # "organization"
    BY <2>1 DEF TidyInv, Tidy, Commanding
  <2>4. Added(next.call, next.row)'
    BY <2>1, <2>2, <2>3 DEF Added, Rows, Op
  <2>5. Tidy(next)'
    BY <2>1, <2>4 DEF Tidy
  <2> QED  BY <2>1, <2>2, <2>5, ClerkTidies
<1>5. CASE DrawEventNumber(c) \/ InsertEvent(c)
  <2>1. PICK next :
          /\ Commanding(job[c]) /\ job[c].call.op = "organization"
          /\ Moves(c, next) /\ next.at \in {"event", "audit"}
          /\ next.call = job[c].call /\ next.row = job[c].row
          /\ \/ next.at = "event" /\ Untouched
             \/ /\ next.at = "audit"
                /\ db' = Insert(db, "lifecycle_event",
                                [number |-> job[c].number, organization |-> job[c].row])
    BY <1>5, EventIs
  <2>2. CASE next.at = "event" /\ Untouched
    <3>1. Tidy(next)'
      BY <2>2 DEF Tidy
    <3> QED  BY <2>1, <2>2, <3>1, UntouchedAdds, ClerkTidies
  <2>3. CASE /\ next.at = "audit"
             /\ db' = Insert(db, "lifecycle_event",
                             [number |-> job[c].number, organization |-> job[c].row])
    <3>1. PICK row : row = [number |-> job[c].number, organization |-> job[c].row]
      OBVIOUS
    <3>2. PICK n : n = Len(Rows("lifecycle_event")) + 1
      OBVIOUS
    <3>3. /\ MoreDone /\ n \in DOMAIN db'.rows["lifecycle_event"]
          /\ db'.rows["lifecycle_event"][n] = row
      BY <2>3, <3>1, <3>2, TypesAre, InsertAdds
    <3>4. row.organization = next.row
      BY <2>1, <3>1
    <3>5. After(next.call) = "event_number"
      BY <2>1, AfterIs DEF Commanding
    <3>6. Added(next.call, next.row)'
      BY <3>3, <3>4, <3>5 DEF Added, Rows
    <3>7. Tidy(next)'
      BY <2>3, <3>6 DEF Tidy
    <3> QED  BY <2>1, <3>3, <3>7, ClerkTidies
  <2> QED  BY <2>1, <2>2, <2>3
<1>6. CASE AuditRow(c)
  <2>1. Moves(c, Idle) /\ MoreDone
    BY <1>6, AuditRowIs, AuditAdds
  <2> QED  BY <1>1, <2>1, ClerkTidies
<1>7. CASE RefuseRow(c) \/ CitationFails(c)
  <2>1. Moves(c, Idle) /\ MoreDone
    BY <1>7, RefusedIs, UntouchedAdds DEF Untouched
  <2> QED  BY <1>1, <2>1, ClerkTidies
<1> QED  BY <1>2, <1>3, <1>4, <1>5, <1>6, <1>7 DEF CommandStep

LEMMA CommandLeaves ==
  ASSUME NumbersInv, TidyInv, NEW c \in Clerks, Command(c)
  PROVE  TidyInv' /\ NothingLeft /\ faults' = faults
<1>1. TablesGrow
  BY CommandKeeps
<1>2. CASE CommandStep(c)
  <2>1. faults' = faults
    BY <1>2 DEF CommandStep, ReserveNumber, DrawNumber, InsertRow, RefuseRow, AmendRow,
       CitationFails, DrawEventNumber, InsertEvent, AuditRow, Step
  <2> QED  BY <1>1, <1>2, <2>1, CommandStepTidies, NumberLeaves, InsertLeaves, RefusedLeaves,
           AmendLeaves, EventLeaves, AuditLeaves DEF CommandStep
<1>3. CASE CreateMarket(c) \/ CreateOrganization(c) \/ AddMembership(c)
            \/ Evaluate(c) \/ CalculateCci(c) \/ AddAction(c)
  BY <1>1, <1>3, CommandsBegin, BeginTidies
<1> QED  BY <1>2, <1>3 DEF Command

\* A step of a run is counted as a fault, or is of a clerk that has no row.
LEMMA RunsCount ==
  ASSUME NumbersInv, faults \in Nat, Next
  PROVE  \E c \in Clerks :
           \/ Command(c)
           \/ /\ \E next : RunGoesTo(c, next)
              /\ \/ faults' = faults + 1
                 \/ faults' = faults /\ (job[c] = Idle \/ Running(job[c]))
<1>1. PICK c \in Clerks :
        \/ Command(c) /\ UNCHANGED <<files, completed, runs>>
        \/ \E request \in Requests, cut \in Cuts : StartRun(c, request, cut)
        \/ RunStep(c) \/ CutShort(c) \/ Raise(c) \/ ResolutionFails(c) \/ Die(c)
  BY DEF Next
<1>2. Held(job[c])
  BY DEF NumbersInv
<1>3. ASSUME NEW at \in RunSteps \union {"idle"}, job[c].at = at
      PROVE  job[c] = Idle \/ Running(job[c])
  BY <1>2, <1>3, HeldAt
<1>4. /\ "validate" \in RunSteps /\ "resolve" \in RunSteps /\ "profile" \in RunSteps
      /\ "decision" \in RunSteps /\ "report" \in RunSteps /\ "brief_tiles" \in RunSteps
      /\ "brief_decision" \in RunSteps /\ "manifest" \in RunSteps /\ "receipt" \in RunSteps
  BY DEF RunSteps
<1>5. CASE \E request \in Requests, cut \in Cuts : StartRun(c, request, cut)
  <2>1. PICK request \in Requests, cut \in Cuts : StartRun(c, request, cut)
    BY <1>5
  <2>2. job[c].at = "idle"
    BY <2>1 DEF StartRun
  <2>3. faults' = faults + 1 \/ faults' = faults
    BY <2>1 DEF StartRun, Save
  <2>4. \E next : RunGoesTo(c, next)
    BY <2>1, StartGoes
  <2> QED  BY <1>3, <2>2, <2>3, <2>4
<1>6. CASE RunStep(c)
  <2>1. \E next : RunGoesTo(c, next)
    BY <1>6, RunStepGoes
  <2>2. ASSUME NEW at \in RunSteps, NEW next, Stage(c, at, next)
        PROVE  faults' = faults /\ job[c].at = at
    BY <2>2 DEF Stage
  <2>3. \E at \in RunSteps : faults' = faults /\ job[c].at = at
    <3>1. CASE Validate(c)
      BY <1>4, <3>1 DEF Validate, Stage
    <3>2. CASE Resolve(c)
      BY <1>4, <3>2 DEF Resolve, Stage
    <3>3. CASE ReadTiles(c) \/ ReadDecision(c) \/ ReadBriefTiles(c)
      BY <1>4, <3>3 DEF ReadTiles, ReadDecision, ReadBriefTiles, Read, Stage
    <3>4. CASE Report(c)
      BY <1>4, <3>4 DEF Report, Stage
    <3>5. CASE ReadBriefDecision(c)
      BY <1>4, <3>5 DEF ReadBriefDecision, Stage
    <3>6. CASE EndManifest(c, FALSE)
      BY <1>4, <3>6 DEF EndManifest, Save
    <3>7. CASE SaveReceipt(c, FALSE)
      BY <1>4, <3>7 DEF SaveReceipt, Save
    <3> QED  BY <1>6, <3>1, <3>2, <3>3, <3>4, <3>5, <3>6, <3>7 DEF RunStep
  <2> QED  BY <1>3, <2>1, <2>3
<1>7. CASE CutShort(c)
  <2>1. \E next : RunGoesTo(c, next)
    BY <1>7, EndManifestGoes, SaveReceiptGoes DEF CutShort
  <2>2. CASE EndManifest(c, TRUE)
    BY <2>1, <2>2 DEF EndManifest, Save
  <2>3. CASE SaveReceipt(c, TRUE)
    BY <2>1, <2>3 DEF SaveReceipt, Save
  <2> QED  BY <1>7, <2>2, <2>3 DEF CutShort
<1>8. CASE Raise(c) \/ ResolutionFails(c) \/ Die(c)
  BY <1>8, FaultGoes DEF Raise, Fail, ResolutionFails, Die
<1> QED  BY <1>1, <1>5, <1>6, <1>7, <1>8

\* What faults left is no more than there were faults.
LeavesLittle ==
  faults \in Nat /\ IsFiniteSet(LeftUnfinished) /\ FaultsLeaveLittle

LEMMA NoMoreLeft ==
  ASSUME LeavesLittle, NothingLeft, faults' = faults
  PROVE  LeavesLittle'
<1>1. LeftUnfinished' \subseteq LeftUnfinished
  <2>1. ASSUME NEW x \in LeftUnfinished'
        PROVE  x \in LeftUnfinished
    <3>1. \E type : \E row : x = <<type, row>> /\ IsLeft(type, row)'
      BY LeftIsThen
    <3> QED  BY <3>1, LeftIs DEF NothingLeft
  <2> QED  BY <2>1
<1>2. /\ IsFiniteSet(LeftUnfinished')
      /\ Cardinality(LeftUnfinished') <= Cardinality(LeftUnfinished)
  BY <1>1, FS_Subset DEF LeavesLittle
<1>3. Cardinality(LeftUnfinished) \in Nat /\ Cardinality(LeftUnfinished') \in Nat
  BY <1>2, FS_CardinalityType DEF LeavesLittle
<1> QED  BY <1>2, <1>3 DEF LeavesLittle, FaultsLeaveLittle

LEMMA OneMoreLeft ==
  ASSUME LeavesLittle, NEW x, LeftUnfinished' \subseteq LeftUnfinished \union {x},
         faults' = faults + 1
  PROVE  LeavesLittle'
<1> DEFINE T == LeftUnfinished \union {x}
<1>1. /\ IsFiniteSet(T) /\ Cardinality(T) <= Cardinality(LeftUnfinished) + 1
      /\ Cardinality(T) \in Nat /\ Cardinality(LeftUnfinished) \in Nat
  <2>1. IsFiniteSet(LeftUnfinished)
    BY DEF LeavesLittle
  <2>2. Cardinality(LeftUnfinished) \in Nat
    BY <2>1, FS_CardinalityType
  <2>3. CASE x \in LeftUnfinished
    <3>1. IsFiniteSet(T) /\ Cardinality(T) <= Cardinality(LeftUnfinished)
      <4>1. T \subseteq LeftUnfinished
        BY <2>3
      <4> HIDE DEF T
      <4> QED  BY <2>1, <4>1, FS_Subset
    <3>2. Cardinality(T) \in Nat
      BY <3>1, FS_CardinalityType
    <3> QED  BY <2>2, <3>1, <3>2
  <2>4. CASE x \notin LeftUnfinished
    <3>1. IsFiniteSet(T) /\ Cardinality(T) = Cardinality(LeftUnfinished) + 1
      BY <2>1, <2>4, FS_AddElement
    <3> QED  BY <2>2, <3>1
  <2> QED  BY <2>3, <2>4
<1>2. LeftUnfinished' \subseteq T
  OBVIOUS
<1> HIDE DEF T
<1>3. IsFiniteSet(LeftUnfinished') /\ Cardinality(LeftUnfinished') <= Cardinality(T)
  BY <1>1, <1>2, FS_Subset
<1>4. Cardinality(LeftUnfinished') \in Nat
  BY <1>3, FS_CardinalityType
<1> QED  BY <1>1, <1>3, <1>4 DEF LeavesLittle, FaultsLeaveLittle

LEMMA RunsLeave ==
  ASSUME NumbersInv, TidyInv, LeavesLittle, NEW c \in Clerks, NEW next, RunGoesTo(c, next),
         \/ faults' = faults + 1
         \/ faults' = faults /\ (job[c] = Idle \/ Running(job[c]))
  PROVE  TidyInv' /\ LeavesLittle'
<1>1. Moves(c, next) /\ db' = db /\ (next = Idle \/ Running(next))
  BY DEF RunGoesTo, Moves
<1>2. TablesGrow /\ MoreDone /\ \A type : SameRows(type)
  BY <1>1, TablesStay, UntouchedAdds DEF Untouched
<1>3. next.at \notin CommandSteps
  <2>1. Idle.at \notin CommandSteps /\ RunSteps \cap CommandSteps = {}
    BY IdleIsQuiet DEF RunSteps, CommandSteps
  <2> QED  BY <1>1, <2>1 DEF Running
<1>4. TidyInv'
  BY <1>1, <1>2, <1>3, ClerkTidies
<1>5. CASE faults' = faults /\ (job[c] = Idle \/ Running(job[c]))
  BY <1>1, <1>4, <1>5, HadNothing, NoMoreLeft
<1>6. CASE faults' = faults + 1
  <2>1. PICK x : x = <<job[c].call.op, job[c].row>>
    OBVIOUS
  <2>2. \A type \in Commanded : \A row \in DOMAIN Rows(type)' : row \in DOMAIN Rows(type)
    BY <1>2 DEF SameRows, Rows
  <2>3. ASSUME NEW y \in LeftUnfinished'
        PROVE  y \in LeftUnfinished \/ y = x
    <3>1. PICK type, row : y = <<type, row>> /\ IsLeft(type, row)'
      BY LeftIsThen
    <3>2. IsLeft(type, row) \/ Holds(job[c], type, row)
      BY <1>1, <1>2, <2>2, <3>1, LeftBehind
    <3>3. CASE IsLeft(type, row)
      BY <3>1, <3>3, LeftIs
    <3>4. CASE Holds(job[c], type, row)
      BY <2>1, <3>1, <3>4 DEF Holds
    <3> QED  BY <3>2, <3>3, <3>4
  <2>4. LeftUnfinished' \subseteq LeftUnfinished \union {x}
    BY <2>3
  <2> QED  BY <1>4, <1>6, <2>4, OneMoreLeft
<1> QED  BY <1>5, <1>6

LEMMA LittleIsKept ==
  NumbersInv /\ TidyInv /\ LeavesLittle /\ [Next]_vars => TidyInv' /\ LeavesLittle'
<1> SUFFICES ASSUME NumbersInv, TidyInv, LeavesLittle, [Next]_vars
             PROVE  TidyInv' /\ LeavesLittle'
  OBVIOUS
<1>1. CASE Next
  <2>1. PICK c \in Clerks :
          \/ Command(c)
          \/ /\ \E next : RunGoesTo(c, next)
             /\ \/ faults' = faults + 1
                \/ faults' = faults /\ (job[c] = Idle \/ Running(job[c]))
    BY <1>1, RunsCount DEF LeavesLittle
  <2>2. CASE Command(c)
    BY <2>2, CommandLeaves, NoMoreLeft
  <2> QED  BY <2>1, <2>2, RunsLeave
<1>2. CASE UNCHANGED vars
  <2>1. db' = db /\ job' = job /\ faults' = faults
    BY <1>2 DEF vars
  <2>2. TidyInv'
    BY <2>1 DEF TidyInv, Tidy, Added, Rows
  <2>3. NothingLeft
    BY <2>1 DEF NothingLeft, IsLeft, Unfinished, Rows
  <2> QED  BY <2>1, <2>2, <2>3, NoMoreLeft
<1> QED  BY <1>1, <1>2

LEMMA LittleAtFirst ==
  Init => TidyInv /\ LeavesLittle
<1> SUFFICES ASSUME Init PROVE TidyInv /\ LeavesLittle
  OBVIOUS
<1>1. faults = 0 /\ \A c \in Clerks : job[c] = Idle
  BY DEF Init, RegistryInit
<1>2. Idle.at \notin CommandSteps
  BY IdleIsQuiet DEF CommandSteps
<1>3. TidyInv
  BY <1>1, <1>2 DEF TidyInv
<1>4. PICK seed \in Seeds : db = Seeded(seed)
  BY DEF Init, RegistryInit
<1>5. ASSUME NEW type \in Commanded, NEW row \in DOMAIN Rows(type)
      PROVE  ~Unfinished(type, row)
  <2>1. CASE seed = "new"
    BY <1>4, <2>1, EmptyShape, TypesAre DEF Seeded, Rows
  <2>2. CASE seed # "new"
    <3>1. /\ db.rows = SeedRows
          /\ db.audit = {[action |-> t, row |-> 1] :
                           t \in {"market", "organization", "membership",
                                  "scorecard", "action"}}
      BY <1>4, <2>2 DEF Seeded, EmptyStore
    <3>2. \E first : SeedRows[type] = <<first>> /\ After(first.call) # "amend"
      <4>1. CASE type = "market"
        BY <4>1 DEF SeedRows, Numbered, RowTypes, EntityTypes, After
      <4>2. CASE type = "organization"
        BY <4>2 DEF SeedRows, Numbered, RowTypes, EntityTypes, After
      <4>3. CASE type = "membership"
        BY <4>3 DEF SeedRows, Numbered, RowTypes, EntityTypes, After
      <4>4. CASE type = "scorecard"
        BY <4>4 DEF SeedRows, Numbered, RowTypes, EntityTypes, After
      <4>5. CASE type = "action"
        BY <4>5 DEF SeedRows, Numbered, RowTypes, EntityTypes, After
      <4> QED  BY <4>1, <4>2, <4>3, <4>4, <4>5, TypesAre
    <3>3. PICK first : SeedRows[type] = <<first>> /\ After(first.call) # "amend"
      BY <3>2
    <3>4. DOMAIN <<first>> = {1} /\ <<first>>[1] = first
      OBVIOUS
    <3>5. row = 1 /\ Rows(type)[row] = first
      BY <3>1, <3>3, <3>4 DEF Rows
    <3>6. [action |-> type, row |-> row] \in db.audit
      BY <3>1, <3>5, TypesAre
    <3>7. \E event \in DOMAIN Rows("lifecycle_event") :
            Rows("lifecycle_event")[event].organization = 1
      <4>1. PICK event : SeedRows["lifecycle_event"] = <<event>> /\ event.organization = 1
        BY DEF SeedRows, RowTypes, EntityTypes
      <4>2. DOMAIN <<event>> = {1} /\ <<event>>[1] = event
        OBVIOUS
      <4> QED  BY <3>1, <4>1, <4>2 DEF Rows
    <3> QED  BY <3>3, <3>5, <3>6, <3>7 DEF Unfinished
  <2> QED  BY <2>1, <2>2
<1>6. LeftUnfinished = {}
  BY <1>5, LeftIs DEF IsLeft
<1>7. IsFiniteSet(LeftUnfinished) /\ Cardinality(LeftUnfinished) = 0
  BY <1>6, FS_EmptySet
<1> QED  BY <1>1, <1>3, <1>7 DEF LeavesLittle, FaultsLeaveLittle

\* A command that is not cut short finishes its row, whatever runs beside it:
\* rows without their amendment, their lifecycle event or their audit entry
\* are no more than the faults, but for scorecards
\* whose citations are refused.
THEOREM CommercialFaultsAlwaysLeaveLittle ==
  Spec => []FaultsLeaveLittle
<1>1. Init => NumbersInv /\ TidyInv /\ LeavesLittle
  BY NumbersAreRightAtFirst, LittleAtFirst
<1>2. /\ NumbersInv /\ TidyInv /\ LeavesLittle /\ [Next]_vars
        => NumbersInv' /\ TidyInv' /\ LeavesLittle'
  BY NumbersAreKept, LittleIsKept
<1>3. LeavesLittle => FaultsLeaveLittle
  BY DEF LeavesLittle
<1> QED  BY <1>1, <1>2, <1>3, PTL DEF Spec
=============================================================================
