------------------------- MODULE CommercialRegistry -------------------------
(***************************************************************************)
(* The commands of the commercial intelligence registry and of its scoring *)
(* service.  A clerk is a process with a database of its own connections   *)
(* to the one file.  A command draws or reserves its number, inserts its   *)
(* row, may add to it, and audits it, one transaction after the other;     *)
(* clerks interleave between any two of them, and an error or a death may  *)
(* come between any two.                                                   *)
(*                                                                         *)
(* Numbers stand for the dates of scorecards where the code orders by      *)
(* them.  A scorecard takes its date just before it draws its number, in a *)
(* transaction of its own, so two that race may be dated in one order and  *)
(* numbered in the other; dates are drawn before rows are inserted just as *)
(* numbers are, and every order of dates and insertions is among the       *)
(* behaviours here.  All numbers are of one year.                          *)
(***************************************************************************)
EXTENDS CommercialStore

CONSTANTS
  Clerks,     \* processes that use the registry
  Names,      \* names of markets and organizations, up to case
  Domains,    \* domains of organizations, Null for one without a website
  Owned,      \* whether the caller names an owner of a market
  Citations,  \* what evidence a scorecard cites
  Imports,    \* numbers a caller may ask for
  Models,     \* score models that enter the confidence index
  Seeds,      \* how the database came to be: new, or filled for a demonstration
  MaxCalls,   \* bound: commands given
  MaxFaults   \* bound: errors and deaths

VARIABLES
  db,       \* the registry
  job,      \* job[c]: the command clerk c is in the middle of
  calls,    \* commands given
  faults    \* errors and deaths met

ASSUME RegistryAssumption ==
  /\ Imports \subseteq Nat \ {0}
  /\ Owned \subseteq BOOLEAN
  /\ Citations \subseteq {"nothing", "known", "unknown", "twice"}
  /\ "Fit" \in Models /\ "Index" \notin Models
  /\ Seeds \subseteq {"new", "demo"}
  /\ MaxCalls \in Nat /\ MaxFaults \in Nat

Idle == [at |-> "idle"]

Numbered(call) == [number |-> 1, call |-> call, amended |-> FALSE]

\* The rows the demonstration leaves: one market and organization under explicit
\* identifiers, and what is recorded of the organization.
SeedRows ==
  [type \in RowTypes |->
     CASE type = "market" ->
            <<Numbered([op |-> "market", name |-> "seed", owned |-> FALSE,
                        import |-> 1])>>
       [] type = "organization" ->
            <<Numbered([op |-> "organization", name |-> "seed",
                        domain |-> "seed.com", import |-> 1])>>
       [] type = "membership" ->
            <<Numbered([op |-> "membership", market |-> 1, organization |-> 1,
                        import |-> 0])>>
       [] type = "scorecard" ->
            <<Numbered([op |-> "scorecard", organization |-> 1, model |-> "Fit",
                        cites |-> "nothing", basis |-> {}, import |-> 0])>>
       [] type = "action" ->
            <<Numbered([op |-> "action", organization |-> 1, import |-> 0])>>
       [] type = "lifecycle_event" -> <<[number |-> 1, organization |-> 1]>>
       [] OTHER -> <<>>]

\* seed_and_run_web goes through the service, which reserves the identifiers
\* and audits.
Seeded(seed) ==
  IF seed = "new" THEN EmptyStore
  ELSE [EmptyStore EXCEPT
          !.rows = SeedRows,
          !.last = [type \in EntityTypes |->
                      IF type = "evidence" THEN 0 ELSE Len(SeedRows[type])],
          !.audit = {[action |-> type, row |-> 1] :
                       type \in {"market", "organization", "membership",
                                 "scorecard", "action"}}]

RegistryInit ==
  /\ \E seed \in Seeds : db = Seeded(seed)
  /\ job = [c \in Clerks |-> Idle]
  /\ calls = 0
  /\ faults = 0

Rows(type) == db.rows[type]

-----------------------------------------------------------------------------

\* Mutant: the row inserted last is taken.
LatestInserted(organization, model) ==
  {Rows("scorecard")[row].number : row \in
     {r \in DOMAIN Rows("scorecard") :
        /\ Rows("scorecard")[r].call.organization = organization
        /\ Rows("scorecard")[r].call.model = model
        /\ \A other \in DOMAIN Rows("scorecard") :
             (/\ Rows("scorecard")[other].call.organization = organization
              /\ Rows("scorecard")[other].call.model = model) => other <= r}}

\* Mutant: the scorecards of other organizations count.
LatestOfAll(organization, model) ==
  LET numbers == {Rows("scorecard")[row].number : row \in
                    {r \in DOMAIN Rows("scorecard") :
                       Rows("scorecard")[r].call.model = model}}
  IN {n \in numbers : \A other \in numbers : other <= n}

\* The scorecard a profile shows for a model: the one dated last, its number
\* standing for its date.  The empty
\* set when there is none.
Latest(organization, model) ==
  LET numbers == {Rows("scorecard")[row].number : row \in
                    {r \in DOMAIN Rows("scorecard") :
                       /\ Rows("scorecard")[r].call.organization = organization
                       /\ Rows("scorecard")[r].call.model = model}}
  IN {n \in numbers : \A other \in numbers : other <= n}

Begin(c, call, at) ==
  /\ job[c].at = "idle"
  /\ calls < MaxCalls
  /\ calls' = calls + 1
  /\ job' = [job EXCEPT ![c] =
               [at |-> at, call |-> call, number |-> 0, row |-> 0]]
  /\ UNCHANGED <<db, faults>>

\* An explicit identifier is reserved before anything is inserted.
CreateMarket(c) ==
  \E name \in Names, owned \in Owned :
    \/ Begin(c, [op |-> "market", name |-> name, owned |-> owned,
                 import |-> 0], "number")
    \/ \E import \in Imports :
         Begin(c, [op |-> "market", name |-> name, owned |-> owned,
                   import |-> import], "reserve")

CreateOrganization(c) ==
  \E name \in Names, domain \in Domains :
    \/ Begin(c, [op |-> "organization", name |-> name, domain |-> domain,
                 import |-> 0], "number")
    \/ \E import \in Imports :
         Begin(c, [op |-> "organization", name |-> name, domain |-> domain,
                   import |-> import], "reserve")

AddMembership(c) ==
  \E market \in DOMAIN Rows("market"),
     organization \in DOMAIN Rows("organization") :
    Begin(c, [op |-> "membership", market |-> market,
              organization |-> organization, import |-> 0], "number")

\* A scorecard of a model may cite evidence, and may cite what is not there or
\* one piece of evidence twice, by its two identifiers or by one.
Evaluate(c) ==
  \E organization \in DOMAIN Rows("organization"), model \in Models,
     cites \in Citations :
    Begin(c, [op |-> "scorecard", organization |-> organization,
              model |-> model, cites |-> cites, basis |-> {}, import |-> 0],
          "number")

\* The confidence index is computed from the profile as it is read here; its
\* scorecard is dated and written later.
CalculateCci(c) ==
  \E organization \in DOMAIN Rows("organization") :
    LET basis == UNION {Latest(organization, model) : model \in Models}
    IN /\ basis # {}
       /\ Begin(c, [op |-> "scorecard", organization |-> organization,
                    model |-> "Index", cites |-> "nothing", basis |-> basis,
                    import |-> 0], "number")

AddAction(c) ==
  \E organization \in DOMAIN Rows("organization") :
    Begin(c, [op |-> "action", organization |-> organization, import |-> 0],
          "number")

-----------------------------------------------------------------------------

\* One transaction of clerk c's command.
Step(c, at, next, store) ==
  /\ job[c].at = at
  /\ db' = store
  /\ job' = [job EXCEPT ![c] = next]
  /\ UNCHANGED <<calls, faults>>

Op(c) == job[c].call.op

ReserveNumber(c) ==
  Step(c, "reserve",
       [job[c] EXCEPT !.at = "insert", !.number = job[c].call.import],
       Reserve(db, Op(c), job[c].call.import))

DrawNumber(c) ==
  Step(c, "number",
       [job[c] EXCEPT !.at = "insert", !.number = Issued(db, Op(c))],
       Issue(db, Op(c)))

\* The UNIQUE constraints; two NULL domains are different.
Clash(op, row, other) ==
  \/ row.number = other.number
  \/ op = "market" /\ row.call.name = other.call.name
  \/ /\ op = "organization"
     /\ row.call.name = other.call.name
     /\ row.call.domain = other.call.domain
     /\ row.call.domain # Null
  \/ /\ op = "membership"
     /\ row.call.market = other.call.market
     /\ row.call.organization = other.call.organization

NewRow(c) == [number |-> job[c].number, call |-> job[c].call, amended |-> FALSE]

Conflicts(c) ==
  \E other \in DOMAIN Rows(Op(c)) : Clash(Op(c), NewRow(c), Rows(Op(c))[other])

\* Mutant: an organization gets no lifecycle event.
AfterWithoutEvent(call) ==
  CASE call.op = "market" -> IF call.owned THEN "amend" ELSE "audit"
    [] call.op = "scorecard" -> IF call.cites = "nothing" THEN "audit" ELSE "amend"
    [] OTHER -> "audit"

\* What the command does after its row is in.
After(call) ==
  CASE call.op = "market" -> IF call.owned THEN "amend" ELSE "audit"
    [] call.op = "organization" -> "event_number"
    [] call.op = "scorecard" -> IF call.cites = "nothing" THEN "audit" ELSE "amend"
    [] OTHER -> "audit"

InsertRow(c) ==
  /\ job[c].at = "insert"
  /\ ~Conflicts(c)
  /\ Step(c, "insert",
          [job[c] EXCEPT !.at = After(job[c].call), !.row = Len(Rows(Op(c))) + 1],
          Insert(db, Op(c), NewRow(c)))

\* The number of a refused row is lost.
RefuseRow(c) ==
  /\ job[c].at = "insert"
  /\ Conflicts(c)
  /\ Step(c, "insert", Idle, db)

\* What a scorecard cannot be linked to: evidence that is not there, and the
\* same evidence twice, which the key of the links forbids.
Unlinkable == {"unknown", "twice"}

CitationRefused(c) == Op(c) = "scorecard" /\ job[c].call.cites \in Unlinkable

AmendRow(c) ==
  /\ job[c].at = "amend"
  /\ ~CitationRefused(c)
  /\ Step(c, "amend", [job[c] EXCEPT !.at = "audit"], Amend(db, Op(c), job[c].row))

\* A citation that is refused raises: the links are rolled back, the approved
\* scorecard stays and is not audited.
CitationFails(c) ==
  /\ job[c].at = "amend"
  /\ CitationRefused(c)
  /\ Step(c, "amend", Idle, db)

DrawEventNumber(c) ==
  Step(c, "event_number",
       [job[c] EXCEPT !.at = "event", !.number = Issued(db, "lifecycle_event")],
       Issue(db, "lifecycle_event"))

InsertEvent(c) ==
  Step(c, "event", [job[c] EXCEPT !.at = "audit"],
       Insert(db, "lifecycle_event",
              [number |-> job[c].number, organization |-> job[c].row]))

AuditRow(c) ==
  Step(c, "audit", Idle, Audited(db, Op(c), job[c].row))

CommandStep(c) ==
  \/ ReserveNumber(c)
  \/ DrawNumber(c)
  \/ InsertRow(c)
  \/ RefuseRow(c)
  \/ AmendRow(c)
  \/ CitationFails(c)
  \/ DrawEventNumber(c)
  \/ InsertEvent(c)
  \/ AuditRow(c)

Command(c) ==
  \/ CreateMarket(c)
  \/ CreateOrganization(c)
  \/ AddMembership(c)
  \/ Evaluate(c)
  \/ CalculateCci(c)
  \/ AddAction(c)
  \/ CommandStep(c)

\* A locked database or a death: what the clerk was doing ends where it is.
Fail(c) ==
  /\ job[c].at # "idle"
  /\ faults < MaxFaults
  /\ faults' = faults + 1
  /\ job' = [job EXCEPT ![c] = Idle]
  /\ UNCHANGED <<db, calls>>
=============================================================================
