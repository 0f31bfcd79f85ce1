-------------------------- MODULE CommercialStore ---------------------------
(***************************************************************************)
(* The tables of the commercial intelligence registry and its             *)
(* transactions.  A table is the sequence of its rows in the order of      *)
(* their creation, and a row's internal identifier is its place.  Each     *)
(* operator is one committed transaction; the services string several of   *)
(* them together, so what happens between two of them is visible.          *)
(***************************************************************************)
EXTENDS Naturals, Sequences, FiniteSets

CONSTANT Null   \* an SQL NULL

EntityTypes ==
  {"market", "organization", "membership", "evidence", "scorecard", "action",
   "lifecycle_event"}

\* Markets, organizations and what is recorded of them; sources and evidence
\* have tables of their own.
RowTypes == EntityTypes \ {"evidence"}

EmptyStore ==
  [last |-> [type \in EntityTypes |-> 0],
   rows |-> [type \in RowTypes |-> <<>>],
   sources |-> <<>>, evidence |-> <<>>, audit |-> {}]

\* next_cof_id: a transaction of its own, before the row it numbers exists.
Issued(db, type) == db.last[type] + 1
Issue(db, type) == [db EXCEPT !.last[type] = @ + 1]

\* Mutant: an imported number leaves the sequence where it is.
ReserveNothing(db, type, number) == db

\* _reserve_explicit_cof_id: an imported number moves the sequence up to it.
Reserve(db, type, number) ==
  [db EXCEPT !.last[type] = IF @ < number THEN number ELSE @]

Insert(db, type, row) == [db EXCEPT !.rows[type] = Append(@, row)]

\* The second transaction of a call on its row: the owner of a market, the
\* evidence of a scorecard.
Amend(db, type, row) == [db EXCEPT !.rows[type][row].amended = TRUE]

\* The registry audit log: what was done to which row.
Audited(db, action, row) ==
  [db EXCEPT !.audit = @ \union {[action |-> action, row |-> row]}]

InsertSource(db, url, hash) ==
  [db EXCEPT !.sources = Append(@, [url |-> url, hash |-> hash])]

SetChecksum(db, row, hash) == [db EXCEPT !.sources[row].hash = hash]

\* Mutant: the hash is not compared.
SourcesOfUrl(db, url, hash) ==
  {row \in DOMAIN db.sources : db.sources[row].url = url}

\* The rows of a provenance; the oldest is the one a search returns.
SourcesOf(db, url, hash) ==
  {row \in DOMAIN db.sources :
     db.sources[row].url = url /\ db.sources[row].hash = hash}

Oldest(rows) == CHOOSE row \in rows : \A other \in rows : row <= other

\* An evidence row and its link, written together; the row takes the hash its
\* source has by then.
InsertEvidence(db, number, source, assertion) ==
  [db EXCEPT !.evidence =
     Append(@, [number |-> number, source |-> source, assertion |-> assertion,
                hash |-> db.sources[source].hash])]
=============================================================================
