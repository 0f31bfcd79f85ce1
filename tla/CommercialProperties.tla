------------------------ MODULE CommercialProperties ------------------------
(***************************************************************************)
(* What holds of the commercial registry and of the pipeline over it,      *)
(* whoever else uses them and whatever is cut short.                       *)
(***************************************************************************)
EXTENDS CommercialPipeline

\* Rows of a table no clerk is still working on.
Left(type) ==
  {row \in DOMAIN Rows(type) :
     ~\E c \in Clerks : /\ job[c] # Idle
                        /\ "row" \in DOMAIN job[c]
                        /\ Op(c) = type
                        /\ job[c].row = row}

\* A number in flight was drawn and not asked for.
Drawn(c, type) ==
  \/ /\ job[c].at = "insert"
     /\ Op(c) = type
     /\ job[c].call.import = 0
  \/ job[c].at = "event" /\ type = "lifecycle_event"

\* No number is issued twice: two commands never hold the same drawn number,
\* and what is on file or held, imported or not, is behind the sequence, so
\* that it is not drawn later ("imported explicit IDs are not reissued").
NumbersAreIssuedOnce ==
  \A type \in RowTypes :
    /\ \A row \in DOMAIN Rows(type) : Rows(type)[row].number <= db.last[type]
    /\ \A c \in Clerks :
         job[c].at = "insert" /\ Op(c) = type => job[c].number <= db.last[type]
    /\ \A c, other \in Clerks :
         Drawn(c, type) /\ Drawn(other, type) /\ job[c].number = job[other].number
           => c = other

\* A row that lacks what its command adds to it: its amendment, its lifecycle
\* event or its audit entry.
Unfinished(type, row) ==
  LET call == Rows(type)[row].call
  IN \/ [action |-> type, row |-> row] \notin db.audit
     \/ After(call) = "amend" /\ ~Rows(type)[row].amended
     \/ /\ type = "organization"
        /\ ~\E event \in DOMAIN Rows("lifecycle_event") :
             Rows("lifecycle_event")[event].organization = row

Commanded == RowTypes \ {"lifecycle_event"}

\* What was left unfinished, but for scorecards whose citations are refused.
LeftUnfinished ==
  {left \in UNION {{type} \X Left(type) : type \in Commanded} :
     LET type == left[1]
         row == left[2]
     IN /\ Unfinished(type, row)
        /\ ~(type = "scorecard" /\ Rows(type)[row].call.cites \in Unlinkable)}

\* A command that is not cut short finishes its row, whatever runs beside it:
\* unfinished rows are no more than the faults, but for scorecards that cite
\* evidence that is not there, or the same evidence twice.
FaultsLeaveLittle == Cardinality(LeftUnfinished) <= faults

\* The components of a confidence index are scorecards of its organization
\* that are on file and dated before it, one a model.
IndexHasItsComponents ==
  \A row \in DOMAIN Rows("scorecard") :
    LET index == Rows("scorecard")[row]
        Component(n) ==
          {r \in DOMAIN Rows("scorecard") : Rows("scorecard")[r].number = n}
    IN index.call.model = "Index" =>
         /\ \A n \in index.call.basis :
              /\ n < index.number
              /\ \E r \in Component(n) :
                   /\ Rows("scorecard")[r].call.organization = index.call.organization
                   /\ Rows("scorecard")[r].call.model \in Models
         /\ \A n, k \in index.call.basis, r \in DOMAIN Rows("scorecard"),
               s \in DOMAIN Rows("scorecard") :
              (/\ r \in Component(n) /\ s \in Component(k)
               /\ Rows("scorecard")[r].call.model = Rows("scorecard")[s].call.model)
                => n = k

-----------------------------------------------------------------------------

Receipts == Readable(files.receipts)

\* A receipt is true.  It names the manifest that is on file, so the run can
\* be replayed and its manifest hash checked.  It has a terminal status, and
\* Completed means done: the organization is registered, the brief was made.
ReceiptsAreTrue ==
  /\ \A id \in DOMAIN files.receipts :
       id \in Readable(files.manifests) /\ files.manifests[id].ended
  /\ \A id \in Receipts :
       LET receipt == files.receipts[id]
       IN /\ receipt.manifest = files.manifests[id]
          /\ receipt.status \in
               {"Completed", "Partially_Completed", "Revalidation_Required"}
          /\ receipt.status = "Completed" =>
               /\ receipt.request.organization \in DOMAIN Rows("organization")
               /\ Len(receipt.seen) = IF receipt.request.brief THEN 4 ELSE 2

\* A run reads the scorecards several times and never goes back: the decision
\* is not older than the tiles beside it, nor the brief than the profile.
ReadsNeverGoBack ==
  \A id \in Receipts :
    \A i, j \in DOMAIN files.receipts[id].seen :
      LET earlier == files.receipts[id].seen[i]
          later == files.receipts[id].seen[j]
      IN i < j =>
           \A model \in DOMAIN earlier : \A n \in earlier[model] :
             \E k \in later[model] : n <= k

-----------------------------------------------------------------------------

\* A valid request that is begun gets its receipt, be it completed, partial
\* or to be revalidated, unless a fault comes in between.
RunsGetTheirReceipt ==
  \A c \in Clerks, id \in 1..MaxRuns, n \in 0..MaxFaults :
    (/\ job[c].at = "validate"
     /\ job[c].run = id
     /\ job[c].request.valid
     /\ faults = n)
      ~> (id \in Receipts \/ faults > n)
=============================================================================
