------------------------- MODULE ResearchProperties -------------------------
(***************************************************************************)
(* What holds of research acquisition and its handoff.                     *)
(***************************************************************************)
EXTENDS Research

Retrieved ==
  {name \in Readable(files.receipts) : name.status = "RETRIEVED"}

\* A receipt on file tells the truth: what it says was retrieved can be loaded
\* and is what was retrieved from its source, and what it calls a duplicate
\* has its original on file.
ReceiptsAreTrue ==
  /\ \A name \in Retrieved :
       LET d == files.receipts[name]
       IN /\ d \in Readable(files.documents)
          /\ files.documents[d].source = name.source
          /\ files.documents[d].content = name.of
          /\ d \in Readable(files.contents)
          /\ files.contents[d] = name.of
  /\ \A name \in Readable(files.receipts) :
       name.status = "DUPLICATE" => name.of \in Readable(files.documents)

\* However often discovery and acquisition are cut short and repeated, a plan
\* has one candidate per catalog entry and no more of them than it asked for,
\* and one content is one document, whichever plans and sources it came from.
NothingIsKeptTwice ==
  LET candidates == Readable(files.candidates)
      documents == Readable(files.documents)
  IN /\ \A a, b \in candidates : files.candidates[a] = files.candidates[b] => a = b
     /\ \A p \in Plans :
          Cardinality({id \in candidates : files.candidates[id].plan = p})
            <= MaximumSources
     /\ \A c, d \in documents :
          files.documents[c].content = files.documents[d].content => c = d

\* The two sides agree on a handoff: its receipt names an acquisition receipt
\* of a text document and an admitted source with that document's content.
\* Runs may be repeated, by one plan or several, and cut short between the
\* admission and its receipt, and still no content is admitted twice.
HandoffsAreBacked ==
  /\ \A id \in Readable(files.handoffs) :
       LET handoff == files.handoffs[id]
       IN /\ handoff.receipt \in Retrieved
          /\ files.receipts[handoff.receipt] = handoff.document
          /\ files.documents[handoff.document].media = "text"
          /\ handoff.source \in Readable(files.admitted)
          /\ files.admitted[handoff.source] =
               files.documents[handoff.document].content
  /\ \A a, b \in Readable(files.admitted) :
       files.admitted[a] = files.admitted[b] => a = b

Unreceipted ==
  {d \in DOMAIN files.contents :
     /\ \A name \in Retrieved : files.receipts[name] # d
     /\ job.at \in {"metadata", "receipt"} => job.document # d}

UnreceiptedHandoffs ==
  {id \in DOMAIN files.admitted :
     /\ \A h \in Readable(files.handoffs) : files.handoffs[h].source # id
     /\ job.at = "handed_over" => job.admitted # id}

\* As long as no file is torn, an error or a death leaves at most one thing
\* behind: a document nobody has a receipt for, or an admitted source without
\* its handoff.  What was cut off before is not acquired again.
FaultsLeaveLittle ==
  (\A kind \in Directories : Searchable(files[kind]))
    => Cardinality(Unreceipted) + Cardinality(UnreceiptedHandoffs) <= faults

\* Every run ends: nothing it finds on file makes it wait or go on for ever.
RunsEnd == job # Idle ~> job = Idle

\* What receipts.py says of a retry: "A retry involving the same plan, source,
\* and acquired content SHALL return the original persisted receipt", so no
\* content is a duplicate of what the same source gave before.
RetriesReturnTheReceipt ==
  \A name \in Readable(files.receipts) :
    name.status = "DUPLICATE" => files.documents[name.of].source # name.source
=============================================================================
