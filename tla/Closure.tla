------------------------------ MODULE Closure -------------------------------
(***************************************************************************)
(* What closing promises.  Records are worked on by requests that overlap. *)
(* A request is admitted to the records it is about while they are open,   *)
(* and writes once, some time after; meanwhile another request may close   *)
(* them.  So what is closed is not yet final, but it settles: it changes   *)
(* only by the one write of a request that was admitted before.            *)
(***************************************************************************)
CONSTANTS
    Records,    \* what can be closed
    Requests

VARIABLES
    closed,     \* the records that are read only
    content,    \* what is on file of each record
    admitted,   \* the records each request may still write
    attested    \* what the archive of a record attests to, one thing at most

vars == <<closed, content, admitted, attested>>

Nothing == [s \in Requests |-> {}]

Init == closed = {} /\ admitted = Nothing /\ attested = [r \in Records |-> {}]

\* A request that is admitted to nothing yet finds its records open.
Admit(s) ==
    /\ admitted[s] = {}
    /\ \E open \in SUBSET (Records \ closed) : admitted' = [admitted EXCEPT ![s] = open]
    /\ UNCHANGED <<closed, content, attested>>

\* The write of a request, which is its last: of what is closed it changes
\* what it was admitted to.  It may close records and attest to them.
Write(s) ==
    /\ closed \subseteq closed'
    /\ \A r \in closed \ admitted[s] : content'[r] = content[r]
    /\ \A r \in Records :
          attested'[r] # attested[r] => attested[r] = {} /\ r \in admitted[s] \cap closed'
    /\ \A r \in Records : \A one, other \in attested'[r] : one = other
    /\ admitted' = [admitted EXCEPT ![s] = {}]

\* The requests are lost, and what they were admitted to with them.
Abandon == admitted' = Nothing /\ UNCHANGED <<closed, content, attested>>

Next == Abandon \/ \E s \in Requests : Admit(s) \/ Write(s)

Spec == Init /\ [][Next]_vars

-----------------------------------------------------------------------------

Pending(r) == \E s \in Requests : r \in admitted[s]

\* What is closed and nobody was admitted to before is final: it never changes
\* again, and nobody is admitted to it any more.
ClosedSettles ==
    [][\A r \in closed :
          /\ r \in closed'
          /\ Pending(r)' => Pending(r)
          /\ ~Pending(r) => content'[r] = content[r]]_vars

\* A record is attested to once, when it is closed or after, and what is
\* attested never changes.
AttestedOnce ==
    \A r \in Records :
        /\ attested[r] # {} => r \in closed
        /\ \A one, other \in attested[r] : one = other
=============================================================================
