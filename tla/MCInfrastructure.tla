-------------------------- MODULE MCInfrastructure --------------------------
(***************************************************************************)
(* Two callers; an organization in service and one that is planned, each   *)
(* with a facility of the same name, and an external identifier in two     *)
(* spellings.                                                              *)
(***************************************************************************)
EXTENDS InfrastructureProperties

CONSTANTS c1, c2, n1, n2, lower, upper

MCExisting ==
  [organization |-> <<New(n1, Null, "ACTIVE", 0), New(n2, Null, "PLANNED", 0)>>,
   facility |-> <<New(n1, Null, "ACTIVE", 1), New(n1, Null, "RETIRED", 2)>>]

MCFold == [x \in {lower, upper} |-> lower]
=============================================================================
