----------------------------- MODULE MCPipeline -----------------------------
(***************************************************************************)
(* Two processes on one registry, which the demonstration filled, and      *)
(* three requests: a brief of the organization that is there, a profile of *)
(* the next one, and one that is not valid.                                *)
(***************************************************************************)
EXTENDS CommercialProperties

CONSTANTS c1, c2

MCRequests ==
  {[organization |-> 1, brief |-> TRUE, valid |-> TRUE],
   [organization |-> 2, brief |-> FALSE, valid |-> TRUE],
   [organization |-> 2, brief |-> FALSE, valid |-> FALSE]}
=============================================================================
