----------------------------- MODULE MCResearch -----------------------------
(***************************************************************************)
(* Two requests that share a catalog entry, so that the second meets the   *)
(* documents of the first; one of them takes fewer entries than match.     *)
(***************************************************************************)
EXTENDS ResearchProperties, TLC

CONSTANTS p1, p2, e1, e2, e3

MCMatching == (p1 :> {e1, e2, e3}) @@ (p2 :> {e1})
MCAuthority == (e1 :> 3) @@ (e2 :> 2) @@ (e3 :> 1)
=============================================================================
