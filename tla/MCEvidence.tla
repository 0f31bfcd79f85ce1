----------------------------- MODULE MCEvidence -----------------------------
(***************************************************************************)
(* Two captures of the same page, so that the second commit meets the      *)
(* registry source of the first; the organization of s2 is not in the      *)
(* registry, so its evidence is refused.                                   *)
(***************************************************************************)
EXTENDS EvidenceProperties

CONSTANTS s1, s2, f1, f2

MCUrl == [s \in Sources |-> "page"]
MCContent == [s \in Sources |-> "h"]
=============================================================================
