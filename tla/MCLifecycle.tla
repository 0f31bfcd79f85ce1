----------------------------- MODULE MCLifecycle -----------------------------
(***************************************************************************)
(* Instances of the decision lifecycle for TLC.                            *)
(***************************************************************************)
EXTENDS LifecycleProperties, TLC

CONSTANTS o1, o2, e1, e2, e3, s1, s2, s3, s4

\* One opportunity with a current chain; two of them.
SeedOne == << <<o1, e1>> >>
SeedTwo == << <<o1, e1>>, <<o2, e2>> >>

\* Requests differ only in what they ask for.
Symmetry == Permutations(Slots)
=============================================================================
