----------------------------- MODULE MCOverlap ------------------------------
EXTENDS LifecycleOverlap, TLC

CONSTANTS o1, o2, e1, e2, s1, s2, s3, s4

SeedOne == << <<o1, e1>> >>

Symmetry == Permutations(Slots)
=============================================================================
