----------------------------- MODULE MCEmailOutbox -----------------------------
(* Small instances of EmailOutbox for TLC.                                 *)
EXTENDS EmailOutbox, TLC

CONSTANTS a, b, m1, m2

MCSymmetry == Permutations(Instances) \cup Permutations(Messages)
===============================================================================
