---------------------------- MODULE MCStateManager ---------------------------
(* Up to two threads on a table of two slots and three identifiers. *)
EXTENDS StateManager, TLC

CONSTANTS t1, t2, a, b, c, ip

\* The identifiers are interchangeable, and so are two threads.
IdSymmetry == Permutations({a, b, c})
Symmetry == Permutations({t1, t2}) \cup IdSymmetry
==============================================================================
