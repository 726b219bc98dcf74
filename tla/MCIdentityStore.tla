--------------------------- MODULE MCIdentityStore ---------------------------
(* Two programs, either of which may die, and three commands.               *)
EXTENDS IdentityStore, TLC

CONSTANTS p1, p2

ProgramSymmetry == Permutations({p1, p2})
==============================================================================
