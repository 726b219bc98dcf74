----------------------------- MODULE MCDhtSearch -----------------------------
(* Three nodes: one that knows the others and has the id announced already, *)
(* by the daemon in an earlier life; one closer to it; and one closer still *)
(* that never answers.                                                      *)
EXTENDS DhtSearch

CONSTANTS a, b, c, own

DistanceMC == [k \in Keys |-> [n \in Nodes |-> CASE n = a -> 3 [] n = b -> 2 [] n = c -> 1]]
ToldMC == [n \in Nodes |-> [k \in Keys |-> CASE n = a -> {b, c} [] OTHER -> {}]]
KnownMC == [n \in Nodes |-> IF n = a THEN Keys ELSE {}]

\* The nodes here are as the theorem on EndsAtClosest asks.
ASSUME LeadsCloserAssumption == LeadsCloser
==============================================================================
