---------------------------- MODULE MCTurnClient ----------------------------
(* TurnClient with two callers. *)
EXTENDS TurnClient, TLC
CONSTANTS t1, t2, a, b, c
CallsMC == t1 :> 2 @@ t2 :> 1
=============================================================================
