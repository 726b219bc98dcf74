----------------------------- MODULE MCSimOpen ------------------------------
(* SimOpen with two named ends. *)
EXTENDS SimOpen
CONSTANTS alice, bob
=============================================================================
