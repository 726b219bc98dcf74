---------------------------- MODULE MCEventQueue -----------------------------
(* A ring of two slots drained by two threads: it wraps, fills and empties, *)
(* and one thread can wait, time out or be woken while the other takes.    *)
EXTENDS EventQueue
==============================================================================
