----------------------------- MODULE MCLifecycle -----------------------------
(* Lifecycle with the values its configuration gives. *)
EXTENDS Lifecycle

\* Nothing is said of what comes after a race: the overlapping commands are followed
\* up to one, and with it.
UpToARace == ~raced
=============================================================================
