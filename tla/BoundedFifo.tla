----------------------------- MODULE BoundedFifo -----------------------------
(***************************************************************************)
(* What the event queue promises its callers: a first-in first-out queue   *)
(* of at most Capacity events.  An offer to a full queue is refused and    *)
(* leaves the queue as it was; a consumer is handed the oldest event.      *)
(***************************************************************************)
EXTENDS Naturals, Sequences

CONSTANTS
  Capacity,   \* how many events the queue holds
  Consumers,  \* the threads that take events
  Events,     \* the events that may be offered
  NoEvent     \* what a consumer holds before its first event

VARIABLES
  q,          \* the queued events, the oldest first
  got,        \* got[c]: the event c was handed last
  accepted    \* the result of the last offer

vars == <<q, got, accepted>>

Init ==
  /\ q = << >>
  /\ got = [c \in Consumers |-> NoEvent]
  /\ accepted = TRUE

Put(e) ==
  /\ Len(q) < Capacity
  /\ q' = Append(q, e)
  /\ accepted' = TRUE
  /\ UNCHANGED got

Refuse ==
  /\ Len(q) = Capacity
  /\ accepted' = FALSE
  /\ UNCHANGED <<q, got>>

Get(c) ==
  /\ q # << >>
  /\ got' = [got EXCEPT ![c] = Head(q)]
  /\ q' = Tail(q)
  /\ UNCHANGED accepted

Next ==
  \/ \E e \in Events : Put(e)
  \/ Refuse
  \/ \E c \in Consumers : Get(c)

Spec == Init /\ [][Next]_vars
==============================================================================
