------------------------------- MODULE PeerBook ------------------------------
(***************************************************************************)
(* What the state manager promises its callers: a book that holds at most  *)
(* Capacity peers, one entry an identifier, where an operation on one peer *)
(* leaves every other entry as it was.                                     *)
(***************************************************************************)
EXTENDS Naturals, FiniteSets

CONSTANTS
  Capacity,   \* how many peers the book holds
  Ids,        \* the identifiers of peers
  States,     \* the friendship states a peer may be put in
  Ips, Ports, \* the addresses a peer may be given
  NewEntry    \* the entry of a peer just added

VARIABLE book \* a function from the identifiers in the book to their entries

Known == DOMAIN book
With(id, entry) ==
  [i \in Known \cup {id} |-> IF i = id THEN entry ELSE book[i]]

Init == book = << >>

Add(id) ==
  /\ id \notin Known
  /\ Cardinality(Known) < Capacity
  /\ book' = With(id, NewEntry)

Update(id, state) ==
  /\ id \in Known
  /\ book' = With(id, [book[id] EXCEPT !.state = state])

Remove(id) ==
  /\ id \in Known
  /\ book' = [i \in Known \ {id} |-> book[i]]

SetOnline(id, online) ==
  /\ id \in Known
  /\ book' = With(id, [book[id] EXCEPT !.online = online])

SetIp(id, ip) ==
  /\ id \in Known
  /\ book' = With(id, [book[id] EXCEPT !.ip = ip])

SetPort(id, port) ==
  /\ id \in Known
  /\ book' = With(id, [book[id] EXCEPT !.port = port])

Next ==
  \E id \in Ids :
    \/ Add(id)
    \/ Remove(id)
    \/ \E s \in States : Update(id, s)
    \/ \E b \in BOOLEAN : SetOnline(id, b)
    \/ \E ip \in Ips : SetIp(id, ip)
    \/ \E port \in Ports : SetPort(id, port)

Spec == Init /\ [][Next]_book
==============================================================================
