--------------------------- MODULE MCDaemonFriends ---------------------------
(* The daemon started on a state file that names one peer, with a few       *)
(* commands and a few datagrams.                                            *)
EXTENDS DaemonFriends

CONSTANTS p1, p2, ip

\* What the daemon finds in state.json: a peer whose request was sent, with an address.
OneSent == <<[id |-> p1, state |-> "REQUEST_SENT", online |-> FALSE, ip |-> ip,
              port |-> 9000, ghost_count |-> 0]>>
==============================================================================
