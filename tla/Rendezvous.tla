----------------------------- MODULE Rendezvous -----------------------------
(***************************************************************************)
(* What two programs that meet by a simultaneous open are promised: each   *)
(* calls once, as the connecting or the accepting end, and its call ends   *)
(* either well or badly.  A call can only end well if the other end is     *)
(* there too, two accepting ends never meet, and an end that connects to   *)
(* an accepting one succeeds only after the accepting one has: it never    *)
(* believes in a connection its peer knows nothing of.                     *)
(***************************************************************************)
CONSTANTS A, B

VARIABLES role, outcome

Ends == {A, B}
Peer(e) == IF e = A THEN B ELSE A

Init ==
    /\ role \in [Ends -> {"connect", "accept"}]
    /\ outcome = [e \in Ends |-> "uncalled"]

Call(e) ==
    /\ outcome[e] = "uncalled"
    /\ outcome' = [outcome EXCEPT ![e] = "pending"]
    /\ UNCHANGED role

Succeed(e) ==
    /\ outcome[e] = "pending"
    /\ outcome[Peer(e)] # "uncalled"
    /\ role[e] = "accept" => role[Peer(e)] = "connect"
    /\ role[e] = "connect" /\ role[Peer(e)] = "accept" => outcome[Peer(e)] = "ok"
    /\ outcome' = [outcome EXCEPT ![e] = "ok"]
    /\ UNCHANGED role

Fail(e) ==
    /\ outcome[e] \in {"uncalled", "pending"}
    /\ outcome' = [outcome EXCEPT ![e] = "failed"]
    /\ UNCHANGED role

Next == \E e \in Ends : Call(e) \/ Succeed(e) \/ Fail(e)

Spec == Init /\ [][Next]_<<role, outcome>>
=============================================================================
