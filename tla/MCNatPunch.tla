----------------------------- MODULE MCNatPunch ------------------------------
(* Two ends behind NATs, with fewer punches and turns than in the code.     *)
EXTENDS NatPunch

\* Each call once, and that of all techniques with the peer looked for at two ports.
CallsMC ==
  {[of |-> "try_connect", target |-> "udp", symmetric |-> {}],
   [of |-> "punch", target |-> "udp", symmetric |-> {}],
   [of |-> "multi_strategy", target |-> "udp", symmetric |-> {}],
   [of |-> "multi_strategy", target |-> "ttl", symmetric |-> {A, B}]}
==============================================================================
