------------------------------ MODULE NatPunch -------------------------------
(***************************************************************************)
(* punch.c: two ends behind NATs that send each other datagrams, to open   *)
(* the NATs, and listen for them, one technique after the other.           *)
(*                                                                         *)
(* An end has one socket at a time, bound to the port of its technique.    *)
(* A NAT keeps a port's number, lets a datagram in at a port from where    *)
(* that port has sent to, and forgets nothing during an attempt.           *)
(*                                                                         *)
(* Names are kept apart from those of ParallelRunner, beside which         *)
(* Traversal_proofs takes them up.                                         *)
(***************************************************************************)
EXTENDS Naturals, Sequences

CONSTANTS
  A, B,       \* the two ends
  Filtering,  \* the ends behind a NAT
  Punches,    \* the punches punch_try_connect begins with
  MaxRetry,   \* PUNCH_MAX_RETRY
  MaxTtl,     \* PUNCH_MAX_TTL
  Calls,      \* what an end may call: see CallsAssumption
  MaxNoise    \* bounds the datagrams that are no punches

ASSUME EndsAssumption == A # B
ASSUME BoundsAssumption == {Punches, MaxRetry, MaxTtl} \subseteq Nat \ {0} /\ MaxNoise \in Nat

Ends == {A, B}
Peer(e) == IF e = A THEN B ELSE A

\* Each has a port of its own: PUNCH_PORT and the three above it.
Techniques == {"udp", "ttl", "sim", "pred"}

\* The port at which a peer is looked for: that of a technique, or the one for its
\* messages, which is what the DHT knows.
Targets == {"udp", "ttl", "messages"}

\* A punch with a TTL is sent from a socket opened for it alone.
Sources == Techniques \cup {"single"}

\* symmetric are the ends whose NAT is taken to be so.
ASSUME CallsAssumption ==
  Calls \subseteq [of : {"try_connect", "punch", "multi_strategy"}, target : Targets,
                   symmetric : SUBSET Ends]

VARIABLES
  end,      \* how far each end is
  inbox,    \* the receive buffer of its socket
  holes,    \* from which port of its own it has sent to which of the peer
  wire,     \* the datagrams that are delayed, perhaps for ever
  overlap,  \* history: both udp attempts were under way at one time
  delayed,  \* history: a datagram was delayed
  noise

punchVars == <<end, inbox, holes, wire, overlap, delayed, noise>>

\* todo are the techniques still to be tried; the first is under way, about to open
\* its socket, to send for the n-th time or to listen.
Progress == [call : {"none", "try_connect", "punch", "multi_strategy"}, target : Targets,
        todo : Seq(Techniques), phase : {"open", "send", "listen"}, n : Nat,
        outcome : [Techniques -> {"untried", "ok", "failed"}], ret : {"none", "ok", "failed"}]

Datagram == [text : {"PUNCH", "TTL", "other"}, from : Sources, to : Targets, dest : Ends]

PunchInit ==
  /\ end = [e \in Ends |->
       [call |-> "none", target |-> "udp", todo |-> << >>, phase |-> "open", n |-> 0,
        outcome |-> [t \in Techniques |-> "untried"], ret |-> "none"]]
  /\ inbox = [e \in Ends |-> << >>]
  /\ holes = [e \in Ends |-> {}]
  /\ wire = {}
  /\ overlap = FALSE /\ delayed = FALSE
  /\ noise = 0

Trying(e, technique) == end[e].todo # << >> /\ Head(end[e].todo) = technique
Doing(e, technique, phase) == Trying(e, technique) /\ end[e].phase = phase

----------------------------------------------------------------------------
(* The network.                                                            *)

LetsIn(d) ==
  /\ Trying(d.dest, d.to) /\ end[d.dest].phase # "open"
  /\ d.dest \in Filtering => <<d.to, d.from>> \in holes[d.dest]

Buffered(d) == [inbox EXCEPT ![d.dest] = Append(@, d)]

\* What comes at once comes into the buffer, or is dropped by the NAT or for want of a
\* socket.  What does not may come later.  The sender's own buffer becomes rest.
Transmit(e, text, from, rest) ==
  LET d == [text |-> text, from |-> from, to |-> end[e].target, dest |-> Peer(e)]
  IN  /\ holes' = [holes EXCEPT ![e] = @ \cup {<<from, d.to>>}]
      /\ \/ /\ inbox' = [IF LetsIn(d) THEN Buffered(d) ELSE inbox EXCEPT ![e] = rest]
            /\ UNCHANGED <<wire, delayed>>
         \/ /\ wire' = wire \cup {d}
            /\ delayed' = TRUE
            /\ inbox' = [inbox EXCEPT ![e] = rest]

Quiet(e, rest) ==
  /\ inbox' = [inbox EXCEPT ![e] = rest]
  /\ UNCHANGED <<holes, wire, delayed>>

Arrive(d) ==
  /\ d \in wire /\ LetsIn(d)
  /\ inbox' = Buffered(d)
  /\ wire' = wire \ {d}
  /\ UNCHANGED <<end, holes, delayed, noise>>

\* Another datagram, from a port to which the NAT is open.
Noise(e) ==
  /\ noise < MaxNoise
  /\ \E from \in Sources, to \in Targets :
       LET d == [text |-> "other", from |-> from, to |-> to, dest |-> e]
       IN  LetsIn(d) /\ inbox' = Buffered(d)
  /\ noise' = noise + 1
  /\ UNCHANGED <<end, holes, wire, delayed>>

----------------------------------------------------------------------------
(* The calls.                                                              *)

\* Port prediction is tried when one of the NATs is symmetric, udp not when both are.
Chosen(call) ==
  IF call.of # "multi_strategy" THEN <<"udp">>
  ELSE (IF call.symmetric = Ends THEN << >> ELSE <<"udp">>)
         \o <<"ttl", "sim">>
         \o (IF call.symmetric = {} THEN << >> ELSE <<"pred">>)

BeginCall(e) ==
  /\ end[e].call = "none"
  /\ \E call \in Calls :
       end' = [end EXCEPT ![e].call = call.of, ![e].target = call.target,
                          ![e].todo = Chosen(call)]
  /\ UNCHANGED <<inbox, holes, wire, delayed, noise>>

\* Any success is one.
Report(outcome) ==
  IF \E t \in Techniques : outcome[t] = "ok" THEN "ok" ELSE "failed"

\* The technique is done, and the next one follows, also after a success.
Done(e, result) ==
  LET technique == Head(end[e].todo)
      outcome == [end[e].outcome EXCEPT ![technique] = result]
  IN  end' = [end EXCEPT
        ![e].todo = Tail(@), ![e].phase = "open", ![e].n = 0, ![e].outcome = outcome,
        ![e].ret = IF Len(end[e].todo) = 1 THEN Report(outcome) ELSE @]

\* Without a socket a technique is left out.
Open(e) ==
  /\ end[e].todo # << >> /\ end[e].phase = "open"
  /\ \/ end' = [end EXCEPT ![e].phase = "send"]
     \/ Done(e, "failed")
  /\ UNCHANGED <<inbox, holes, wire, delayed, noise>>

\* punch_punch sends as often as it listens, punch_try_connect less.
FirstPunches(e) == IF end[e].call = "punch" THEN MaxRetry ELSE Punches

\* A slip: punches are sent from a socket of their own, as those with a TTL are.
PunchFromSingle(e, rest) == Transmit(e, "PUNCH", "single", rest)

\* A sendto that fails is taken for a punch that is held up for ever.
Punch(e, rest) == Transmit(e, "PUNCH", "udp", rest)

Send(e) ==
  /\ Doing(e, "udp", "send")
  /\ Punch(e, inbox[e])
  /\ end' = IF end[e].n + 1 < FirstPunches(e)
            THEN [end EXCEPT ![e].n = @ + 1]
            ELSE [end EXCEPT ![e].n = 0, ![e].phase = "listen"]
  /\ UNCHANGED noise

\* With a small TTL it may not come as far as the peer.
SendTtl(e) ==
  /\ Doing(e, "ttl", "send")
  /\ end' = [end EXCEPT ![e].phase = "listen"]
  /\ Transmit(e, "TTL", "single", inbox[e]) \/ Quiet(e, inbox[e])
  /\ UNCHANGED noise

IsPunch(e) == inbox[e] # << >> /\ Head(inbox[e]).text # "other"

\* A punch is enough; the socket is closed with all else it holds.
Hear(e) ==
  /\ end[e].phase = "listen" /\ IsPunch(e)
  /\ Done(e, "ok")
  /\ Quiet(e, << >>)
  /\ UNCHANGED noise

\* A slip: the turn is not counted.
TurnsUncounted(e) == end[e].n

\* The turns of the loop, with this one.
Turns(e) == end[e].n + 1
MaxTurns(e) == IF Trying(e, "udp") THEN MaxRetry ELSE MaxTtl

\* Every third turn, counted from zero, punch_try_connect sends again.
SendsAgain(e) == Trying(e, "udp") /\ end[e].call # "punch" /\ end[e].n % 3 = 0

\* Two seconds with nothing in the buffer, or something else in it.  After the last
\* turn the socket is closed.
HearNothing(e) ==
  LET last == Turns(e) = MaxTurns(e)
      rest == IF last \/ inbox[e] = << >> THEN << >> ELSE Tail(inbox[e])
  IN  /\ end[e].phase = "listen" /\ ~IsPunch(e)
      /\ IF last THEN Done(e, "failed")
         ELSE end' = [end EXCEPT ![e].n = Turns(e),
                                 ![e].phase = IF Trying(e, "ttl") THEN "send" ELSE @]
      /\ IF SendsAgain(e) THEN Punch(e, rest) ELSE Quiet(e, rest)
      /\ UNCHANGED noise

\* simultaneous_open_punch and port_predictor_punch, which have modules of their own.
Elsewhere(e) ==
  /\ Doing(e, "sim", "send") \/ Doing(e, "pred", "send")
  /\ Done(e, "ok") \/ Done(e, "failed")
  /\ UNCHANGED <<inbox, holes, wire, delayed, noise>>

----------------------------------------------------------------------------

\* An end that has punched, to where the peer will listen, and has more turns to
\* listen than there are datagrams waiting.
UnderWay(e) ==
  /\ Trying(e, "udp")
  /\ end[e].target = "udp"
  /\ end[e].phase = "listen" \/ (end[e].phase = "send" /\ end[e].n > 0)
  /\ Len(inbox[e]) < (IF end[e].phase = "listen" THEN MaxRetry - end[e].n ELSE MaxRetry)

Overlap == overlap' = (overlap \/ \A e \in Ends : UnderWay(e)')

GoOn(e) ==
  \/ Open(e) \/ Send(e) \/ SendTtl(e)
  \/ Hear(e) \/ HearNothing(e) \/ Elsewhere(e)

PunchNext ==
  /\ \/ \E e \in Ends : BeginCall(e) \/ GoOn(e) \/ Noise(e)
     \/ \E d \in wire : Arrive(d)
  /\ Overlap

PunchSpec == PunchInit /\ [][PunchNext]_punchVars

\* A call that has begun goes on: every wait of it ends by a timeout.
PunchFairSpec == PunchSpec /\ \A e \in Ends : WF_punchVars(GoOn(e) /\ Overlap)

----------------------------------------------------------------------------
(* Properties.                                                             *)

\* Every variable has its type.
PunchTypeOK ==
  /\ end \in [Ends -> Progress]
  /\ inbox \in [Ends -> Seq(Datagram)]
  /\ holes \in [Ends -> SUBSET (Sources \X Targets)]
  /\ wire \subseteq Datagram
  /\ overlap \in BOOLEAN /\ delayed \in BOOLEAN
  /\ noise \in 0 .. MaxNoise

\* Two udp attempts that are under way at one time do not both fail, unless the network
\* has kept a datagram back (punch_try_connect, punch_punch): whoever was first has
\* opened its NAT when the other's punch comes, and still listens.
NotBothFail ==
  overlap /\ ~delayed => \E e \in Ends : end[e].outcome["udp"] # "failed"

\* A call that has begun returns, whatever comes in.
CallsReturn == \A e \in Ends : end[e].call # "none" ~> end[e].ret # "none"
==============================================================================
