------------------------------ MODULE SimOpen -------------------------------
(***************************************************************************)
(* src/simultaneous_open.c: two ends that open a TCP connection to each    *)
(* other and agree on it with SYNC, SYNC_ACK and SYNC_CONFIRM packets.     *)
(*                                                                         *)
(* Each end has one SimOpenSession (state, sync_token, the socket) and one *)
(* thread: it calls simultaneous_open_connect or simultaneous_open_accept, *)
(* which tries MaxTry times to hear from the peer, and, when the call has  *)
(* succeeded, simultaneous_open_send, _recv and _close; or it came through *)
(* simultaneous_open_punch, whose caller only ever closes the descriptor.  *)
(*                                                                         *)
(* TCP is a reliable stream without message boundaries: wire[e] are the    *)
(* packets sent to e and not yet read, one recv takes any number of them   *)
(* from the front, and the code looks at the first only.                   *)
(***************************************************************************)
EXTENDS Naturals, Sequences

CONSTANTS
    A, B,       \* the two ends; the token an end draws is named after it
    MaxTry,     \* SIM_OPEN_MAX_RETRY
    MaxData     \* bound: data packets an end sends

ASSUME EndsAssumption == A # B
ASSUME TriesAssumption == MaxTry \in Nat \ {0}
ASSUME DataAssumption == MaxData \in Nat

Ends == {A, B}
Peer(e) == IF e = A THEN B ELSE A

NoToken == "none"       \* the zero simultaneous_open_init writes
Tokens == Ends \cup {NoToken}
Packet == [type : {"SYNC", "SYNC_ACK", "SYNC_CONFIRM", "DATA", "CLOSE"}, token : Tokens]

VARIABLES
    role,       \* which of the two calls an end makes
    call,       \* how far its thread is with it
    tries,      \* the loop counter i of the call
    state,      \* session->state (CONNECTING only inside one step of Start)
    sync_token, \* session->sync_token
    link,       \* the end's socket
    gone,       \* what the end will read once wire[e] is empty
    wire,       \* packets on their way to the end or in its receive buffer
    sent        \* data packets sent, for the bound only

session == <<state, sync_token>>
network == <<link, gone, wire>>
vars == <<role, call, tries, state, sync_token, link, gone, wire, sent>>

TypeOK ==
    /\ role \in [Ends -> {"connect", "accept"}]
    /\ call \in [Ends -> {"uncalled", "opening", "trying", "open", "failed", "closed"}]
    /\ tries \in [Ends -> 0 .. MaxTry - 1]
    /\ state \in [Ends -> {"IDLE", "SYNCING", "ESTABLISHED"}]
    /\ sync_token \in [Ends -> Tokens]
    /\ link \in [Ends -> {"none", "connecting", "up", "refused", "closed"}]
    /\ gone \in [Ends -> {"no", "fin", "rst"}]
    /\ wire \in [Ends -> Seq(Packet)]
    /\ sent \in [Ends -> 0 .. MaxData]

Init ==
    /\ role \in [Ends -> {"connect", "accept"}]
    /\ call = [e \in Ends |-> "uncalled"]
    /\ tries = [e \in Ends |-> 0]
    /\ state = [e \in Ends |-> "IDLE"]
    /\ sync_token = [e \in Ends |-> NoToken]
    /\ link = [e \in Ends |-> "none"]
    /\ gone = [e \in Ends |-> "no"]
    /\ wire = [e \in Ends |-> <<>>]
    /\ sent = [e \in Ends |-> 0]

-----------------------------------------------------------------------------
(* The network *)

\* A packet is delivered if both sockets of the connection are open: before
\* that a non-blocking send fails with EAGAIN, afterwards it is discarded.
Delivers(e) == link[e] = "up" /\ link[Peer(e)] = "up"

\* The wires after e has read its own down to rest and sent the packets out.
Carry(e, rest, out) ==
    [wire EXCEPT ![e] = rest,
                 ![Peer(e)] = IF Delivers(e) THEN @ \o out ELSE @]

\* close(): the peer reads what is still on its wire and then the end of the
\* stream.  If this end left packets unread it resets the connection instead,
\* and what was still on its way to the peer may be lost.
CloseSocket(e, rest, out) ==
    /\ link' = [link EXCEPT ![e] = "closed"]
    /\ LET left == Carry(e, <<>>, out)[Peer(e)]
       IN  IF rest = <<>> \/ ~Delivers(e)
           THEN /\ wire' = Carry(e, <<>>, out)
                /\ gone' = IF Delivers(e) THEN [gone EXCEPT ![Peer(e)] = "fin"] ELSE gone
           ELSE /\ \E n \in 0 .. Len(left) :
                      wire' = [wire EXCEPT ![e] = <<>>, ![Peer(e)] = SubSeq(left, 1, n)]
                /\ gone' = [gone EXCEPT ![Peer(e)] = "rst"]

\* The two SYNs cross.
LinkUp ==
    /\ \A e \in Ends : link[e] = "connecting"
    /\ link' = [e \in Ends |-> "up"]
    /\ UNCHANGED <<role, call, tries, session, gone, wire, sent>>

\* The peer, or something between, answers the SYN with a reset.
LinkRefused(e) ==
    /\ link[e] = "connecting"
    /\ link' = [link EXCEPT ![e] = "refused"]
    /\ UNCHANGED <<role, call, tries, session, gone, wire, sent>>

-----------------------------------------------------------------------------
(* Packets *)

Pkt(type, token) == [type |-> type, token |-> token]

\* A slip: a SYNC is acknowledged with the peer's token, which is not kept.
ProcessKeepingToken(e, p, st) ==
    CASE p.type = "SYNC" ->
            [state |-> IF st = "SYNCING" THEN "ESTABLISHED" ELSE st,
             token |-> sync_token[e],
             out |-> <<Pkt("SYNC_ACK", p.token)>>]
      [] p.type = "SYNC_ACK" /\ sync_token[e] = p.token ->
            [state |-> "ESTABLISHED",
             token |-> sync_token[e],
             out |-> <<Pkt("SYNC_CONFIRM", sync_token[e])>>]
      [] p.type = "SYNC_CONFIRM" ->
            [state |-> IF st = "SYNCING" THEN "ESTABLISHED" ELSE st,
             token |-> sync_token[e],
             out |-> <<>>]
      [] p.type = "CLOSE" ->
            [state |-> "IDLE", token |-> sync_token[e], out |-> <<>>]
      [] OTHER ->
            [state |-> st, token |-> sync_token[e], out |-> <<>>]

\* A slip: a three-way handshake, in which a SYNC is acknowledged and only
\* the CONFIRM establishes the session.
ProcessThreeWay(e, p, st) ==
    CASE p.type = "SYNC" ->
            [state |-> st, token |-> p.token, out |-> <<Pkt("SYNC_ACK", p.token)>>]
      [] p.type = "SYNC_ACK" /\ sync_token[e] = p.token ->
            [state |-> "ESTABLISHED",
             token |-> sync_token[e],
             out |-> <<Pkt("SYNC_CONFIRM", sync_token[e])>>]
      [] p.type = "SYNC_CONFIRM" ->
            [state |-> IF st = "SYNCING" THEN "ESTABLISHED" ELSE st,
             token |-> sync_token[e],
             out |-> <<>>]
      [] p.type = "CLOSE" ->
            [state |-> "IDLE", token |-> sync_token[e], out |-> <<>>]
      [] OTHER ->
            [state |-> st, token |-> sync_token[e], out |-> <<>>]

\* What simultaneous_open_process_packet does with packet p when the session
\* of e is in state st: the new state, the new token and the answers sent.
Process(e, p, st) ==
    CASE p.type = "SYNC" ->
            [state |-> IF st = "SYNCING" THEN "ESTABLISHED" ELSE st,
             token |-> p.token,
             out |-> <<Pkt("SYNC_ACK", p.token)>>]
      [] p.type = "SYNC_ACK" /\ sync_token[e] = p.token ->
            [state |-> "ESTABLISHED",
             token |-> sync_token[e],
             out |-> <<Pkt("SYNC_CONFIRM", sync_token[e])>>]
      [] p.type = "SYNC_CONFIRM" ->
            [state |-> IF st = "SYNCING" THEN "ESTABLISHED" ELSE st,
             token |-> sync_token[e],
             out |-> <<>>]
      [] p.type = "CLOSE" ->
            [state |-> "IDLE", token |-> sync_token[e], out |-> <<>>]
      [] p.type = "DATA" \/ (p.type = "SYNC_ACK" /\ sync_token[e] # p.token) ->
            [state |-> st, token |-> sync_token[e], out |-> <<>>]

-----------------------------------------------------------------------------
(* simultaneous_open_connect and simultaneous_open_accept *)

\* The socket is created and bound and connect() is under way.
Start(e) ==
    /\ call[e] = "uncalled"
    /\ sync_token' = [sync_token EXCEPT ![e] = e]
    /\ state' = [state EXCEPT ![e] = "SYNCING"]
    /\ link' = [link EXCEPT ![e] = "connecting"]
    /\ call' = [call EXCEPT ![e] = IF role[e] = "connect" THEN "opening" ELSE "trying"]
    /\ UNCHANGED <<role, tries, gone, wire, sent>>

\* No socket, or connect() fails at once: the session is cleaned up.
StartFails(e) ==
    /\ call[e] = "uncalled"
    /\ call' = [call EXCEPT ![e] = "failed"]
    /\ sync_token' \in {sync_token, [sync_token EXCEPT ![e] = e]}
    /\ UNCHANGED <<role, tries, state, network, sent>>

\* The connecting end's SYNC before the loop.
FirstSync(e) ==
    /\ call[e] = "opening"
    /\ wire' = Carry(e, wire[e], <<Pkt("SYNC", sync_token[e])>>)
    /\ call' = [call EXCEPT ![e] = "trying"]
    /\ UNCHANGED <<role, tries, session, link, gone, sent>>

Resent(e, tok) == IF role[e] = "connect" THEN <<Pkt("SYNC", tok)>> ELSE <<>>

\* A slip: a round in which nothing came of the wait is not counted.
EndRoundUncounted(e, st, tok, rest, out) ==
    \/ /\ st = "ESTABLISHED"
       /\ state' = [state EXCEPT ![e] = st]
       /\ call' = [call EXCEPT ![e] = "open"]
       /\ wire' = Carry(e, rest, out)
       /\ UNCHANGED <<tries, link>>
    \/ /\ st # "ESTABLISHED"
       /\ state' = [state EXCEPT ![e] = st]
       /\ wire' = Carry(e, rest, out)
       /\ UNCHANGED <<tries, call, link>>

\* The rest of a round of the loop, after simultaneous_open_wait_for_sync has
\* left the session with state st and token tok, read the wire down to rest
\* and sent out: the call returns 0, or goes round again, or gives up.
EndRound(e, st, tok, rest, out) ==
    \/ /\ st = "ESTABLISHED"
       /\ state' = [state EXCEPT ![e] = st]
       /\ call' = [call EXCEPT ![e] = "open"]
       /\ wire' = Carry(e, rest, out)
       /\ UNCHANGED <<tries, link>>
    \/ /\ st # "ESTABLISHED"
       /\ tries[e] < MaxTry - 1
       /\ state' = [state EXCEPT ![e] = st]
       /\ tries' = [tries EXCEPT ![e] = @ + 1]
       /\ wire' = Carry(e, rest, out \o Resent(e, tok))
       /\ UNCHANGED <<call, link>>

\* simultaneous_open_cleanup after the last round.
GiveUp(e, st, rest, out) ==
    /\ st # "ESTABLISHED"
    /\ tries[e] = MaxTry - 1
    /\ state' = [state EXCEPT ![e] = "IDLE"]
    /\ call' = [call EXCEPT ![e] = "failed"]
    /\ CloseSocket(e, rest, out)
    /\ UNCHANGED tries

\* select and recv find packets and the first of them is processed, answered, and the
\* call returns or goes on, all in one step: after the answer nothing can fail any more,
\* so a call that will return 0 counts as having succeeded from its answer on.
Heard(e) ==
    /\ call[e] = "trying"
    /\ wire[e] # <<>>
    /\ \E k \in 1 .. Len(wire[e]) :
          LET rest == SubSeq(wire[e], k + 1, Len(wire[e]))
              r == Process(e, Head(wire[e]), state[e])
          IN  /\ sync_token' = [sync_token EXCEPT ![e] = r.token]
              /\ \/ /\ EndRound(e, r.state, r.token, rest, r.out)
                    /\ UNCHANGED gone
                 \/ GiveUp(e, r.state, rest, r.out)
    /\ UNCHANGED <<role, sent>>

\* The wait times out, or the socket reports an error or the end of stream.
HeardNothing(e) ==
    /\ call[e] = "trying"
    /\ sync_token' = sync_token
    /\ \/ /\ EndRound(e, state[e], sync_token[e], wire[e], <<>>)
          /\ gone' \in {gone, [gone EXCEPT ![e] = IF wire[e] = <<>> /\ @ = "rst"
                                                  THEN "fin" ELSE @]}
       \/ GiveUp(e, state[e], wire[e], <<>>)
    /\ UNCHANGED <<role, sent>>

-----------------------------------------------------------------------------
(* The opened session *)

\* simultaneous_open_send
Send(e) ==
    /\ call[e] = "open"
    /\ state[e] = "ESTABLISHED"
    /\ sent[e] < MaxData
    /\ sent' = [sent EXCEPT ![e] = @ + 1]
    /\ wire' = Carry(e, wire[e], <<Pkt("DATA", sync_token[e])>>)
    /\ UNCHANGED <<role, call, tries, session, link, gone>>

\* simultaneous_open_recv finds packets: data is handed to the caller, any
\* other packet is processed.
RecvPacket(e) ==
    /\ call[e] = "open"
    /\ state[e] = "ESTABLISHED"
    /\ wire[e] # <<>>
    /\ \E k \in 1 .. Len(wire[e]) :
          LET r == Process(e, Head(wire[e]), state[e])
          IN  /\ sync_token' = [sync_token EXCEPT ![e] = r.token]
              /\ state' = [state EXCEPT ![e] = r.state]
              /\ wire' = Carry(e, SubSeq(wire[e], k + 1, Len(wire[e])), r.out)
    /\ UNCHANGED <<role, call, tries, link, gone, sent>>

\* A slip: the end of the stream is taken for "nothing to read".
RecvEndIgnored(e) ==
    /\ call[e] = "open"
    /\ state[e] = "ESTABLISHED"
    /\ wire[e] = <<>>
    /\ gone[e] = "fin"
    /\ UNCHANGED vars

\* simultaneous_open_recv finds the end of the stream.
RecvEnd(e) ==
    /\ call[e] = "open"
    /\ state[e] = "ESTABLISHED"
    /\ wire[e] = <<>>
    /\ gone[e] = "fin"
    /\ state' = [state EXCEPT ![e] = "IDLE"]
    /\ UNCHANGED <<role, call, tries, sync_token, network, sent>>

\* simultaneous_open_recv finds a reset: recv fails, once.
RecvReset(e) ==
    /\ call[e] = "open"
    /\ state[e] = "ESTABLISHED"
    /\ wire[e] = <<>>
    /\ gone[e] = "rst"
    /\ gone' = [gone EXCEPT ![e] = "fin"]
    /\ UNCHANGED <<role, call, tries, session, link, wire, sent>>

\* simultaneous_open_close
Close(e) ==
    /\ call[e] = "open"
    /\ call' = [call EXCEPT ![e] = "closed"]
    /\ state' = [state EXCEPT ![e] = "IDLE"]
    /\ CloseSocket(e, wire[e], <<Pkt("CLOSE", sync_token[e])>>)
    /\ UNCHANGED <<role, tries, sync_token, sent>>

\* simultaneous_open_punch has handed the descriptor to a PunchState and
\* dropped the session, and punch_close closes the descriptor.
PunchClose(e) ==
    /\ call[e] = "open"
    /\ role[e] = "connect"
    /\ call' = [call EXCEPT ![e] = "closed"]
    /\ state' = [state EXCEPT ![e] = "IDLE"]
    /\ CloseSocket(e, wire[e], <<>>)
    /\ UNCHANGED <<role, tries, sync_token, sent>>

-----------------------------------------------------------------------------
Round(e) == Heard(e) \/ HeardNothing(e)
Recv(e) == RecvPacket(e) \/ RecvEnd(e) \/ RecvReset(e)

Next ==
    \/ LinkUp
    \/ \E e \in Ends :
          \/ LinkRefused(e)
          \/ Start(e) \/ StartFails(e) \/ FirstSync(e)
          \/ Round(e)
          \/ Send(e) \/ Recv(e) \/ Close(e) \/ PunchClose(e)

Spec == Init /\ [][Next]_vars

\* A call that has begun runs on by itself (its waits are bounded), and a
\* program that has opened a session reads from it.
Fairness ==
    \A e \in Ends :
        /\ WF_vars(FirstSync(e))
        /\ WF_vars(Round(e))
        /\ WF_vars(Recv(e))

FairSpec == Spec /\ Fairness

-----------------------------------------------------------------------------
(* Properties *)

\* If one end called simultaneous_open_connect and the other _accept, and both
\* hold the session to be established, they hold the same sync_token: the
\* connecting end's, however many SYNCs were resent, coalesced by the stream
\* or answered twice.
TokensAgree ==
    \A e \in Ends :
        /\ role[e] = "connect" /\ role[Peer(e)] = "accept"
        /\ state[e] = "ESTABLISHED" /\ state[Peer(e)] = "ESTABLISHED"
        => sync_token[e] = e /\ sync_token[Peer(e)] = e

outcome ==
    [e \in Ends |->
        CASE call[e] = "uncalled" -> "uncalled"
          [] call[e] \in {"opening", "trying"} -> "pending"
          [] call[e] \in {"open", "closed"} -> "ok"
          [] call[e] = "failed" -> "failed"]

Meeting == INSTANCE Rendezvous

\* The two calls keep the promise of Rendezvous: connect returns 0 towards an
\* accepting peer only if that peer's call has returned 0 too, whatever the
\* network delays or refuses and whichever end gives up first.
MeetingSpec == Meeting!Spec

\* Every call returns: the loop gives up after SIM_OPEN_MAX_RETRY rounds even
\* if the peer keeps the line busy with packets that establish nothing.
CallsReturn ==
    \A e \in Ends : call[e] \in {"opening", "trying"} ~> call[e] \in {"open", "failed", "closed"}

\* An end does not keep a connection whose other end has given up or closed:
\* simultaneous_open_recv finds the CLOSE packet or the end of the stream and
\* the session leaves ESTABLISHED.
HalfOpenEnds ==
    \A e \in Ends :
        call[Peer(e)] \in {"failed", "closed"} ~> state[e] # "ESTABLISHED"
=============================================================================
