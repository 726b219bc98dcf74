--------------------------- MODULE SimOpen_proofs ---------------------------
(***************************************************************************)
(* simultaneous_open.c, for any number of rounds and data packets.         *)
(***************************************************************************)
EXTENDS SimOpen, TLAPS

Called(e) == call[e] # "uncalled"
Ok(e) == call[e] \in {"open", "closed"}

\* A connecting end that calls an accepting one.
Unequal(e) == role[e] = "connect" /\ role[Peer(e)] = "accept"

\* The packets that may be on their way to e.  An accepting end sends nothing before
\* its call has returned 0, or is about to, and it never sends a SYNC; a connecting end
\* sends its peer SYNCs of its own token, and anything else only to one that has
\* returned.
Allowed(e) ==
  {p \in Packet :
     /\ Called(e) /\ Called(Peer(e))
     /\ role[Peer(e)] = "accept" => role[e] = "connect" /\ Ok(Peer(e)) /\ p.type # "SYNC"
     /\ Unequal(Peer(e)) =>
          /\ p.type # "SYNC_ACK"
          /\ p.type = "SYNC" => p.token = Peer(e)
          /\ p.type # "SYNC" => Ok(e)}

WiresOK == \A e \in Ends : wire[e] \in Seq(Allowed(e))

\* How far the two calls have come.
Calls ==
  \A e \in Ends :
    /\ link[e] # "none" => Called(e)
    /\ state[e] = "ESTABLISHED" => call[e] = "open"
    /\ call[e] = "opening" => role[e] = "connect"
    /\ call[e] = "trying" /\ role[e] = "accept" => state[e] = "SYNCING"
    /\ Ok(e) => /\ Called(Peer(e))
                /\ role[e] = "accept" => role[Peer(e)] = "connect"
                /\ Unequal(e) => Ok(Peer(e))

Agreed ==
  \A e \in Ends :
    Unequal(e) => /\ call[e] \in {"opening", "trying", "open"} => sync_token[e] = e
                  /\ call[Peer(e)] = "open" => sync_token[Peer(e)] = e

\* The inductive invariant.
Inv ==
  /\ TypeOK
  /\ WiresOK
  /\ Calls
  /\ Agreed

----------------------------------------------------------------------------
LEMMA PeerOfPeer ==
  /\ \A e \in Ends : Peer(e) \in Ends /\ Peer(e) # e /\ Peer(Peer(e)) = e
  /\ \A e, f \in Ends : f = e \/ f = Peer(e)
BY EndsAssumption DEF Ends, Peer

LEMMA SubsetSeq ==
  ASSUME NEW S, NEW T, S \subseteq T, NEW s \in Seq(S)
  PROVE  s \in Seq(T)
BY SMT

LEMMA PartSeq ==
  ASSUME NEW S, NEW s \in Seq(S), NEW n \in 1 .. Len(s) + 1, NEW m \in 0 .. Len(s)
  PROVE  SubSeq(s, n, m) \in Seq(S)
BY SMT

LEMMA ConcatSeq ==
  ASSUME NEW S, NEW s \in Seq(S), NEW t \in Seq(S)
  PROVE  s \o t \in Seq(S)
BY SMT

LEMMA EmptySeq ==
  ASSUME NEW S
  PROVE  << >> \in Seq(S)
BY SMT

LEMMA SingleSeq ==
  ASSUME NEW S, NEW x \in S
  PROVE  <<x>> \in Seq(S)
BY SMT

LEMMA HeadIn ==
  ASSUME NEW S, NEW s \in Seq(S), s # << >>
  PROVE  Head(s) \in S
BY SMT

\* What may be on its way stays allowed as calls go on.
LEMMA AllowedGrows ==
  ASSUME NEW e \in Ends, role' = role,
         \A f \in Ends : Called(f) => Called(f)',
         \A f \in Ends : Ok(f) => Ok(f)'
  PROVE  Allowed(e) \subseteq Allowed(e)'
BY PeerOfPeer DEF Allowed, Unequal

\* The wires after a step that reads and sends.
LEMMA CarryAllowed ==
  ASSUME NEW e \in Ends, NEW rest, NEW out, NEW S, NEW T,
         wire \in [Ends -> Seq(Packet)],
         rest \in Seq(S), wire[Peer(e)] \in Seq(T), Delivers(e) => out \in Seq(T)
  PROVE  /\ DOMAIN Carry(e, rest, out) = Ends
         /\ Carry(e, rest, out)[e] \in Seq(S)
         /\ Carry(e, rest, out)[Peer(e)] \in Seq(T)
<1>1. Peer(e) \in Ends /\ Peer(e) # e
  BY PeerOfPeer
<1>2. CASE Delivers(e)
  <2>1. wire[Peer(e)] \o out \in Seq(T)
    BY <1>2, ConcatSeq
  <2>2. Carry(e, rest, out) = [wire EXCEPT ![e] = rest, ![Peer(e)] = wire[Peer(e)] \o out]
    BY <1>1, <1>2 DEF Carry
  <2> HIDE DEF Peer
  <2> QED
    BY <1>1, <2>1, <2>2
<1>3. CASE ~Delivers(e)
  <2>1. Carry(e, rest, out) = [wire EXCEPT ![e] = rest, ![Peer(e)] = wire[Peer(e)]]
    BY <1>1, <1>3 DEF Carry
  <2> QED
    BY <1>1, <2>1
<1> QED
  BY <1>2, <1>3

LEMMA CloseAllowed ==
  ASSUME NEW e \in Ends, NEW rest, NEW out, NEW T,
         wire \in [Ends -> Seq(Packet)], gone \in [Ends -> {"no", "fin", "rst"}],
         wire[Peer(e)] \in Seq(T), Delivers(e) => out \in Seq(T),
         CloseSocket(e, rest, out)
  PROVE  /\ wire' = [f \in Ends |-> wire'[f]]
         /\ wire'[e] = << >>
         /\ wire'[Peer(e)] \in Seq(T)
         /\ gone' \in [Ends -> {"no", "fin", "rst"}]
         /\ link' = [link EXCEPT ![e] = "closed"]
<1>1. Peer(e) \in Ends /\ Peer(e) # e
  BY PeerOfPeer
<1> DEFINE w == Carry(e, << >>, out)
           left == w[Peer(e)]
<1>2. DOMAIN w = Ends /\ w[e] \in Seq({}) /\ left \in Seq(T)
  BY CarryAllowed, EmptySeq
<1>3. w[e] = << >> /\ w = [f \in Ends |-> w[f]]
  BY <1>1, <1>2 DEF Carry
<1> HIDE DEF w
<1>4. CASE rest = << >> \/ ~Delivers(e)
  <2>1. wire' = w /\ gone' \in {gone, [gone EXCEPT ![Peer(e)] = "fin"]}
    BY <1>4 DEF CloseSocket, w
  <2> QED
    BY <1>1, <1>2, <1>3, <2>1 DEF CloseSocket
<1>5. CASE ~(rest = << >> \/ ~Delivers(e))
  <2>1. PICK n \in 0 .. Len(left) :
          wire' = [wire EXCEPT ![e] = << >>, ![Peer(e)] = SubSeq(left, 1, n)]
    BY <1>5 DEF CloseSocket, w
  <2>2. gone' = [gone EXCEPT ![Peer(e)] = "rst"]
    BY <1>5 DEF CloseSocket
  <2>3. SubSeq(left, 1, n) \in Seq(T)
    BY <1>2, PartSeq
  <2> HIDE DEF left
  <2> QED
    BY <1>1, <2>1, <2>2, <2>3 DEF CloseSocket
<1> QED
  BY <1>4, <1>5

----------------------------------------------------------------------------
(* Steps preserve the invariant. *)
\* No call is taken back: roles stay and calls go on.
Onward ==
  /\ role' = role
  /\ \A f \in Ends : Called(f) => Called(f)'
  /\ \A f \in Ends : Ok(f) => Ok(f)'

LEMMA WiresKept ==
  ASSUME Onward, WiresOK, wire' = wire
  PROVE  WiresOK'
<1> SUFFICES ASSUME NEW e \in Ends PROVE wire[e] \in Seq(Allowed(e)')
  BY DEF WiresOK
<1>1. Allowed(e) \subseteq Allowed(e)'
  BY AllowedGrows DEF Onward
<1> QED
  BY <1>1, SubsetSeq DEF WiresOK

LEMMA WiresCarried ==
  ASSUME NEW e \in Ends, NEW rest \in Seq(Allowed(e)), NEW out,
         Onward, WiresOK, wire \in [Ends -> Seq(Packet)],
         Delivers(e) => out \in Seq(Allowed(Peer(e))'),
         wire' = Carry(e, rest, out)
  PROVE  WiresOK' /\ wire' \in [Ends -> Seq(Packet)]
<1>1. Peer(e) \in Ends /\ Peer(e) # e /\ \A f \in Ends : f = e \/ f = Peer(e)
  BY PeerOfPeer
<1>2. rest \in Seq(Allowed(e)')
  BY AllowedGrows, SubsetSeq DEF Onward
<1>3. wire[Peer(e)] \in Seq(Allowed(Peer(e))')
  BY <1>1, AllowedGrows, SubsetSeq DEF Onward, WiresOK
<1>4. /\ DOMAIN wire' = Ends
      /\ wire'[e] \in Seq(Allowed(e)')
      /\ wire'[Peer(e)] \in Seq(Allowed(Peer(e))')
  BY <1>2, <1>3, CarryAllowed
<1>5. WiresOK'
  BY <1>1, <1>4 DEF WiresOK
<1>6. \A f \in Ends : Allowed(f)' \subseteq Packet
  BY DEF Allowed, Packet, Tokens
<1>7. \A f \in Ends : wire'[f] \in Seq(Packet)
  BY <1>1, <1>4, <1>6, SubsetSeq
<1>8. wire' = [f \in Ends |-> wire'[f]]
  BY <1>1, <1>4 DEF Carry
<1> QED
  BY <1>5, <1>7, <1>8

LEMMA WiresClosed ==
  ASSUME NEW e \in Ends, NEW rest, NEW out,
         Onward, WiresOK, TypeOK,
         Delivers(e) => out \in Seq(Allowed(Peer(e))'),
         CloseSocket(e, rest, out)
  PROVE  /\ WiresOK' /\ wire' \in [Ends -> Seq(Packet)]
         /\ gone' \in [Ends -> {"no", "fin", "rst"}]
         /\ link' = [link EXCEPT ![e] = "closed"]
<1>1. Peer(e) \in Ends /\ Peer(e) # e /\ \A f \in Ends : f = e \/ f = Peer(e)
  BY PeerOfPeer
<1>2. wire[Peer(e)] \in Seq(Allowed(Peer(e))')
  BY <1>1, AllowedGrows, SubsetSeq DEF Onward, WiresOK
<1>3. wire \in [Ends -> Seq(Packet)] /\ gone \in [Ends -> {"no", "fin", "rst"}]
  BY DEF TypeOK
<1>4. /\ wire' = [f \in Ends |-> wire'[f]]
      /\ wire'[e] = << >>
      /\ wire'[Peer(e)] \in Seq(Allowed(Peer(e))')
      /\ gone' \in [Ends -> {"no", "fin", "rst"}]
      /\ link' = [link EXCEPT ![e] = "closed"]
  BY <1>2, <1>3, CloseAllowed
<1>5. WiresOK'
  BY <1>1, <1>4, EmptySeq DEF WiresOK
<1>6. \A f \in Ends : Allowed(f)' \subseteq Packet
  BY DEF Allowed, Packet, Tokens
<1>7. \A f \in Ends : wire'[f] \in Seq(Packet)
  BY <1>1, <1>4, <1>6, SubsetSeq, EmptySeq
<1> QED
  BY <1>4, <1>5, <1>7

----------------------------------------------------------------------------
(* What simultaneous_open_process_packet makes of a packet. *)

Sessions == {"IDLE", "SYNCING", "ESTABLISHED"}

\* What an end may answer, its own call having returned 0 by then.
Answer(e) ==
  {q \in Packet :
     /\ role[e] = "accept" => q.type # "SYNC"
     /\ Unequal(e) => q.type \notin {"SYNC", "SYNC_ACK"} /\ Ok(Peer(e))}

LEMMA PktType ==
  ASSUME NEW type \in {"SYNC", "SYNC_ACK", "SYNC_CONFIRM", "DATA", "CLOSE"}, NEW token \in Tokens
  PROVE  /\ Pkt(type, token) \in Packet
         /\ Pkt(type, token).type = type
         /\ Pkt(type, token).token = token
BY DEF Pkt, Packet

\* The first packet of the wire, answered by an end in a call or a session.
LEMMA Replies ==
  ASSUME Inv, NEW e \in Ends, NEW p \in Allowed(e)
  PROVE  LET r == Process(e, p, state[e])
         IN  /\ r.state \in Sessions /\ r.token \in Tokens
             /\ r.out \in Seq(Answer(e))
             /\ role[e] = "accept" => role[Peer(e)] = "connect"
             /\ role[e] = "accept" /\ state[e] = "SYNCING" /\ ~Ok(e) => r.state = "ESTABLISHED"
             /\ Called(Peer(e))
             /\ Unequal(e) => Ok(Peer(e)) /\ r.token = sync_token[e]
             /\ Unequal(Peer(e)) => IF Ok(e) THEN r.token \in {sync_token[e], Peer(e)}
                                            ELSE r.token = Peer(e)
<1> DEFINE r == Process(e, p, state[e])
<1> SUFFICES
      /\ r.state \in Sessions /\ r.token \in Tokens
      /\ r.out \in Seq(Answer(e))
      /\ role[e] = "accept" => role[Peer(e)] = "connect"
      /\ role[e] = "accept" /\ state[e] = "SYNCING" /\ ~Ok(e) => r.state = "ESTABLISHED"
      /\ Called(Peer(e))
      /\ Unequal(e) => Ok(Peer(e)) /\ r.token = sync_token[e]
      /\ Unequal(Peer(e)) => IF Ok(e) THEN r.token \in {sync_token[e], Peer(e)}
                                     ELSE r.token = Peer(e)
  OBVIOUS
<1>1. Peer(e) \in Ends /\ Peer(e) # e /\ Peer(Peer(e)) = e
  BY PeerOfPeer
<1>2. /\ state[e] \in Sessions /\ sync_token[e] \in Tokens
      /\ role[e] \in {"connect", "accept"} /\ role[Peer(e)] \in {"connect", "accept"}
  BY <1>1 DEF Inv, TypeOK, Sessions
<1>3. /\ p \in Packet /\ Called(Peer(e))
      /\ role[Peer(e)] = "accept" => role[e] = "connect" /\ Ok(Peer(e)) /\ p.type # "SYNC"
      /\ Unequal(Peer(e)) =>
           /\ p.type # "SYNC_ACK"
           /\ p.type = "SYNC" => p.token = Peer(e)
           /\ p.type # "SYNC" => Ok(e)
  BY DEF Allowed
<1>4. /\ p.token \in Tokens
      /\ p.type \in {"SYNC", "SYNC_ACK", "SYNC_CONFIRM", "DATA", "CLOSE"}
  BY <1>3 DEF Packet
<1>5. role[e] = "accept" => role[Peer(e)] = "connect"
  BY <1>2, <1>3
<1>6. Unequal(e) => Ok(Peer(e)) /\ p.type # "SYNC"
  BY <1>3 DEF Unequal
<1>7. Unequal(Peer(e)) <=> role[e] = "accept"
  BY <1>1, <1>2, <1>5 DEF Unequal
<1>8. << >> \in Seq(Answer(e))
  BY EmptySeq
<1>9. CASE p.type = "SYNC"
  <2>1. /\ r.state = IF state[e] = "SYNCING" THEN "ESTABLISHED" ELSE state[e]
        /\ r.token = p.token
        /\ r.out = <<Pkt("SYNC_ACK", p.token)>>
    BY <1>9 DEF Process
  <2>2. Pkt("SYNC_ACK", p.token) \in Answer(e)
    BY <1>4, <1>6, <1>9, PktType DEF Answer
  <2>3. r.out \in Seq(Answer(e))
    BY <2>1, <2>2, SingleSeq
  <2> HIDE DEF r
  <2> QED
    BY <1>1, <1>2, <1>3, <1>4, <1>5, <1>6, <1>7, <1>9, <2>1, <2>3 DEF Sessions
<1>10. CASE p.type = "SYNC_ACK" /\ sync_token[e] = p.token
  <2>1. /\ r.state = "ESTABLISHED"
        /\ r.token = sync_token[e]
        /\ r.out = <<Pkt("SYNC_CONFIRM", sync_token[e])>>
    BY <1>10 DEF Process
  <2>2. Pkt("SYNC_CONFIRM", sync_token[e]) \in Answer(e)
    BY <1>2, <1>6, PktType DEF Answer
  <2>3. r.out \in Seq(Answer(e))
    BY <2>1, <2>2, SingleSeq
  <2> HIDE DEF r
  <2> QED
    BY <1>1, <1>2, <1>3, <1>4, <1>5, <1>6, <1>7, <1>10, <2>1, <2>3 DEF Sessions
<1>11. CASE p.type = "SYNC_CONFIRM"
  <2>1. /\ r.state = IF state[e] = "SYNCING" THEN "ESTABLISHED" ELSE state[e]
        /\ r.token = sync_token[e]
        /\ r.out = << >>
    BY <1>11 DEF Process
  <2> HIDE DEF r
  <2> QED
    BY <1>1, <1>2, <1>3, <1>4, <1>5, <1>6, <1>7, <1>8, <1>11, <2>1 DEF Sessions
<1>12. CASE p.type = "CLOSE"
  <2>1. r.state = "IDLE" /\ r.token = sync_token[e] /\ r.out = << >>
    BY <1>12 DEF Process
  <2> HIDE DEF r
  <2> QED
    BY <1>1, <1>2, <1>3, <1>4, <1>5, <1>6, <1>7, <1>8, <1>12, <2>1 DEF Sessions
<1>13. CASE p.type = "DATA" \/ (p.type = "SYNC_ACK" /\ sync_token[e] # p.token)
  <2>1. r.state = state[e] /\ r.token = sync_token[e] /\ r.out = << >>
    BY <1>13 DEF Process
  <2> HIDE DEF r
  <2> QED
    BY <1>1, <1>2, <1>3, <1>4, <1>5, <1>6, <1>7, <1>8, <1>13, <2>1 DEF Sessions
<1> QED
  BY <1>4, <1>9, <1>10, <1>11, <1>12, <1>13

LEMMA AnswerAllowed ==
  ASSUME NEW e \in Ends, Onward, Called(e), Called(Peer(e)),
         role[e] = "accept" => role[Peer(e)] = "connect" /\ Ok(e)'
  PROVE  Answer(e) \subseteq Allowed(Peer(e))'
<1>1. Peer(e) \in Ends /\ Peer(Peer(e)) = e
  BY PeerOfPeer
<1>2. SUFFICES ASSUME NEW q \in Answer(e) PROVE q \in Allowed(Peer(e))'
  OBVIOUS
<1>3. role' = role /\ Called(e)' /\ Called(Peer(e))' /\ (Ok(Peer(e)) => Ok(Peer(e))')
  BY <1>1 DEF Onward
<1>4. Unequal(Peer(Peer(e)))' => Unequal(e)
  BY <1>1, <1>3 DEF Unequal
<1> QED
  BY <1>1, <1>3, <1>4 DEF Answer, Allowed

\* The first packet and what is left of the wire after a recv.
LEMMA Parts ==
  ASSUME Inv, NEW e \in Ends, wire[e] # << >>, NEW k \in 1 .. Len(wire[e])
  PROVE  /\ Head(wire[e]) \in Allowed(e)
         /\ SubSeq(wire[e], k + 1, Len(wire[e])) \in Seq(Allowed(e))
<1>1. wire[e] \in Seq(Allowed(e)) /\ Len(wire[e]) \in Nat
  BY DEF Inv, WiresOK
<1>2. k + 1 \in 1 .. Len(wire[e]) + 1 /\ Len(wire[e]) \in 0 .. Len(wire[e])
  BY <1>1
<1> QED
  BY <1>1, <1>2, PartSeq, HeadIn

----------------------------------------------------------------------------
LEMMA InitInv == Init => Inv
<1> SUFFICES ASSUME Init PROVE Inv
  OBVIOUS
<1>1. TypeOK
  BY EmptySeq, TriesAssumption, DataAssumption DEF Init, TypeOK, Tokens
<1>2. WiresOK
  BY EmptySeq DEF Init, WiresOK
<1>3. Calls /\ Agreed
  BY PeerOfPeer DEF Init, Calls, Agreed, Ok, Called
<1> QED
  BY <1>1, <1>2, <1>3 DEF Inv

\* A step of one end that sends nothing and leaves its call's outcome open.
LEMMA LinkSteps ==
  ASSUME Inv, LinkUp \/ \E e \in Ends : LinkRefused(e)
  PROVE  Inv'
<1>1. /\ UNCHANGED <<role, call, tries, state, sync_token, gone, wire, sent>>
      /\ link' \in [Ends -> {"none", "connecting", "up", "refused", "closed"}]
      /\ \A f \in Ends : link'[f] # "none" => link[f] # "none"
  <2>1. link \in [Ends -> {"none", "connecting", "up", "refused", "closed"}]
    BY DEF Inv, TypeOK
  <2>2. CASE LinkUp
    BY <2>2 DEF LinkUp, session
  <2>3. ASSUME NEW e \in Ends, LinkRefused(e)
        PROVE  /\ UNCHANGED <<role, call, tries, state, sync_token, gone, wire, sent>>
               /\ link' = [link EXCEPT ![e] = "refused"] /\ link[e] = "connecting"
    BY <2>3 DEF LinkRefused, session
  <2> QED
    BY <2>1, <2>2, <2>3
<1>2. Onward
  BY <1>1 DEF Onward, Called, Ok
<1>3. WiresOK'
  BY <1>1, <1>2, WiresKept DEF Inv
<1>4. TypeOK'
  BY <1>1 DEF Inv, TypeOK
<1>5. Calls' /\ Agreed'
  BY <1>1 DEF Inv, Calls, Agreed, Called, Ok, Unequal
<1> QED
  BY <1>3, <1>4, <1>5 DEF Inv

LEMMA StartSteps ==
  ASSUME Inv, NEW e \in Ends, Start(e) \/ StartFails(e)
  PROVE  Inv'
<1>1. Peer(e) \in Ends /\ Peer(e) # e /\ Peer(Peer(e)) = e /\ e \in Tokens
  BY PeerOfPeer DEF Tokens
<1>2. \A f \in Ends : f = e \/ f = Peer(e)
  BY PeerOfPeer
<1>3. /\ role' = role /\ wire' = wire /\ gone' = gone /\ tries' = tries /\ sent' = sent
      /\ call[e] = "uncalled"
      /\ \E c \in {"opening", "trying", "failed"} : call' = [call EXCEPT ![e] = c]
  BY DEF Start, StartFails, network
<1>4. Onward
  BY <1>3 DEF Onward, Called, Ok, Inv, TypeOK
<1>5. WiresOK'
  BY <1>3, <1>4, WiresKept DEF Inv
<1>6. TypeOK'
  BY <1>1, <1>3 DEF Inv, TypeOK, Start, StartFails, network
<1>7. Calls'
  <2>1. CASE Start(e)
    BY <1>1, <1>2, <2>1 DEF Inv, TypeOK, Calls, Called, Ok, Unequal, Start
  <2>2. CASE StartFails(e)
    BY <1>1, <1>2, <2>2 DEF Inv, TypeOK, Calls, Called, Ok, Unequal, StartFails, network
  <2> QED
    BY <2>1, <2>2
<1>8. Agreed'
  <2>1. CASE Start(e)
    BY <1>1, <1>2, <2>1 DEF Inv, TypeOK, Agreed, Unequal, Start
  <2>2. CASE StartFails(e)
    BY <1>1, <1>2, <2>2 DEF Inv, TypeOK, Agreed, Unequal, StartFails
  <2> QED
    BY <2>1, <2>2
<1> QED
  BY <1>5, <1>6, <1>7, <1>8 DEF Inv

LEMMA SyncAllowed ==
  ASSUME NEW e \in Ends, NEW tok \in Tokens, Onward, Called(e), Called(Peer(e)),
         role[e] = "connect", Unequal(e) => tok = e
  PROVE  Pkt("SYNC", tok) \in Allowed(Peer(e))'
<1>1. Peer(e) \in Ends /\ Peer(Peer(e)) = e
  BY PeerOfPeer
<1>2. role' = role /\ Called(e)' /\ Called(Peer(e))'
  BY <1>1 DEF Onward
<1>3. Unequal(Peer(Peer(e)))' => Unequal(e)
  BY <1>1, <1>2 DEF Unequal
<1>4. Pkt("SYNC", tok) \in Packet /\ Pkt("SYNC", tok).type = "SYNC" /\ Pkt("SYNC", tok).token = tok
  BY PktType
<1> QED
  BY <1>1, <1>2, <1>3, <1>4 DEF Allowed

\* Both ends of a connection that carries packets have been called.
LEMMA DeliveredTo ==
  ASSUME Inv, NEW e \in Ends, Delivers(e)
  PROVE  Called(e) /\ Called(Peer(e))
BY PeerOfPeer DEF Inv, Calls, Delivers

LEMMA FirstSyncStep ==
  ASSUME Inv, NEW e \in Ends, FirstSync(e)
  PROVE  Inv'
<1>1. Peer(e) \in Ends /\ Peer(e) # e /\ Peer(Peer(e)) = e
  BY PeerOfPeer
<1>2. /\ UNCHANGED <<role, tries, state, sync_token, link, gone, sent>>
      /\ call[e] = "opening" /\ call' = [call EXCEPT ![e] = "trying"]
      /\ wire' = Carry(e, wire[e], <<Pkt("SYNC", sync_token[e])>>)
  BY DEF FirstSync, session
<1>3. Onward
  BY <1>2 DEF Onward, Called, Ok, Inv, TypeOK
<1>4. role[e] = "connect" /\ sync_token[e] \in Tokens /\ (Unequal(e) => sync_token[e] = e)
  BY <1>2 DEF Inv, TypeOK, Calls, Agreed
<1>5. Delivers(e) => <<Pkt("SYNC", sync_token[e])>> \in Seq(Allowed(Peer(e))')
  BY <1>3, <1>4, DeliveredTo, SyncAllowed, SingleSeq
<1>6. WiresOK' /\ wire' \in [Ends -> Seq(Packet)]
  <2>1. wire[e] \in Seq(Allowed(e)) /\ wire \in [Ends -> Seq(Packet)] /\ WiresOK
    BY DEF Inv, WiresOK, TypeOK
  <2> QED
    BY <1>2, <1>3, <1>5, <2>1, WiresCarried
<1>7. TypeOK'
  BY <1>2, <1>6 DEF Inv, TypeOK
<1>8. Calls' /\ Agreed'
  BY <1>1, <1>2, <1>4 DEF Inv, TypeOK, Calls, Agreed, Called, Ok, Unequal
<1> QED
  BY <1>6, <1>7, <1>8 DEF Inv

LEMMA SendStep ==
  ASSUME Inv, NEW e \in Ends, Send(e)
  PROVE  Inv'
<1>1. Peer(e) \in Ends /\ Peer(e) # e /\ Peer(Peer(e)) = e
  BY PeerOfPeer
<1>2. /\ UNCHANGED <<role, call, tries, state, sync_token, link, gone>>
      /\ call[e] = "open"
      /\ wire' = Carry(e, wire[e], <<Pkt("DATA", sync_token[e])>>)
  BY DEF Send, session
<1>3. Onward
  BY <1>2 DEF Onward, Called, Ok
<1>4. Pkt("DATA", sync_token[e]) \in Answer(e)
  <2>1. sync_token[e] \in Tokens
    BY DEF Inv, TypeOK
  <2>2. Unequal(e) => Ok(Peer(e))
    BY <1>2 DEF Inv, Calls, Ok
  <2> QED
    BY <2>1, <2>2, PktType DEF Answer
<1>5. Delivers(e) => <<Pkt("DATA", sync_token[e])>> \in Seq(Allowed(Peer(e))')
  <2>1. role[e] = "accept" => role[Peer(e)] = "connect" /\ Ok(e)'
    BY <1>2 DEF Inv, Calls, Ok
  <2> QED
    BY <1>3, <1>4, <2>1, DeliveredTo, AnswerAllowed, SingleSeq
<1>6. WiresOK' /\ wire' \in [Ends -> Seq(Packet)]
  <2>1. wire[e] \in Seq(Allowed(e)) /\ wire \in [Ends -> Seq(Packet)] /\ WiresOK
    BY DEF Inv, WiresOK, TypeOK
  <2> QED
    BY <1>2, <1>3, <1>5, <2>1, WiresCarried
<1>7. TypeOK'
  <2>1. sent' \in [Ends -> 0 .. MaxData]
    BY DataAssumption DEF Inv, TypeOK, Send
  <2> QED
    BY <1>2, <1>6, <2>1 DEF Inv, TypeOK
<1>8. Calls' /\ Agreed'
  BY <1>1, <1>2 DEF Inv, TypeOK, Calls, Agreed, Called, Ok, Unequal
<1> QED
  BY <1>6, <1>7, <1>8 DEF Inv

\* The two ways simultaneous_open_recv finds the connection broken.
LEMMA RecvGoneSteps ==
  ASSUME Inv, NEW e \in Ends, RecvEnd(e) \/ RecvReset(e)
  PROVE  Inv'
<1>1. /\ UNCHANGED <<role, call, tries, sync_token, link, wire, sent>>
      /\ call[e] = "open"
      /\ state' \in {state, [state EXCEPT ![e] = "IDLE"]}
      /\ gone' \in {gone, [gone EXCEPT ![e] = "fin"]}
  BY DEF RecvEnd, RecvReset, session, network
<1>2. Onward
  BY <1>1 DEF Onward, Called, Ok
<1>3. WiresOK'
  BY <1>1, <1>2, WiresKept DEF Inv
<1>4. TypeOK'
  BY <1>1 DEF Inv, TypeOK
<1>5. Calls' /\ Agreed'
  BY <1>1 DEF Inv, TypeOK, Calls, Agreed, Called, Ok, Unequal
<1> QED
  BY <1>3, <1>4, <1>5 DEF Inv

\* simultaneous_open_close, and punch_close on the descriptor.
LEMMA CloseSteps ==
  ASSUME Inv, NEW e \in Ends, Close(e) \/ PunchClose(e)
  PROVE  Inv'
<1>1. Peer(e) \in Ends /\ Peer(e) # e /\ Peer(Peer(e)) = e
  BY PeerOfPeer
<1>2. /\ UNCHANGED <<role, tries, sync_token, sent>>
      /\ call[e] = "open" /\ call' = [call EXCEPT ![e] = "closed"]
      /\ state' = [state EXCEPT ![e] = "IDLE"]
  BY DEF Close, PunchClose
<1>3. PICK out \in {<<Pkt("CLOSE", sync_token[e])>>, << >>} : CloseSocket(e, wire[e], out)
  BY DEF Close, PunchClose
<1>4. Onward
  BY <1>2 DEF Onward, Called, Ok, Inv, TypeOK
<1>5. Pkt("CLOSE", sync_token[e]) \in Answer(e)
  <2>1. sync_token[e] \in Tokens
    BY DEF Inv, TypeOK
  <2>2. Unequal(e) => Ok(Peer(e))
    BY <1>2 DEF Inv, Calls, Ok
  <2> QED
    BY <2>1, <2>2, PktType DEF Answer
<1>6. Delivers(e) => out \in Seq(Allowed(Peer(e))')
  <2>1. Ok(e) /\ Ok(e)'
    BY <1>2 DEF Ok, Inv, TypeOK
  <2>2. role[e] = "accept" => role[Peer(e)] = "connect"
    BY <2>1 DEF Inv, Calls
  <2>3. Delivers(e) => Pkt("CLOSE", sync_token[e]) \in Allowed(Peer(e))'
    BY <1>4, <1>5, <2>1, <2>2, DeliveredTo, AnswerAllowed
  <2> QED
    BY <1>3, <2>3, SingleSeq, EmptySeq
<1>7. /\ WiresOK' /\ wire' \in [Ends -> Seq(Packet)]
      /\ gone' \in [Ends -> {"no", "fin", "rst"}]
      /\ link' = [link EXCEPT ![e] = "closed"]
  <2>1. TypeOK /\ WiresOK
    BY DEF Inv
  <2> QED
    BY <1>3, <1>4, <1>6, <2>1, WiresClosed
<1>8. TypeOK'
  BY <1>2, <1>7 DEF Inv, TypeOK
<1>9. Calls' /\ Agreed'
  BY <1>1, <1>2, <1>7 DEF Inv, TypeOK, Calls, Agreed, Called, Ok, Unequal
<1> QED
  BY <1>7, <1>8, <1>9 DEF Inv

LEMMA RecvPacketStep ==
  ASSUME Inv, NEW e \in Ends, RecvPacket(e)
  PROVE  Inv'
<1>1. Peer(e) \in Ends /\ Peer(e) # e /\ Peer(Peer(e)) = e
  BY PeerOfPeer
<1> DEFINE r == Process(e, Head(wire[e]), state[e])
<1>2. PICK k \in 1 .. Len(wire[e]) :
        wire' = Carry(e, SubSeq(wire[e], k + 1, Len(wire[e])), r.out)
  BY DEF RecvPacket
<1>3. /\ UNCHANGED <<role, call, tries, link, gone, sent>>
      /\ call[e] = "open" /\ wire[e] # << >>
      /\ sync_token' = [sync_token EXCEPT ![e] = r.token]
      /\ state' = [state EXCEPT ![e] = r.state]
  BY DEF RecvPacket
<1>4. /\ Head(wire[e]) \in Allowed(e)
      /\ SubSeq(wire[e], k + 1, Len(wire[e])) \in Seq(Allowed(e))
  BY <1>3, Parts
<1>5. /\ r.state \in Sessions /\ r.token \in Tokens
      /\ r.out \in Seq(Answer(e))
      /\ role[e] = "accept" => role[Peer(e)] = "connect"
      /\ Unequal(e) => r.token = sync_token[e]
      /\ Unequal(Peer(e)) => r.token \in {sync_token[e], Peer(e)}
  <2>1. Ok(e)
    BY <1>3 DEF Ok
  <2> QED
    BY <1>4, <2>1, Replies
<1> HIDE DEF r
<1>6. Onward
  BY <1>3 DEF Onward, Called, Ok
<1>7. Delivers(e) => r.out \in Seq(Allowed(Peer(e))')
  <2>1. Ok(e)'
    BY <1>3 DEF Ok
  <2> QED
    BY <1>5, <1>6, <2>1, DeliveredTo, AnswerAllowed, SubsetSeq
<1>8. WiresOK' /\ wire' \in [Ends -> Seq(Packet)]
  <2>1. wire \in [Ends -> Seq(Packet)] /\ WiresOK
    BY DEF Inv, TypeOK
  <2> QED
    BY <1>2, <1>4, <1>6, <1>7, <2>1, WiresCarried
<1>9. TypeOK'
  BY <1>3, <1>5, <1>8 DEF Inv, TypeOK, Sessions
<1>10. Calls'
  BY <1>3 DEF Inv, TypeOK, Calls, Called, Ok, Unequal
<1>11. Agreed'
  <2>1. Agreed /\ sync_token \in [Ends -> Tokens]
    BY DEF Inv, TypeOK
  <2>2. SUFFICES ASSUME NEW f \in Ends, Unequal(f)
                 PROVE  /\ call[f] \in {"opening", "trying", "open"} => sync_token'[f] = f
                        /\ call[Peer(f)] = "open" => sync_token'[Peer(f)] = f
    BY <1>3 DEF Agreed, Unequal
  <2>3. Peer(f) \in Ends /\ Peer(Peer(f)) = f /\ (f = e \/ f = Peer(e))
    BY PeerOfPeer
  <2>4. CASE f = e
    BY <1>1, <1>3, <1>5, <2>1, <2>2, <2>3, <2>4 DEF Agreed
  <2>5. CASE f = Peer(e)
    BY <1>1, <1>3, <1>5, <2>1, <2>2, <2>3, <2>5 DEF Agreed
  <2> QED
    BY <2>3, <2>4, <2>5
<1> QED
  BY <1>8, <1>9, <1>10, <1>11 DEF Inv

----------------------------------------------------------------------------
(* A round of the loop. *)

\* What simultaneous_open_wait_for_sync may leave behind in a call: an accepting end
\* that has answered is established, and an established end knows its peer called.
Waited(e, st, tok, out) ==
  /\ st \in Sessions /\ tok \in Tokens /\ out \in Seq(Answer(e))
  /\ st = "ESTABLISHED" =>
       /\ Called(Peer(e))
       /\ role[e] = "accept" => role[Peer(e)] = "connect"
       /\ Unequal(e) => Ok(Peer(e))
       /\ Unequal(Peer(e)) => tok = Peer(e)
  /\ st # "ESTABLISHED" /\ role[e] = "accept" => st = "SYNCING" /\ out = << >>
  /\ Unequal(e) => tok = sync_token[e]

LEMMA NothingWaited ==
  ASSUME Inv, NEW e \in Ends, call[e] = "trying"
  PROVE  Waited(e, state[e], sync_token[e], << >>) /\ state[e] # "ESTABLISHED"
<1>1. << >> \in Seq(Answer(e))
  BY EmptySeq
<1> QED
  BY <1>1 DEF Inv, TypeOK, Calls, Waited, Sessions

LEMMA PacketWaited ==
  ASSUME Inv, NEW e \in Ends, call[e] = "trying", NEW p \in Allowed(e)
  PROVE  LET r == Process(e, p, state[e])
         IN  Waited(e, r.state, r.token, r.out)
<1> DEFINE r == Process(e, p, state[e])
<1>1. ~Ok(e) /\ (role[e] = "accept" => state[e] = "SYNCING")
  BY DEF Ok, Inv, Calls
<1>2. /\ r.state \in Sessions /\ r.token \in Tokens
      /\ r.out \in Seq(Answer(e))
      /\ role[e] = "accept" => role[Peer(e)] = "connect"
      /\ role[e] = "accept" => r.state = "ESTABLISHED"
      /\ Called(Peer(e))
      /\ Unequal(e) => Ok(Peer(e)) /\ r.token = sync_token[e]
      /\ Unequal(Peer(e)) => r.token = Peer(e)
  BY <1>1, Replies
<1> QED
  BY <1>2 DEF Waited

\* The calls and their tokens after a round of e.
LEMMA RoundAgrees ==
  ASSUME Inv, NEW e \in Ends, NEW st, NEW tok, NEW out, NEW c, NEW s,
         Waited(e, st, tok, out), call[e] = "trying",
         \/ st = "ESTABLISHED" /\ c = "open" /\ s = st
         \/ st # "ESTABLISHED" /\ c = "trying" /\ s = st
         \/ st # "ESTABLISHED" /\ c = "failed" /\ s = "IDLE",
         call' = [call EXCEPT ![e] = c], state' = [state EXCEPT ![e] = s],
         sync_token' = [sync_token EXCEPT ![e] = tok], role' = role,
         link' \in {link, [link EXCEPT ![e] = "closed"]}
  PROVE  Calls' /\ Agreed' /\ Onward
<1>1. Peer(e) \in Ends /\ Peer(e) # e /\ Peer(Peer(e)) = e
  BY PeerOfPeer
<1>2. \A f \in Ends : f = e \/ f = Peer(e)
  BY PeerOfPeer
<1>3. /\ call \in [Ends -> {"uncalled", "opening", "trying", "open", "failed", "closed"}]
      /\ state \in [Ends -> Sessions] /\ sync_token \in [Ends -> Tokens]
      /\ link \in [Ends -> {"none", "connecting", "up", "refused", "closed"}]
      /\ role \in [Ends -> {"connect", "accept"}]
  BY DEF Inv, TypeOK, Sessions
<1>4. Onward
  BY <1>3 DEF Onward, Called, Ok
<1>5. Calls'
  BY <1>1, <1>2, <1>3 DEF Inv, Calls, Waited, Called, Ok, Unequal
<1>6. Agreed'
  BY <1>1, <1>2, <1>3 DEF Inv, Agreed, Waited, Unequal
<1> QED
  BY <1>4, <1>5, <1>6

\* Whatever the round has answered may be sent to a peer that has called.
LEMMA WaitedOut ==
  ASSUME Inv, NEW e \in Ends, NEW st, NEW tok, NEW out,
         Waited(e, st, tok, out), call[e] = "trying", Onward,
         st = "ESTABLISHED" => Ok(e)', Delivers(e)
  PROVE  out \in Seq(Allowed(Peer(e))')
<1>1. CASE out = << >>
  BY <1>1, EmptySeq
<1>2. CASE out # << >>
  <2>1. Called(e) /\ Called(Peer(e))
    BY DeliveredTo
  <2>2. role[e] = "accept" => role[Peer(e)] = "connect" /\ Ok(e)'
    BY <1>2 DEF Waited
  <2>3. Answer(e) \subseteq Allowed(Peer(e))'
    BY <2>1, <2>2, AnswerAllowed
  <2> QED
    BY <2>3, SubsetSeq DEF Waited
<1> QED
  BY <1>1, <1>2

LEMMA EndRoundStep ==
  ASSUME Inv, NEW e \in Ends, NEW st, NEW tok, NEW rest \in Seq(Allowed(e)), NEW out,
         Waited(e, st, tok, out), call[e] = "trying",
         EndRound(e, st, tok, rest, out), gone' \in [Ends -> {"no", "fin", "rst"}],
         sync_token' = [sync_token EXCEPT ![e] = tok], UNCHANGED <<role, sent>>
  PROVE  Inv'
<1>1. /\ TypeOK /\ WiresOK /\ wire \in [Ends -> Seq(Packet)]
      /\ call \in [Ends -> {"uncalled", "opening", "trying", "open", "failed", "closed"}]
      /\ tries \in [Ends -> 0 .. MaxTry - 1]
      /\ tok \in Tokens /\ st \in Sessions
  BY DEF Inv, TypeOK, Waited
<1>2. CASE st = "ESTABLISHED"
  <2>1. /\ state' = [state EXCEPT ![e] = st] /\ call' = [call EXCEPT ![e] = "open"]
        /\ wire' = Carry(e, rest, out) /\ UNCHANGED <<tries, link>>
    BY <1>2 DEF EndRound
  <2>2. Calls' /\ Agreed' /\ Onward
    BY <1>2, <2>1, RoundAgrees
  <2>3. Ok(e)'
    BY <1>1, <2>1 DEF Ok
  <2>4. WiresOK' /\ wire' \in [Ends -> Seq(Packet)]
    BY <1>1, <2>1, <2>2, <2>3, WaitedOut, WiresCarried
  <2>5. TypeOK'
    BY <1>1, <2>1, <2>4 DEF TypeOK, Sessions
  <2> QED
    BY <2>2, <2>4, <2>5 DEF Inv
<1>3. CASE st # "ESTABLISHED"
  <2>1. /\ state' = [state EXCEPT ![e] = st]
        /\ tries[e] < MaxTry - 1 /\ tries' = [tries EXCEPT ![e] = @ + 1]
        /\ wire' = Carry(e, rest, out \o Resent(e, tok)) /\ UNCHANGED <<call, link>>
    BY <1>3 DEF EndRound
  <2>2. call' = [call EXCEPT ![e] = "trying"]
    BY <1>1, <2>1
  <2>3. Calls' /\ Agreed' /\ Onward
    BY <1>3, <2>1, <2>2, RoundAgrees
  <2>4. ASSUME Delivers(e)
        PROVE  out \o Resent(e, tok) \in Seq(Allowed(Peer(e))')
    <3>1. out \in Seq(Allowed(Peer(e))')
      BY <1>3, <2>3, <2>4, WaitedOut
    <3>2. Resent(e, tok) \in Seq(Allowed(Peer(e))')
      <4>1. CASE role[e] = "connect"
        <5>1. Unequal(e) => tok = e
          BY DEF Waited, Inv, Agreed
        <5>2. Pkt("SYNC", tok) \in Allowed(Peer(e))'
          BY <1>1, <2>3, <2>4, <4>1, <5>1, DeliveredTo, SyncAllowed
        <5> QED
          BY <4>1, <5>2, SingleSeq DEF Resent
      <4>2. CASE role[e] # "connect"
        BY <4>2, EmptySeq DEF Resent
      <4> QED
        BY <4>1, <4>2
    <3> QED
      BY <3>1, <3>2, ConcatSeq
  <2>5. WiresOK' /\ wire' \in [Ends -> Seq(Packet)]
    BY <1>1, <2>1, <2>3, <2>4, WiresCarried
  <2>6. tries' \in [Ends -> 0 .. MaxTry - 1]
    BY <1>1, <2>1, TriesAssumption
  <2>7. TypeOK'
    BY <1>1, <2>1, <2>5, <2>6 DEF TypeOK, Sessions
  <2> QED
    BY <2>3, <2>5, <2>7 DEF Inv
<1> QED
  BY <1>2, <1>3

LEMMA GiveUpStep ==
  ASSUME Inv, NEW e \in Ends, NEW st, NEW tok, NEW rest, NEW out,
         Waited(e, st, tok, out), call[e] = "trying",
         GiveUp(e, st, rest, out),
         sync_token' = [sync_token EXCEPT ![e] = tok], UNCHANGED <<role, sent>>
  PROVE  Inv'
<1>1. TypeOK /\ WiresOK /\ tok \in Tokens
  BY DEF Inv, Waited
<1>2. /\ st # "ESTABLISHED"
      /\ state' = [state EXCEPT ![e] = "IDLE"] /\ call' = [call EXCEPT ![e] = "failed"]
      /\ CloseSocket(e, rest, out) /\ tries' = tries
  BY DEF GiveUp
<1>3. link' = [link EXCEPT ![e] = "closed"]
  BY <1>2 DEF CloseSocket
<1>4. Calls' /\ Agreed' /\ Onward
  BY <1>2, <1>3, RoundAgrees
<1>5. WiresOK' /\ wire' \in [Ends -> Seq(Packet)] /\ gone' \in [Ends -> {"no", "fin", "rst"}]
  BY <1>1, <1>2, <1>4, WaitedOut, WiresClosed
<1>6. TypeOK'
  BY <1>1, <1>2, <1>3, <1>5 DEF TypeOK
<1> QED
  BY <1>4, <1>5, <1>6 DEF Inv

LEMMA HeardStep ==
  ASSUME Inv, NEW e \in Ends, Heard(e)
  PROVE  Inv'
<1> DEFINE r == Process(e, Head(wire[e]), state[e])
           rest(k) == SubSeq(wire[e], k + 1, Len(wire[e]))
<1>1. call[e] = "trying" /\ wire[e] # << >> /\ UNCHANGED <<role, sent>>
  BY DEF Heard
<1>2. PICK k \in 1 .. Len(wire[e]) :
        /\ sync_token' = [sync_token EXCEPT ![e] = r.token]
        /\ \/ EndRound(e, r.state, r.token, rest(k), r.out) /\ UNCHANGED gone
           \/ GiveUp(e, r.state, rest(k), r.out)
  BY DEF Heard
<1>3. Head(wire[e]) \in Allowed(e) /\ rest(k) \in Seq(Allowed(e))
  BY <1>1, Parts
<1>4. Waited(e, r.state, r.token, r.out)
  BY <1>1, <1>3, PacketWaited
<1> HIDE DEF r, rest
<1>5. CASE EndRound(e, r.state, r.token, rest(k), r.out) /\ UNCHANGED gone
  <2>1. gone' \in [Ends -> {"no", "fin", "rst"}]
    BY <1>5 DEF Inv, TypeOK
  <2> QED
    BY <1>1, <1>2, <1>3, <1>4, <1>5, <2>1, EndRoundStep
<1>6. CASE GiveUp(e, r.state, rest(k), r.out)
  BY <1>1, <1>2, <1>4, <1>6, GiveUpStep
<1> QED
  BY <1>2, <1>5, <1>6

LEMMA HeardNothingStep ==
  ASSUME Inv, NEW e \in Ends, HeardNothing(e)
  PROVE  Inv'
<1>1. call[e] = "trying" /\ UNCHANGED <<role, sent>>
  BY DEF HeardNothing
<1>2. Waited(e, state[e], sync_token[e], << >>)
  BY <1>1, NothingWaited
<1>3. /\ sync_token' = [sync_token EXCEPT ![e] = sync_token[e]]
      /\ wire[e] \in Seq(Allowed(e))
  BY DEF HeardNothing, Inv, TypeOK, WiresOK
<1>4. CASE GiveUp(e, state[e], wire[e], << >>)
  BY <1>1, <1>2, <1>3, <1>4, GiveUpStep
<1>5. CASE ~GiveUp(e, state[e], wire[e], << >>)
  <2>1. EndRound(e, state[e], sync_token[e], wire[e], << >>)
    BY <1>5 DEF HeardNothing
  <2>2. gone' \in {gone, [gone EXCEPT ![e] = IF wire[e] = << >> /\ @ = "rst" THEN "fin" ELSE @]}
    BY <1>5 DEF HeardNothing
  <2>3. gone' \in [Ends -> {"no", "fin", "rst"}]
    <3> DEFINE g == IF wire[e] = << >> /\ gone[e] = "rst" THEN "fin" ELSE gone[e]
    <3>1. gone \in [Ends -> {"no", "fin", "rst"}] /\ g \in {"no", "fin", "rst"}
      BY DEF Inv, TypeOK
    <3>2. gone' \in {gone, [gone EXCEPT ![e] = g]}
      BY <2>2, <3>1
    <3> HIDE DEF g
    <3> QED
      BY <3>1, <3>2
  <2> QED
    BY <1>1, <1>2, <1>3, <2>1, <2>3, EndRoundStep
<1> QED
  BY <1>4, <1>5

----------------------------------------------------------------------------
LEMMA StepInv == Inv /\ [Next]_vars => Inv'
<1> SUFFICES ASSUME Inv, [Next]_vars PROVE Inv'
  OBVIOUS
<1>1. CASE LinkUp
  BY <1>1, LinkSteps
<1>2. ASSUME NEW e \in Ends, LinkRefused(e) PROVE Inv'
  BY <1>2, LinkSteps
<1>3. ASSUME NEW e \in Ends, Start(e) \/ StartFails(e) PROVE Inv'
  BY <1>3, StartSteps
<1>4. ASSUME NEW e \in Ends, FirstSync(e) PROVE Inv'
  BY <1>4, FirstSyncStep
<1>5. ASSUME NEW e \in Ends, Round(e) PROVE Inv'
  BY <1>5, HeardStep, HeardNothingStep DEF Round
<1>6. ASSUME NEW e \in Ends, Send(e) PROVE Inv'
  BY <1>6, SendStep
<1>7. ASSUME NEW e \in Ends, Recv(e) PROVE Inv'
  BY <1>7, RecvPacketStep, RecvGoneSteps DEF Recv
<1>8. ASSUME NEW e \in Ends, Close(e) \/ PunchClose(e) PROVE Inv'
  BY <1>8, CloseSteps
<1>9. CASE UNCHANGED vars
  BY <1>9 DEF vars, session, Inv, TypeOK, WiresOK, Allowed, Calls, Agreed, Called, Ok, Unequal
<1> QED
  BY <1>1, <1>2, <1>3, <1>4, <1>5, <1>6, <1>7, <1>8, <1>9 DEF Next

LEMMA Safe == Spec => []Inv
BY InitInv, StepInv, PTL DEF Spec

\* The rounds stay below SIM_OPEN_MAX_RETRY and every packet sent is one of the five.
THEOREM TypeCorrect == Spec => []TypeOK
<1>1. Inv => TypeOK
  BY DEF Inv
<1> QED
  BY <1>1, Safe, PTL

\* An established session of a connecting with an accepting end has one sync_token,
\* the connecting end's.
THEOREM OneToken == Spec => []TokensAgree
<1>1. Inv => TokensAgree
  BY PeerOfPeer DEF Inv, Calls, Agreed, Unequal, TokensAgree
<1> QED
  BY <1>1, Safe, PTL

----------------------------------------------------------------------------
(* The calls implement Rendezvous. *)

\* What a call that has come to c is to its caller.
Result(c) ==
  CASE c = "uncalled" -> "uncalled"
    [] c \in {"opening", "trying"} -> "pending"
    [] c \in {"open", "closed"} -> "ok"
    [] c = "failed" -> "failed"

LEMMA Outcomes ==
  ASSUME TypeOK, NEW e \in Ends
  PROVE  /\ outcome = [f \in Ends |-> outcome[f]]
         /\ outcome[e] = Result(call[e])
         /\ outcome[e] = "ok" <=> Ok(e)
         /\ outcome[e] = "uncalled" <=> ~Called(e)
<1>1. outcome = [f \in Ends |-> Result(call[f])]
  BY DEF outcome, Result
<1>2. outcome = [f \in Ends |-> outcome[f]] /\ outcome[e] = Result(call[e])
  BY <1>1
<1>3. call[e] \in {"uncalled", "opening", "trying", "open", "failed", "closed"}
  BY DEF TypeOK
<1> QED
  BY <1>2, <1>3 DEF Result, Ok, Called

LEMMA OutcomeNext ==
  ASSUME TypeOK, NEW e \in Ends, NEW c, call' = [call EXCEPT ![e] = c]
  PROVE  outcome' = [outcome EXCEPT ![e] = Result(c)]
<1>1. /\ outcome = [f \in Ends |-> Result(call[f])]
      /\ outcome' = [f \in Ends |-> Result(call'[f])]
  BY DEF outcome, Result
<1>2. \A f \in Ends : call'[f] = IF f = e THEN c ELSE call[f]
  BY DEF TypeOK
<1> QED
  BY <1>1, <1>2

LEMMA SamePeer == Meeting!Ends = Ends /\ \A e \in Ends : Meeting!Peer(e) = Peer(e)
BY DEF Meeting!Ends, Meeting!Peer, Ends, Peer

LEMMA CallStill == call' = call => outcome' = outcome
BY DEF outcome

\* A round ends as the abstract call does, or not at all.
LEMMA RoundMeets ==
  ASSUME Inv, NEW e \in Ends, Round(e)
  PROVE  Meeting!Succeed(e) \/ Meeting!Fail(e) \/ UNCHANGED <<role, outcome>>
<1>1. Peer(e) \in Ends /\ Meeting!Peer(e) = Peer(e) /\ TypeOK
  BY PeerOfPeer, SamePeer DEF Inv
<1>2. /\ role' = role /\ call[e] = "trying"
  BY DEF Round, Heard, HeardNothing
<1>3. outcome[e] = "pending"
  BY <1>1, <1>2, Outcomes DEF Result
<1>4. PICK st, tok, rest, out :
        /\ Waited(e, st, tok, out)
        /\ EndRound(e, st, tok, rest, out) \/ GiveUp(e, st, rest, out)
  <2>1. CASE Heard(e)
    <3> DEFINE r == Process(e, Head(wire[e]), state[e])
               rest(k) == SubSeq(wire[e], k + 1, Len(wire[e]))
    <3>1. wire[e] # << >>
      BY <2>1 DEF Heard
    <3>2. PICK k \in 1 .. Len(wire[e]) :
            EndRound(e, r.state, r.token, rest(k), r.out) \/ GiveUp(e, r.state, rest(k), r.out)
      BY <2>1 DEF Heard
    <3>3. Head(wire[e]) \in Allowed(e)
      BY <3>1, Parts
    <3>4. Waited(e, r.state, r.token, r.out)
      BY <1>2, <3>3, PacketWaited
    <3> HIDE DEF r, rest
    <3> QED
      BY <3>2, <3>4
  <2>2. CASE HeardNothing(e)
    <3>1. Waited(e, state[e], sync_token[e], << >>)
      BY <1>2, NothingWaited
    <3>2. \/ EndRound(e, state[e], sync_token[e], wire[e], << >>)
          \/ GiveUp(e, state[e], wire[e], << >>)
      BY <2>2 DEF HeardNothing
    <3> QED
      BY <3>1, <3>2
  <2> QED
    BY <2>1, <2>2 DEF Round
<1>5. CASE EndRound(e, st, tok, rest, out) /\ st = "ESTABLISHED"
  <2>1. call' = [call EXCEPT ![e] = "open"]
    BY <1>5 DEF EndRound
  <2>2. outcome' = [outcome EXCEPT ![e] = "ok"]
    BY <1>1, <2>1, OutcomeNext DEF Result
  <2>3. /\ outcome[Peer(e)] # "uncalled"
        /\ role[e] = "accept" => role[Peer(e)] = "connect"
        /\ Unequal(e) => outcome[Peer(e)] = "ok"
    BY <1>1, <1>4, <1>5, Outcomes DEF Waited
  <2> QED
    BY <1>1, <1>2, <1>3, <2>2, <2>3 DEF Meeting!Succeed, Unequal
<1>6. CASE EndRound(e, st, tok, rest, out) /\ st # "ESTABLISHED"
  <2>1. call' = call
    BY <1>6 DEF EndRound
  <2> QED
    BY <1>2, <2>1, CallStill
<1>7. CASE GiveUp(e, st, rest, out)
  <2>1. call' = [call EXCEPT ![e] = "failed"]
    BY <1>7 DEF GiveUp
  <2>2. outcome' = [outcome EXCEPT ![e] = "failed"]
    BY <1>1, <2>1, OutcomeNext DEF Result
  <2> QED
    BY <1>2, <1>3, <2>2 DEF Meeting!Fail
<1> QED
  BY <1>4, <1>5, <1>6, <1>7

\* The steps that begin a call, and those after its end, which its caller sees as none.
LEMMA OtherMeets ==
  ASSUME Inv, NEW e \in Ends,
         Start(e) \/ StartFails(e) \/ FirstSync(e) \/ Close(e) \/ PunchClose(e)
  PROVE  Meeting!Call(e) \/ Meeting!Fail(e) \/ UNCHANGED <<role, outcome>>
<1>1. TypeOK /\ role' = role
  BY DEF Inv, Start, StartFails, FirstSync, Close, PunchClose
<1>2. CASE Start(e)
  <2>1. PICK c \in {"opening", "trying"} : call' = [call EXCEPT ![e] = c]
    BY <1>2 DEF Start
  <2>2. call[e] = "uncalled"
    BY <1>2 DEF Start
  <2>3. outcome[e] = "uncalled" /\ outcome' = [outcome EXCEPT ![e] = "pending"]
    BY <1>1, <2>1, <2>2, Outcomes, OutcomeNext DEF Result
  <2> QED
    BY <1>1, <2>3 DEF Meeting!Call
<1>3. CASE StartFails(e)
  <2>1. call[e] = "uncalled" /\ call' = [call EXCEPT ![e] = "failed"]
    BY <1>3 DEF StartFails
  <2>2. outcome[e] = "uncalled" /\ outcome' = [outcome EXCEPT ![e] = "failed"]
    BY <1>1, <2>1, Outcomes, OutcomeNext DEF Result
  <2> QED
    BY <1>1, <2>2 DEF Meeting!Fail
<1>4. CASE FirstSync(e) \/ Close(e) \/ PunchClose(e)
  <2>1. PICK c : /\ call' = [call EXCEPT ![e] = c]
                 /\ \/ call[e] = "opening" /\ c = "trying"
                    \/ call[e] = "open" /\ c = "closed"
    BY <1>4 DEF FirstSync, Close, PunchClose
  <2>2. outcome' = [outcome EXCEPT ![e] = outcome[e]]
    BY <1>1, <2>1, Outcomes, OutcomeNext DEF Result
  <2>3. outcome' = outcome
    BY <1>1, <2>2, Outcomes
  <2> QED
    BY <1>1, <2>3
<1> QED
  BY <1>2, <1>3, <1>4

\* Two ends that call simultaneous_open_connect and simultaneous_open_accept get what
\* Rendezvous promises: a call succeeds only towards a peer that has called, two
\* accepting ends never meet, and a connecting end never succeeds before the accepting
\* one.
THEOREM CallsMeet == Spec => MeetingSpec
<1>1. Init => Meeting!Init
  <2> SUFFICES ASSUME Init PROVE Meeting!Init
    OBVIOUS
  <2>1. \A e \in Ends : Result(call[e]) = "uncalled"
    BY DEF Init, Result
  <2>2. outcome = [e \in Ends |-> Result(call[e])]
    BY DEF outcome, Result
  <2>3. outcome = [e \in Ends |-> "uncalled"]
    BY <2>1, <2>2
  <2> QED
    BY <2>3, SamePeer DEF Init, Meeting!Init
<1>2. Inv /\ [Next]_vars => [Meeting!Next]_<<role, outcome>>
  <2> SUFFICES ASSUME Inv, [Next]_vars
               PROVE  Meeting!Next \/ UNCHANGED <<role, outcome>>
    OBVIOUS
  <2>1. ASSUME NEW e \in Ends, Round(e)
        PROVE  Meeting!Next \/ UNCHANGED <<role, outcome>>
    BY <2>1, RoundMeets, SamePeer DEF Meeting!Next
  <2>2. ASSUME NEW e \in Ends,
               Start(e) \/ StartFails(e) \/ FirstSync(e) \/ Close(e) \/ PunchClose(e)
        PROVE  Meeting!Next \/ UNCHANGED <<role, outcome>>
    BY <2>2, OtherMeets, SamePeer DEF Meeting!Next
  <2>3. ASSUME NEW e \in Ends, LinkRefused(e) \/ Send(e) \/ Recv(e)
        PROVE  UNCHANGED <<role, outcome>>
    BY <2>3, CallStill DEF LinkRefused, Send, Recv, RecvPacket, RecvEnd, RecvReset
  <2>4. CASE LinkUp \/ UNCHANGED vars
    BY <2>4, CallStill DEF LinkUp, vars
  <2> QED
    BY <2>1, <2>2, <2>3, <2>4 DEF Next
<1> QED
  BY <1>1, <1>2, Safe, PTL DEF Spec, MeetingSpec, Meeting!Spec
=============================================================================
