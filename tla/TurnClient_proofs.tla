-------------------------- MODULE TurnClient_proofs --------------------------
(***************************************************************************)
(* The sessions of turn_client.c, for any number of callers, peers, slots  *)
(* and allocations.                                                        *)
(***************************************************************************)
EXTENDS TurnClient, TLAPS

\* The table is searched before a session is added, so a peer has one session.
OneSessionAPeer == \A i, j \in Live : sessions[i].peer = sessions[j].peer => i = j

\* Only turn_connect goes on after the answer.
EndsInConnect == \A t \in Callers : pc[t] \in {"succeeded", "failed"} => ~direct[t]

\* Where no disconnect has moved the table, the pointers of a call are the
\* session of its peer, and a call that has succeeded has an address there.
PointerGood(t) ==
    /\ pc[t] # "idle" /\ ~direct[t] =>
          mine[t] \in Live /\ sessions[mine[t]].peer = peer[t]
    /\ pc[t] \in {"select", "recv"} =>
          slot[t] \in Live /\ sessions[slot[t]].peer = peer[t]
    /\ pc[t] = "succeeded" => sessions[mine[t]].relay > 0
PointersGood == ~moved => \A t \in Callers : PointerGood(t)

Calls == OneSessionAPeer /\ EndsInConnect /\ PointersGood /\ EstablishedHasRelay

\* An allocation is in one place: in an answer under way or in one session.
GivenOnce ==
    duplicates = 0 =>
        /\ \A i, j \in Live : sessions[i].relay = sessions[j].relay => i = j \/ sessions[i].relay = 0
        /\ \A k \in 1 .. Len(inbox), i \in Live :
              inbox[k].relay = sessions[i].relay => inbox[k].relay = 0
        /\ \A k, l \in 1 .. Len(inbox) :
              inbox[k].relay = inbox[l].relay => k = l \/ inbox[k].relay = 0
        /\ \A k \in 1 .. Len(inbox) : inbox[k].relay <= allocated
        /\ \A i \in Live : sessions[i].relay <= allocated

Inv == TypeOK /\ Calls /\ GivenOnce

-----------------------------------------------------------------------------
(* Sequences and the table                                                 *)

\* What a datagram that arrives does to the receive buffer.
LEMMA Appended ==
  ASSUME inbox \in Seq(Datagram), NEW d \in Datagram, inbox' = Append(inbox, d)
  PROVE  /\ inbox' \in Seq(Datagram)
         /\ Len(inbox') = Len(inbox) + 1
         /\ \A k \in 1 .. Len(inbox) : inbox'[k] = inbox[k]
         /\ inbox'[Len(inbox) + 1] = d
OBVIOUS

\* What recvfrom does to it.
LEMMA TakenOff ==
  ASSUME inbox \in Seq(Datagram), Taken
  PROVE  /\ inbox' \in Seq(Datagram)
         /\ Len(inbox) \in Nat \ {0}
         /\ Len(inbox') = Len(inbox) - 1
         /\ \A k \in 1 .. Len(inbox') : inbox'[k] = inbox[k + 1]
         /\ Head(inbox) = inbox[1] /\ Head(inbox) \in Datagram
BY DEF Taken

\* The datagrams that arrive are datagrams.
LEMMA Datagrams ==
  /\ \A k \in {"ALLOCATED", "REFUSED", "REFRESHED", "DATA"} : Plain(k) \in Datagram /\ Plain(k).relay = 0
  /\ \A a \in Relays : [kind |-> "ALLOCATED", relay |-> a] \in Datagram
BY BoundsAssumption DEF Plain, Datagram, Relays

\* Live slots are slots, and slot 1 is one.
LEMMA LiveSlots == TypeOK => Live \subseteq Slots
BY SessionsAssumption DEF TypeOK, Live, Slots

LEMMA FirstSlot == 1 \in Slots
BY SessionsAssumption DEF Slots

\* A write of the state.
LEMMA StateWritten ==
  ASSUME TypeOK, NEW i \in Slots, NEW st \in States, SetState(i, st)
  PROVE  /\ sessions' \in [Slots -> Session]
         /\ count' = count
         /\ \A j \in Slots : /\ sessions'[j].peer = sessions[j].peer
                             /\ sessions'[j].relay = sessions[j].relay
                             /\ sessions'[j].state = IF j = i THEN st ELSE sessions[j].state
BY DEF TypeOK, SetState, Session

\* A session added.
LEMMA SessionAdded ==
  ASSUME TypeOK, NEW p \in Peers, NEW st \in States, Added(New(p, st))
  PROVE  /\ count + 1 \in Slots
         /\ sessions' \in [Slots -> Session]
         /\ count' = count + 1
         /\ Live' = Live \cup {count + 1} /\ count + 1 \notin Live
         /\ \A j \in Slots \ {count + 1} : sessions'[j] = sessions[j]
         /\ sessions'[count + 1] = New(p, st)
<1>1. count + 1 \in Slots
  BY SessionsAssumption DEF TypeOK, Added, Slots
<1>2. New(p, st) \in Session
  BY BoundsAssumption DEF New, Session, Relays
<1>3. sessions' = [sessions EXCEPT ![count + 1] = New(p, st)] /\ count' = count + 1
  BY DEF Added
<1>4. Live' = Live \cup {count + 1} /\ count + 1 \notin Live
  BY <1>3 DEF TypeOK, Live
<1> QED
  BY <1>1, <1>2, <1>3, <1>4 DEF TypeOK

\* A session removed.
LEMMA SessionRemoved ==
  ASSUME TypeOK, NEW p \in Peers, NEW t \in Callers, NEW i \in Slots, Found(i, p),
         count' = count - 1,
         sessions' = [j \in Slots |->
                        CASE i <= j /\ j < count -> sessions[j + 1]
                          [] j = count /\ i = count -> [sessions[j] EXCEPT !.state = "CLOSED"]
                          [] OTHER -> sessions[j]]
  PROVE  /\ sessions' \in [Slots -> Session]
         /\ count' \in 0 .. MaxSessions
         /\ \A j \in Live' : /\ j \in Slots
                             /\ j < i => j \in Live /\ sessions'[j] = sessions[j]
                             /\ j >= i => j + 1 \in Live /\ sessions'[j] = sessions[j + 1]
<1> USE DEF Found
<1>1. count' \in 0 .. MaxSessions
  BY SessionsAssumption DEF TypeOK, Live
<1>2. \A j \in Slots : [sessions[j] EXCEPT !.state = "CLOSED"] \in Session
  BY DEF TypeOK, Session, States
<1>3. \A j \in Slots : j < count => j + 1 \in Slots
  BY SessionsAssumption DEF TypeOK, Slots
<1>4. sessions' \in [Slots -> Session]
  BY <1>2, <1>3 DEF TypeOK
<1>5. ASSUME NEW j \in Live'
      PROVE  /\ j \in Slots
             /\ j < i => j \in Live /\ sessions'[j] = sessions[j]
             /\ j >= i => j + 1 \in Live /\ sessions'[j] = sessions[j + 1]
  <2>1. j \in Slots /\ j \in Nat /\ j < count /\ j \in Live /\ j + 1 \in Live
    BY <1>5, <1>1, SessionsAssumption DEF TypeOK, Live, Slots
  <2>2. i \in Nat
    BY DEF Slots
  <2> QED
    BY <2>1, <2>2
<1> QED
  BY <1>1, <1>4, <1>5

-----------------------------------------------------------------------------
(* The types                                                               *)

LEMMA InitInv == Init => Inv
<1> SUFFICES ASSUME Init PROVE Inv
  OBVIOUS
<1> USE BoundsAssumption, SessionsAssumption, FirstSlot DEF Init
<1>1. New(NoPeer, "IDLE") \in Session
  BY DEF New, Session, States, Relays
<1>2. inbox \in Seq(Datagram) /\ Len(inbox) = 0
  OBVIOUS
<1>3. \A t \in Callers : MaxCalls[t] \in Nat
  OBVIOUS
<1>4. Live = {}
  BY DEF Live
<1>5. TypeOK
  <2>1. sessions \in [Slots -> Session] /\ count \in 0 .. MaxSessions /\ allocated \in Relays
    BY <1>1 DEF Relays
  <2>2. calls \in [Callers -> Nat] /\ \A t \in Callers : calls[t] <= MaxCalls[t]
    BY <1>3
  <2>3. duplicates \in Nat /\ noise \in Nat /\ duplicates + noise <= MaxNoise
    OBVIOUS
  <2>4. requests \in [{"ALLOCATE", "REFRESH"} -> Nat] /\ Len(inbox) <= MaxInbox
    BY <1>2
  <2>5. /\ pc \in [Callers -> {"idle", "allocate", "select", "recv", "succeeded", "failed"}]
        /\ peer \in [Callers -> Peers \cup {NoPeer}]
        /\ mine \in [Callers -> Slots] /\ slot \in [Callers -> Slots]
    OBVIOUS
  <2>6. open \in BOOLEAN /\ moved \in BOOLEAN /\ direct \in [Callers -> BOOLEAN]
    BY Zenon
  <2> QED
    BY <1>2, <2>1, <2>2, <2>3, <2>4, <2>5, <2>6, Zenon DEF TypeOK
<1>6. Calls
  BY <1>4 DEF Calls, OneSessionAPeer, EndsInConnect, PointersGood, PointerGood, EstablishedHasRelay
<1>7. GivenOnce
  BY <1>2, <1>4 DEF GivenOnce
<1> QED
  BY <1>5, <1>6, <1>7 DEF Inv

\* A call that returns leaves locals of their types.
LEMMA ReturnTypes ==
  ASSUME TypeOK, NEW t \in Callers, Return(t)
  PROVE  /\ pc' \in [Callers -> {"idle", "allocate", "select", "recv", "succeeded", "failed"}]
         /\ direct' \in [Callers -> BOOLEAN]
         /\ peer' \in [Callers -> Peers \cup {NoPeer}]
         /\ mine' \in [Callers -> Slots]
         /\ slot' \in [Callers -> Slots]
BY FirstSlot DEF TypeOK, Return, Go

LEMMA AllocateReturnsTypes ==
  ASSUME TypeOK, NEW t \in Callers, NEW how \in {"succeeded", "failed"}, AllocateReturns(t, how)
  PROVE  /\ pc' \in [Callers -> {"idle", "allocate", "select", "recv", "succeeded", "failed"}]
         /\ direct' \in [Callers -> BOOLEAN]
         /\ peer' \in [Callers -> Peers \cup {NoPeer}]
         /\ mine' \in [Callers -> Slots]
         /\ slot' \in [Callers -> Slots]
<1>1. CASE direct[t]
  BY <1>1, ReturnTypes DEF AllocateReturns
<1>2. CASE ~direct[t]
  BY <1>2 DEF AllocateReturns, TypeOK, Go
<1> QED
  BY <1>1, <1>2

\* A call that begins is counted.
LEMMA BeginsTypes ==
  ASSUME TypeOK, NEW t \in Callers, Begins(t)
  PROVE  calls' \in [Callers -> Nat] /\ \A u \in Callers : calls'[u] <= MaxCalls[u]
<1>1. MaxCalls[t] \in Nat /\ calls[t] \in Nat /\ calls[t] < MaxCalls[t]
  BY BoundsAssumption DEF TypeOK, Begins
<1>2. calls[t] + 1 \in Nat /\ calls[t] + 1 <= MaxCalls[t]
  BY <1>1
<1>3. calls' = [calls EXCEPT ![t] = calls[t] + 1]
  BY DEF Begins
<1> QED
  BY <1>2, <1>3 DEF TypeOK

\* What the answer makes of a session.
LEMMA ParsedSession ==
  ASSUME NEW s \in Session, NEW d \in Datagram
  PROVE  /\ Parsed(s, d) \in Session
         /\ Parsed(s, d).peer = s.peer
         /\ \/ Parsed(s, d).state = s.state /\ Parsed(s, d).relay = s.relay
            \/ /\ Parsed(s, d).state = "ESTABLISHED"
               /\ Parsed(s, d).relay > 0
               /\ Parsed(s, d).relay = d.relay \/ Parsed(s, d).relay = s.relay
         /\ d.kind = "ALLOCATED" /\ Parsed(s, d).relay > 0 => Parsed(s, d).state = "ESTABLISHED"
<1>1. CASE d.kind = "ALLOCATED" /\ d.relay > 0
  BY <1>1, BoundsAssumption DEF Parsed, Session, Datagram, Relays, States
<1>2. CASE d.kind = "ALLOCATED" /\ ~(d.relay > 0) /\ s.relay > 0
  BY <1>2, BoundsAssumption DEF Parsed, Session, Datagram, Relays, States
<1>3. CASE ~(d.kind = "ALLOCATED" /\ (d.relay > 0 \/ s.relay > 0))
  BY <1>3, BoundsAssumption DEF Parsed, Session, Datagram, Relays, States
<1> QED
  BY <1>1, <1>2, <1>3

\* The parts of TypeOK that an action may touch together.
TableTypes == sessions \in [Slots -> Session] /\ count \in 0 .. MaxSessions
CallTypes ==
    /\ pc \in [Callers -> {"idle", "allocate", "select", "recv", "succeeded", "failed"}]
    /\ direct \in [Callers -> BOOLEAN]
    /\ peer \in [Callers -> Peers \cup {NoPeer}]
    /\ mine \in [Callers -> Slots]
    /\ slot \in [Callers -> Slots]
RequestTypes == requests \in [{"ALLOCATE", "REFRESH"} -> Nat]
InboxTypes == inbox \in Seq(Datagram) /\ Len(inbox) <= MaxInbox
CountTypes == allocated \in Relays /\ duplicates \in Nat /\ noise \in Nat /\ duplicates + noise <= MaxNoise
CallsTypes == calls \in [Callers -> Nat] /\ \A t \in Callers : calls[t] <= MaxCalls[t]
FlagTypes == open \in BOOLEAN /\ moved \in BOOLEAN

LEMMA TypesParts ==
  TypeOK <=> /\ TableTypes /\ CallTypes /\ RequestTypes /\ InboxTypes
             /\ CountTypes /\ CallsTypes /\ FlagTypes
BY Zenon DEF TypeOK, TableTypes, CallTypes, RequestTypes, InboxTypes, CountTypes, CallsTypes, FlagTypes

LEMMA TypesPartsNext ==
  /\ TableTypes' /\ CallTypes' /\ RequestTypes' /\ InboxTypes'
  /\ CountTypes' /\ CallsTypes' /\ FlagTypes'
  => TypeOK'
BY TypesParts, PTL

\* Parts that a step does not touch keep their types.
LEMMA TypesKept ==
  ASSUME TypeOK
  PROVE  /\ UNCHANGED <<sessions, count>> => TableTypes'
         /\ UNCHANGED call => CallTypes'
         /\ UNCHANGED requests => RequestTypes'
         /\ UNCHANGED inbox => InboxTypes'
         /\ UNCHANGED <<allocated, duplicates, noise>> => CountTypes'
         /\ UNCHANGED calls => CallsTypes'
         /\ UNCHANGED <<open, moved>> => FlagTypes'
BY DEF TypeOK, TableTypes, CallTypes, RequestTypes, InboxTypes, CountTypes, CallsTypes, FlagTypes, call

\* A receive buffer after recvfrom, and after a datagram.
LEMMA TakenTypes ==
  ASSUME TypeOK, Taken PROVE InboxTypes'
BY TakenOff, BoundsAssumption DEF InboxTypes, TypeOK

LEMMA ArrivesTypes ==
  ASSUME TypeOK, NEW d \in Datagram, Arrives(d) PROVE InboxTypes'
BY Appended, BoundsAssumption DEF InboxTypes, TypeOK, Arrives

\* An answer carries no address or the next one.
LEMMA Answered ==
  ASSUME TypeOK, NEW k \in {"ALLOCATE", "REFRESH"}, Answer(k)
  PROVE  \E d \in Datagram :
            /\ Arrives(d)
            /\ \/ d.relay = 0 /\ allocated' = allocated
               \/ d.relay = allocated + 1 /\ allocated' = allocated + 1 /\ allocated + 1 \in Relays
<1>1. CASE allocated < MaxRelay /\ allocated' = allocated + 1
           /\ Arrives([kind |-> "ALLOCATED", relay |-> allocated + 1])
  <2>1. allocated + 1 \in Relays
    BY <1>1, BoundsAssumption DEF TypeOK, Relays
  <2>2. [kind |-> "ALLOCATED", relay |-> allocated + 1] \in Datagram
    BY <2>1, Datagrams
  <2> QED
    BY <1>1, <2>1, <2>2
<1>2. CASE /\ allocated' = allocated
           /\ \/ Arrives(Plain("ALLOCATED")) \/ Arrives(Plain("REFUSED")) \/ Arrives(Plain("REFRESHED"))
  BY <1>2, Datagrams
<1> QED
  BY <1>1, <1>2 DEF Answer

LEMMA TypeStep ==
  ASSUME TypeOK, [Next]_vars
  PROVE  TypeOK'
<1> USE TypesKept, TypesPartsNext DEF table, network, call
<1>1. ASSUME NEW t \in Callers, NEW p \in Peers, ConnectNowhere(t, p)
      PROVE  TypeOK'
  <2>1. TableTypes'
    BY <1>1, SessionAdded, SessionsAssumption DEF ConnectNowhere, TableTypes, States, Slots
  <2>2. CallsTypes'
    BY <1>1, BeginsTypes DEF ConnectNowhere, CallsTypes
  <2> QED
    BY <1>1, <2>1, <2>2 DEF ConnectNowhere
<1>2. ASSUME NEW t \in Callers, NEW p \in Peers, Connect(t, p)
      PROVE  TypeOK'
  <2>1. PICK i \in Slots :
           /\ \/ Found(i, p) /\ SetState(i, "CONNECTING")
              \/ Added(New(p, "CONNECTING"))
           /\ mine' = [mine EXCEPT ![t] = i]
    BY <1>2 DEF Connect
  <2>2. TableTypes'
    <3>1. CASE SetState(i, "CONNECTING")
      BY <3>1, StateWritten DEF TableTypes, States, TypeOK
    <3>2. CASE Added(New(p, "CONNECTING"))
      BY <3>2, SessionAdded, SessionsAssumption DEF TableTypes, States, Slots
    <3> QED
      BY <2>1, <3>1, <3>2
  <2>3. CallTypes'
    BY <1>2, <2>1 DEF Connect, CallTypes, TypeOK, Go
  <2>4. CallsTypes'
    BY <1>2, BeginsTypes DEF Connect, CallsTypes
  <2> QED
    BY <1>2, <2>2, <2>3, <2>4 DEF Connect
<1>3. ASSUME NEW t \in Callers, NEW p \in Peers, AllocateOnly(t, p)
      PROVE  TypeOK'
  <2>1. CallTypes'
    BY <1>3 DEF AllocateOnly, CallTypes, TypeOK, Go
  <2>2. CallsTypes'
    BY <1>3, BeginsTypes DEF AllocateOnly, CallsTypes
  <2> QED
    BY <1>3, <2>1, <2>2 DEF AllocateOnly
<1>4. ASSUME NEW t \in Callers, NEW p \in Peers, Disconnect(t, p)
      PROVE  TypeOK'
  <2>1. TableTypes'
    BY <1>4, SessionRemoved DEF Disconnect, TableTypes
  <2>2. CallsTypes' /\ open' = open /\ moved' \in BOOLEAN
    BY <1>4, BeginsTypes DEF Disconnect, CallsTypes
  <2>3. FlagTypes'
    BY <2>2, Zenon DEF FlagTypes, TypeOK
  <2> QED
    BY <1>4, <2>1, <2>2, <2>3 DEF Disconnect
<1>5. ASSUME NEW t \in Callers, NEW p \in Peers, Refresh(t, p)
      PROVE  TypeOK'
  <2>1. RequestTypes'
    BY <1>5 DEF Refresh, RequestTypes, TypeOK
  <2>2. CallsTypes'
    BY <1>5, BeginsTypes DEF Refresh, CallsTypes
  <2> QED
    BY <1>5, <2>1, <2>2 DEF Refresh
<1>6. ASSUME NEW t \in Callers, NEW p \in Peers, Recv(t, p)
      PROVE  TypeOK'
  <2>1. InboxTypes' /\ CallsTypes'
    BY <1>6, BeginsTypes, TakenTypes DEF Recv, CallsTypes
  <2> QED
    BY <1>6, <2>1 DEF Recv
<1>7. ASSUME NEW t \in Callers, Cleanup(t)
      PROVE  TypeOK'
  <2>1. TableTypes'
    BY <1>7, SessionsAssumption DEF Cleanup, TableTypes, TypeOK
  <2>2. CallsTypes'
    BY <1>7, BeginsTypes DEF Cleanup, CallsTypes
  <2>3. FlagTypes'
    BY <1>7 DEF Cleanup, FlagTypes, TypeOK
  <2>4. InboxTypes'
    BY <1>7, BoundsAssumption DEF Cleanup, InboxTypes
  <2> QED
    BY <1>7, <2>1, <2>2, <2>3, <2>4 DEF Cleanup
<1>8. ASSUME NEW t \in Callers, Allocate(t)
      PROVE  TypeOK'
  <2>1. CallTypes' /\ RequestTypes'
    <3>1. CASE AllocateReturns(t, "failed") /\ UNCHANGED requests
      BY <3>1, AllocateReturnsTypes DEF CallTypes
    <3>2. CASE ~(AllocateReturns(t, "failed") /\ UNCHANGED requests)
      <4>1. PICK i \in Slots :
               /\ slot' = [slot EXCEPT ![t] = i]
               /\ pc' = [pc EXCEPT ![t] = "select"]
               /\ requests' = [requests EXCEPT !["ALLOCATE"] = @ + 1]
               /\ UNCHANGED <<direct, peer, mine>>
        BY <1>8, <3>2 DEF Allocate, Go
      <4> QED
        BY <4>1 DEF CallTypes, RequestTypes, TypeOK
    <3> QED
      BY <3>1, <3>2
  <2> QED
    BY <1>8, <2>1 DEF Allocate
<1>9. ASSUME NEW t \in Callers, AnswerTimeout(t)
      PROVE  TypeOK'
  BY <1>9, AllocateReturnsTypes DEF AnswerTimeout, CallTypes
<1>10. ASSUME NEW t \in Callers, AnswerReadable(t)
       PROVE  TypeOK'
  <2>1. CallTypes'
    BY <1>10 DEF AnswerReadable, CallTypes, TypeOK, Go
  <2> QED
    BY <1>10, <2>1 DEF AnswerReadable
<1>11. ASSUME NEW t \in Callers, ReceiveAnswer(t)
       PROVE  TypeOK'
  <2>1. sessions[slot[t]] \in Session /\ Head(inbox) \in Datagram /\ slot[t] \in Slots
    BY <1>11, TakenOff DEF TypeOK, ReceiveAnswer
  <2>2. Parsed(sessions[slot[t]], Head(inbox)) \in Session
    BY <2>1, ParsedSession
  <2>3. TableTypes'
    BY <1>11, <2>1, <2>2 DEF ReceiveAnswer, TableTypes, TypeOK
  <2>4. CallTypes'
    BY <1>11, AllocateReturnsTypes DEF ReceiveAnswer, CallTypes
  <2>5. InboxTypes'
    BY <1>11, TakenTypes DEF ReceiveAnswer
  <2> QED
    BY <1>11, <2>3, <2>4, <2>5 DEF ReceiveAnswer
<1>12. ASSUME NEW t \in Callers, ConnectEnds(t)
       PROVE  TypeOK'
  <2>1. mine[t] \in Slots
    BY DEF TypeOK
  <2>2. TableTypes'
    BY <1>12, <2>1, StateWritten DEF ConnectEnds, TableTypes, States, TypeOK
  <2>3. CallTypes'
    BY <1>12, ReturnTypes DEF ConnectEnds, CallTypes
  <2> QED
    BY <1>12, <2>2, <2>3 DEF ConnectEnds
<1>13. ASSUME NEW k \in {"ALLOCATE", "REFRESH"}, Answer(k)
       PROVE  TypeOK'
  <2>1. RequestTypes'
    BY <1>13 DEF Answer, RequestTypes, TypeOK
  <2>2. InboxTypes' /\ CountTypes'
    <3>1. PICK d \in Datagram : Arrives(d) /\ allocated' \in Relays
      BY <1>13, Answered DEF TypeOK
    <3> QED
      BY <1>13, <3>1, ArrivesTypes DEF Answer, CountTypes, TypeOK
  <2> QED
    BY <1>13, <2>1, <2>2 DEF Answer
<1>14. CASE Duplicate
  <2>1. Head(inbox) \in Datagram
    BY <1>14 DEF Duplicate, TypeOK
  <2>2. InboxTypes' /\ CountTypes'
    BY <1>14, <2>1, ArrivesTypes, BoundsAssumption DEF Duplicate, CountTypes, TypeOK
  <2> QED
    BY <1>14, <2>2 DEF Duplicate
<1>15. CASE Indication
  <2>1. InboxTypes' /\ CountTypes'
    BY <1>15, Datagrams, ArrivesTypes, BoundsAssumption DEF Indication, CountTypes, TypeOK
  <2> QED
    BY <1>15, <2>1 DEF Indication
<1>16. CASE UNCHANGED vars
  BY <1>16 DEF vars
<1> QED
  BY <1>1, <1>2, <1>3, <1>4, <1>5, <1>6, <1>7, <1>8, <1>9, <1>10, <1>11, <1>12,
     <1>13, <1>14, <1>15, <1>16 DEF Next, Call, Continue

-----------------------------------------------------------------------------
(* An allocation is in one place                                           *)

\* Writing states leaves the addresses where they are.
LEMMA GivenStates ==
  ASSUME TypeOK, GivenOnce, UNCHANGED <<inbox, allocated, duplicates>>, count' = count,
         \A j \in Slots : sessions'[j].relay = sessions[j].relay
  PROVE  GivenOnce'
BY LiveSlots DEF GivenOnce, Live

\* A session added has no address.
LEMMA GivenAdded ==
  ASSUME TypeOK, GivenOnce, UNCHANGED <<inbox, allocated, duplicates>>,
         NEW p \in Peers, NEW st \in States, Added(New(p, st))
  PROVE  GivenOnce'
<1>1. /\ Live' = Live \cup {count + 1}
      /\ \A j \in Live : sessions'[j] = sessions[j]
      /\ sessions'[count + 1].relay = 0
  BY SessionAdded, LiveSlots DEF New
<1>2. allocated \in Nat
  BY BoundsAssumption DEF TypeOK, Relays
<1> QED
  BY <1>1, <1>2 DEF GivenOnce

\* A datagram arrives that has no address, or that of the next allocation.
LEMMA GivenArrived ==
  ASSUME TypeOK, GivenOnce, UNCHANGED <<sessions, count, duplicates>>,
         NEW d \in Datagram, Arrives(d),
         \/ d.relay = 0 /\ allocated' = allocated
         \/ d.relay = allocated + 1 /\ allocated' = allocated + 1
  PROVE  GivenOnce'
<1>1. /\ Len(inbox') = Len(inbox) + 1 /\ Len(inbox) \in Nat
      /\ \A k \in 1 .. Len(inbox) : inbox'[k] = inbox[k]
      /\ inbox'[Len(inbox) + 1] = d
  BY Appended DEF TypeOK, Arrives
<1>2. allocated \in Nat /\ \A k \in 1 .. Len(inbox) : inbox[k].relay \in Nat
  <2>1. allocated \in Nat
    BY BoundsAssumption DEF TypeOK, Relays
  <2>2. \A k \in 1 .. Len(inbox) : inbox[k] \in Datagram
    BY DEF TypeOK
  <2>3. \A e \in Datagram : e.relay \in Nat
    BY BoundsAssumption DEF Datagram, Relays
  <2> QED
    BY <2>1, <2>2, <2>3
<1>3. \A i \in Live : sessions[i].relay \in Nat
  BY LiveSlots, BoundsAssumption DEF TypeOK, Session, Relays
<1>4. Live' = Live
  BY DEF Live
<1>5. \A k \in 1 .. Len(inbox') : k \in 1 .. Len(inbox) \/ k = Len(inbox) + 1
  BY <1>1
<1> SUFFICES ASSUME duplicates = 0 PROVE GivenOnce'
  BY DEF GivenOnce
<1>6. \A k \in 1 .. Len(inbox) : inbox[k].relay <= allocated
  BY DEF GivenOnce
<1>7. \A i \in Live : sessions[i].relay <= allocated
  BY DEF GivenOnce
<1>8. \A k, l \in 1 .. Len(inbox') :
         inbox'[k].relay = inbox'[l].relay => k = l \/ inbox'[k].relay = 0
  BY <1>1, <1>2, <1>5, <1>6 DEF GivenOnce
<1>9. \A k \in 1 .. Len(inbox'), i \in Live :
         inbox'[k].relay = sessions[i].relay => inbox'[k].relay = 0
  BY <1>1, <1>2, <1>3, <1>5, <1>7 DEF GivenOnce
<1>10. /\ \A k \in 1 .. Len(inbox') : inbox'[k].relay <= allocated'
       /\ \A i \in Live : sessions[i].relay <= allocated'
  BY <1>1, <1>2, <1>3, <1>5, <1>6, <1>7
<1> QED
  BY <1>4, <1>8, <1>9, <1>10 DEF GivenOnce

\* A datagram is taken: by turn_recv, which throws it away, or into a session.
LEMMA GivenTaken ==
  ASSUME TypeOK, GivenOnce, Taken, UNCHANGED <<count, allocated, duplicates>>,
         NEW i \in Slots,
         \A j \in Slots \ {i} : sessions'[j].relay = sessions[j].relay,
         sessions'[i].relay = sessions[i].relay \/ sessions'[i].relay = Head(inbox).relay
  PROVE  GivenOnce'
<1>1. /\ Len(inbox) \in Nat \ {0} /\ Len(inbox') = Len(inbox) - 1
      /\ \A k \in 1 .. Len(inbox') : inbox'[k] = inbox[k + 1]
      /\ Head(inbox) = inbox[1]
  BY TakenOff DEF TypeOK
<1>2. \A k \in 1 .. Len(inbox') : k + 1 \in 1 .. Len(inbox) /\ k + 1 # 1
  BY <1>1
<1>3. 1 \in 1 .. Len(inbox)
  BY <1>1
<1>4. Live' = Live
  BY DEF Live
<1> SUFFICES ASSUME duplicates = 0 PROVE GivenOnce'
  BY DEF GivenOnce
<1>5. \A j \in Live : \/ sessions'[j].relay = sessions[j].relay
                      \/ j = i /\ sessions'[j].relay = inbox[1].relay
  BY <1>1, LiveSlots
<1>6. \A j, l \in Live : sessions'[j].relay = sessions'[l].relay => j = l \/ sessions'[j].relay = 0
  BY <1>3, <1>5 DEF GivenOnce
<1>7. \A k \in 1 .. Len(inbox'), j \in Live :
         inbox'[k].relay = sessions'[j].relay => inbox'[k].relay = 0
  BY <1>1, <1>2, <1>3, <1>5 DEF GivenOnce
<1>8. \A k, l \in 1 .. Len(inbox') :
         inbox'[k].relay = inbox'[l].relay => k = l \/ inbox'[k].relay = 0
  <2>1. ASSUME NEW k \in 1 .. Len(inbox'), NEW l \in 1 .. Len(inbox'),
               inbox'[k].relay = inbox'[l].relay, inbox'[k].relay # 0
        PROVE  k = l
    <3>1. k + 1 = l + 1
      BY <1>1, <1>2, <2>1 DEF GivenOnce
    <3> QED
      BY <3>1
  <2> QED
    BY <2>1
<1>9. /\ \A k \in 1 .. Len(inbox') : inbox'[k].relay <= allocated
      /\ \A j \in Live : sessions'[j].relay <= allocated
  BY <1>1, <1>2, <1>3, <1>5 DEF GivenOnce
<1> QED
  BY <1>4, <1>6, <1>7, <1>8, <1>9 DEF GivenOnce

\* A session removed takes its address with it.
LEMMA GivenRemoved ==
  ASSUME TypeOK, GivenOnce, UNCHANGED <<inbox, allocated, duplicates>>,
         NEW i \in Slots, count' \in Nat,
         \A j \in Live' : /\ j \in Slots
                          /\ j < i => j \in Live /\ sessions'[j] = sessions[j]
                          /\ j >= i => j + 1 \in Live /\ sessions'[j] = sessions[j + 1]
  PROVE  GivenOnce'
<1> DEFINE from(j) == IF j < i THEN j ELSE j + 1
<1>1. \A j \in Live' : from(j) \in Live /\ sessions'[j] = sessions[from(j)]
  BY DEF Slots
<1>2. \A j, l \in Live' : from(j) = from(l) => j = l
  BY DEF Slots
<1> HIDE DEF from
<1> SUFFICES ASSUME duplicates = 0 PROVE GivenOnce'
  BY DEF GivenOnce
<1>3. \A j, l \in Live' : sessions'[j].relay = sessions'[l].relay => j = l \/ sessions'[j].relay = 0
  BY <1>1, <1>2 DEF GivenOnce
<1>4. /\ \A k \in 1 .. Len(inbox), j \in Live' :
            inbox[k].relay = sessions'[j].relay => inbox[k].relay = 0
      /\ \A j \in Live' : sessions'[j].relay <= allocated
  BY <1>1 DEF GivenOnce
<1> QED
  BY <1>3, <1>4 DEF GivenOnce

LEMMA GivenStep ==
  ASSUME Inv, [Next]_vars
  PROVE  GivenOnce'
<1> USE DEF Inv, table, network, call
<1>1. ASSUME NEW t \in Callers, NEW p \in Peers, ConnectNowhere(t, p)
      PROVE  GivenOnce'
  BY <1>1, GivenAdded DEF ConnectNowhere, States
<1>2. ASSUME NEW t \in Callers, NEW p \in Peers, Connect(t, p)
      PROVE  GivenOnce'
  <2>1. CASE \E i \in Slots : SetState(i, "CONNECTING")
    BY <1>2, <2>1, StateWritten, GivenStates DEF Connect, States
  <2>2. CASE Added(New(p, "CONNECTING"))
    BY <1>2, <2>2, GivenAdded DEF Connect, States
  <2> QED
    BY <1>2, <2>1, <2>2 DEF Connect
<1>3. ASSUME NEW t \in Callers, NEW p \in Peers, Disconnect(t, p)
      PROVE  GivenOnce'
  <2>1. PICK i \in Slots :
           /\ Found(i, p)
           /\ count' = count - 1
           /\ sessions' = [j \in Slots |->
                             CASE i <= j /\ j < count -> sessions[j + 1]
                               [] j = count /\ i = count -> [sessions[j] EXCEPT !.state = "CLOSED"]
                               [] OTHER -> sessions[j]]
    BY <1>3 DEF Disconnect
  <2>2. /\ count' \in Nat
        /\ \A j \in Live' : /\ j \in Slots
                            /\ j < i => j \in Live /\ sessions'[j] = sessions[j]
                            /\ j >= i => j + 1 \in Live /\ sessions'[j] = sessions[j + 1]
    BY <2>1, SessionRemoved, SessionsAssumption
  <2> QED
    BY <1>3, <2>2, GivenRemoved DEF Disconnect
<1>4. ASSUME NEW t \in Callers, NEW p \in Peers, Recv(t, p)
      PROVE  GivenOnce'
  BY <1>4, GivenTaken DEF Recv
<1>5. ASSUME NEW t \in Callers, Cleanup(t)
      PROVE  GivenOnce'
  <2>1. Live' = {} /\ 1 .. Len(inbox') = {}
    BY <1>5 DEF Cleanup, Live
  <2> QED
    BY <2>1 DEF GivenOnce
<1>6. ASSUME NEW t \in Callers, ReceiveAnswer(t)
      PROVE  GivenOnce'
  <2>1. sessions[slot[t]] \in Session /\ Head(inbox) \in Datagram /\ slot[t] \in Slots
    BY <1>6, TakenOff DEF TypeOK, ReceiveAnswer
  <2>2. \/ Parsed(sessions[slot[t]], Head(inbox)).relay = sessions[slot[t]].relay
        \/ Parsed(sessions[slot[t]], Head(inbox)).relay = Head(inbox).relay
    BY <2>1, ParsedSession
  <2>3. /\ \A j \in Slots \ {slot[t]} : sessions'[j].relay = sessions[j].relay
        /\ sessions'[slot[t]] = Parsed(sessions[slot[t]], Head(inbox))
    BY <1>6, <2>1 DEF ReceiveAnswer, TypeOK
  <2> QED
    BY <1>6, <2>1, <2>2, <2>3, GivenTaken DEF ReceiveAnswer
<1>7. ASSUME NEW t \in Callers, ConnectEnds(t)
      PROVE  GivenOnce'
  <2>1. mine[t] \in Slots
    BY DEF TypeOK
  <2> QED
    BY <1>7, <2>1, StateWritten, GivenStates DEF ConnectEnds, States
<1>8. ASSUME NEW k \in {"ALLOCATE", "REFRESH"}, Answer(k)
      PROVE  GivenOnce'
  BY <1>8, Answered, GivenArrived DEF Answer
<1>9. CASE Duplicate
  <2>1. duplicates' # 0
    BY <1>9 DEF Duplicate, TypeOK
  <2> QED
    BY <2>1 DEF GivenOnce
<1>10. CASE Indication
  BY <1>10, Datagrams, GivenArrived DEF Indication
<1>11. CASE UNCHANGED <<sessions, count, inbox, allocated, duplicates>>
  BY <1>11, GivenStates
<1>12. ASSUME NEW t \in Callers, NEW p \in Peers, AllocateOnly(t, p) \/ Refresh(t, p)
       PROVE  GivenOnce'
  BY <1>11, <1>12 DEF AllocateOnly, Refresh
<1>13. ASSUME NEW t \in Callers, Allocate(t) \/ AnswerTimeout(t) \/ AnswerReadable(t)
       PROVE  GivenOnce'
  BY <1>11, <1>13 DEF Allocate, AnswerTimeout, AnswerReadable
<1> QED
  BY <1>1, <1>2, <1>3, <1>4, <1>5, <1>6, <1>7, <1>8, <1>9, <1>10, <1>11, <1>12, <1>13
     DEF Next, Call, Continue, vars

-----------------------------------------------------------------------------
(* Pointers and addresses                                                  *)

\* What a return from turn_allocate does to the calls.
LEMMA AllocateReturnsEffect ==
  ASSUME TypeOK, NEW t \in Callers, NEW how, AllocateReturns(t, how)
  PROVE  /\ \A u \in Callers \ {t} :
               /\ pc'[u] = pc[u] /\ direct'[u] = direct[u] /\ peer'[u] = peer[u]
               /\ mine'[u] = mine[u] /\ slot'[u] = slot[u]
         /\ \/ pc'[t] = "idle"
            \/ /\ pc'[t] = how /\ ~direct[t] /\ direct'[t] = direct[t]
               /\ peer'[t] = peer[t] /\ mine'[t] = mine[t] /\ slot'[t] = slot[t]
<1>1. CASE direct[t]
  BY <1>1 DEF AllocateReturns, Return, Go, TypeOK
<1>2. CASE ~direct[t]
  BY <1>2 DEF AllocateReturns, Go, TypeOK
<1> QED
  BY <1>1, <1>2

\* A step that keeps the peer of every slot, and loses no address.
LEMMA SamePeers ==
  ASSUME TypeOK, OneSessionAPeer, count' = count,
         \A j \in Slots : sessions'[j].peer = sessions[j].peer
  PROVE  OneSessionAPeer'
BY LiveSlots DEF OneSessionAPeer, Live

\* A session added is its peer's only one, and has nothing yet.
LEMMA CallsAdded ==
  ASSUME TypeOK, Calls, UNCHANGED moved, NEW p \in Peers, Unknown(p),
         NEW st \in {"IDLE", "CONNECTING"}, Added(New(p, st))
  PROVE  /\ OneSessionAPeer' /\ EstablishedHasRelay'
         /\ \A i \in Live : i \in Live' /\ sessions'[i] = sessions[i]
         /\ count + 1 \in Live' /\ sessions'[count + 1].peer = p
<1>1. /\ Live' = Live \cup {count + 1} /\ count + 1 \notin Live
      /\ \A i \in Live : sessions'[i] = sessions[i]
      /\ sessions'[count + 1] = New(p, st)
  BY SessionAdded, LiveSlots DEF States
<1>2. New(p, st).peer = p /\ New(p, st).state # "ESTABLISHED"
  BY DEF New
<1>3. OneSessionAPeer'
  BY <1>1, <1>2 DEF Calls, OneSessionAPeer, Unknown
<1>4. EstablishedHasRelay'
  BY <1>1, <1>2 DEF Calls, EstablishedHasRelay
<1> QED
  BY <1>1, <1>2, <1>3, <1>4

\* A state written, which is ESTABLISHED only where there is an address.
LEMMA CallsWritten ==
  ASSUME TypeOK, Calls, UNCHANGED moved, NEW i \in Slots, NEW st \in States, SetState(i, st),
         st = "ESTABLISHED" /\ ~moved => sessions[i].relay > 0
  PROVE  /\ OneSessionAPeer' /\ EstablishedHasRelay' /\ Live' = Live
         /\ \A j \in Slots : /\ sessions'[j].peer = sessions[j].peer
                             /\ sessions'[j].relay = sessions[j].relay
<1>1. /\ count' = count
      /\ \A j \in Slots : /\ sessions'[j].peer = sessions[j].peer
                          /\ sessions'[j].relay = sessions[j].relay
                          /\ sessions'[j].state = IF j = i THEN st ELSE sessions[j].state
  BY StateWritten
<1>2. Live' = Live /\ Live \subseteq Slots
  BY <1>1, LiveSlots DEF Live
<1>3. OneSessionAPeer'
  BY <1>1, SamePeers DEF Calls
<1>4. EstablishedHasRelay'
  BY <1>1, <1>2 DEF Calls, EstablishedHasRelay
<1> QED
  BY <1>1, <1>2, <1>3, <1>4

\* A step of one caller that leaves the others' calls and keeps every session
\* of the table where it is.
LEMMA CallsKept ==
  ASSUME TypeOK, Calls, UNCHANGED moved, NEW t \in Callers,
         \A u \in Callers \ {t} :
            /\ pc'[u] = pc[u] /\ direct'[u] = direct[u] /\ peer'[u] = peer[u]
            /\ mine'[u] = mine[u] /\ slot'[u] = slot[u],
         \A i \in Live : /\ i \in Live' /\ sessions'[i].peer = sessions[i].peer
                         /\ sessions[i].relay > 0 => sessions'[i].relay > 0,
         OneSessionAPeer', EstablishedHasRelay',
         pc'[t] \in {"succeeded", "failed"} => ~direct'[t],
         ~moved => PointerGood(t)'
  PROVE  Calls'
<1>1. EndsInConnect'
  BY DEF Calls, EndsInConnect
<1>2. ASSUME ~moved, NEW u \in Callers, u # t
      PROVE  PointerGood(u)'
  BY <1>2 DEF Calls, PointersGood, PointerGood, EndsInConnect
<1>3. PointersGood'
  BY <1>2 DEF PointersGood
<1> QED
  BY <1>1, <1>3 DEF Calls

\* A call that fails in turn_allocate.
LEMMA CallsFailed ==
  ASSUME TypeOK, Calls, UNCHANGED <<sessions, count, moved>>,
         NEW t \in Callers, pc[t] # "idle", AllocateReturns(t, "failed")
  PROVE  Calls'
<1>1. OneSessionAPeer' /\ EstablishedHasRelay' /\ Live' = Live
  BY DEF Calls, OneSessionAPeer, EstablishedHasRelay, Live
<1>2. pc'[t] \in {"succeeded", "failed"} => ~direct'[t]
  BY AllocateReturnsEffect
<1>3. ~moved => PointerGood(t)'
  BY <1>1, AllocateReturnsEffect DEF PointerGood, PointersGood, Calls
<1> QED
  BY <1>1, <1>2, <1>3, AllocateReturnsEffect, CallsKept

LEMMA CallsStep ==
  ASSUME TypeOK, Calls, [Next]_vars
  PROVE  Calls'
<1> USE DEF table, network, call
<1>1. ASSUME NEW t \in Callers, NEW p \in Peers, ConnectNowhere(t, p)
      PROVE  Calls'
  <2>1. pc[t] = "idle" /\ Unknown(p) /\ Added(New(p, "IDLE")) /\ UNCHANGED <<call, moved>>
    BY <1>1 DEF ConnectNowhere, Begins
  <2>2. PointerGood(t)'
    BY <2>1 DEF PointerGood
  <2> QED
    BY <2>1, <2>2, CallsAdded, CallsKept
<1>2. ASSUME NEW t \in Callers, NEW p \in Peers, Connect(t, p)
      PROVE  Calls'
  <2>1. PICK i \in Slots :
           /\ \/ Found(i, p) /\ SetState(i, "CONNECTING")
              \/ Unknown(p) /\ i = count + 1 /\ Added(New(p, "CONNECTING"))
           /\ mine' = [mine EXCEPT ![t] = i]
    BY <1>2 DEF Connect
  <2>2. /\ i \in Live' /\ sessions'[i].peer = p
        /\ OneSessionAPeer' /\ EstablishedHasRelay'
        /\ \A j \in Live : /\ j \in Live' /\ sessions'[j].peer = sessions[j].peer
                           /\ sessions'[j].relay = sessions[j].relay
    <3>1. CASE Found(i, p) /\ SetState(i, "CONNECTING")
      BY <1>2, <3>1, CallsWritten, LiveSlots DEF Connect, Found, States
    <3>2. CASE Unknown(p) /\ i = count + 1 /\ Added(New(p, "CONNECTING"))
      BY <1>2, <3>2, CallsAdded DEF Connect
    <3> QED
      BY <2>1, <3>1, <3>2
  <2>3. /\ mine'[t] = i /\ peer'[t] = p /\ pc'[t] = "allocate"
        /\ \A u \in Callers \ {t} :
              /\ pc'[u] = pc[u] /\ direct'[u] = direct[u] /\ peer'[u] = peer[u]
              /\ mine'[u] = mine[u] /\ slot'[u] = slot[u]
    BY <1>2, <2>1 DEF Connect, Go, TypeOK
  <2>4. PointerGood(t)'
    BY <2>2, <2>3 DEF PointerGood
  <2> QED
    BY <1>2, <2>2, <2>3, <2>4, CallsKept DEF Connect
<1>3. ASSUME NEW t \in Callers, NEW p \in Peers, AllocateOnly(t, p)
      PROVE  Calls'
  <2>1. /\ direct'[t] /\ pc'[t] = "allocate"
        /\ \A u \in Callers \ {t} :
              /\ pc'[u] = pc[u] /\ direct'[u] = direct[u] /\ peer'[u] = peer[u]
              /\ mine'[u] = mine[u] /\ slot'[u] = slot[u]
    BY <1>3 DEF AllocateOnly, Go, TypeOK
  <2>2. OneSessionAPeer' /\ EstablishedHasRelay' /\ Live' = Live /\ sessions' = sessions
    BY <1>3 DEF AllocateOnly, Calls, OneSessionAPeer, EstablishedHasRelay, Live
  <2>3. PointerGood(t)'
    BY <2>1 DEF PointerGood
  <2> QED
    BY <1>3, <2>1, <2>2, <2>3, CallsKept DEF AllocateOnly
<1>4. ASSUME NEW t \in Callers, NEW p \in Peers, Disconnect(t, p)
      PROVE  Calls'
  <2>1. PICK i \in Slots :
           /\ Found(i, p)
           /\ count' = count - 1
           /\ sessions' = [j \in Slots |->
                             CASE i <= j /\ j < count -> sessions[j + 1]
                               [] j = count /\ i = count -> [sessions[j] EXCEPT !.state = "CLOSED"]
                               [] OTHER -> sessions[j]]
           /\ moved' = (moved \/ \E u \in Callers : Holds(u, i))
    BY <1>4 DEF Disconnect
  <2>2. /\ count' \in 0 .. MaxSessions
        /\ \A j \in Live' : /\ j \in Slots
                            /\ j < i => j \in Live /\ sessions'[j] = sessions[j]
                            /\ j >= i => j + 1 \in Live /\ sessions'[j] = sessions[j + 1]
    BY <2>1, SessionRemoved
  <2> DEFINE from(j) == IF j < i THEN j ELSE j + 1
  <2>3. \A j \in Live' : from(j) \in Live /\ sessions'[j] = sessions[from(j)]
    BY <2>2 DEF Slots
  <2>4. \A j, l \in Live' : from(j) = from(l) => j = l
    BY <2>2 DEF Slots
  <2>5. \A j \in Slots : j < i /\ j \in Live => j \in Live' /\ sessions'[j] = sessions[j]
    BY <2>1, <2>2, SessionsAssumption DEF Live, Slots, Found, TypeOK
  <2> HIDE DEF from
  <2>6. OneSessionAPeer'
    BY <2>3, <2>4 DEF Calls, OneSessionAPeer
  <2>7. moved \/ (\E u \in Callers : Holds(u, i)) => moved'
    BY <2>1
  <2>8. EstablishedHasRelay'
    BY <2>3, <2>7 DEF Calls, EstablishedHasRelay
  <2>9. EndsInConnect' /\ UNCHANGED <<pc, direct, peer, mine, slot>>
    BY <1>4 DEF Disconnect, Calls, EndsInConnect
  <2>10. ASSUME ~moved', NEW u \in Callers
         PROVE  PointerGood(u)'
    <3>1. ~Holds(u, i) /\ PointerGood(u)
      BY <2>7, <2>10 DEF Calls, PointersGood
    <3>2. mine[u] \in Slots /\ slot[u] \in Slots /\ \A j \in Slots : j >= i \/ j < i
      BY DEF TypeOK, Slots
    <3>3. /\ pc[u] # "idle" /\ ~direct[u] => mine[u] < i
          /\ pc[u] \in {"select", "recv"} => slot[u] < i
      BY <3>1, <3>2 DEF Holds
    <3>4. pc[u] = "succeeded" => ~direct[u]
      BY DEF Calls, EndsInConnect
    <3> QED
      BY <2>5, <2>9, <3>1, <3>2, <3>3, <3>4 DEF PointerGood
  <2>11. PointersGood'
    BY <2>10 DEF PointersGood
  <2> QED
    BY <2>6, <2>8, <2>9, <2>11 DEF Calls
<1>5. ASSUME NEW t \in Callers, Cleanup(t)
      PROVE  Calls'
  <2>1. Live' = {} /\ \A u \in Callers : pc'[u] = "idle"
    BY <1>5 DEF Cleanup, Live
  <2> QED
    BY <2>1 DEF Calls, OneSessionAPeer, EndsInConnect, PointersGood, PointerGood, EstablishedHasRelay
<1>6. CASE UNCHANGED <<sessions, count, call, moved>>
  BY <1>6 DEF Calls, OneSessionAPeer, EndsInConnect, PointersGood, PointerGood, EstablishedHasRelay, Live
<1>7. ASSUME NEW t \in Callers, Allocate(t)
      PROVE  Calls'
  <2>1. CASE AllocateReturns(t, "failed")
    BY <1>7, <2>1, CallsFailed DEF Allocate
  <2>2. CASE ~AllocateReturns(t, "failed")
    <3>1. PICK i \in Slots :
             /\ Found(i, peer[t])
             /\ slot' = [slot EXCEPT ![t] = i]
             /\ pc' = [pc EXCEPT ![t] = "select"]
             /\ UNCHANGED <<direct, peer, mine>>
      BY <1>7, <2>2 DEF Allocate, Go
    <3>2. /\ pc'[t] = "select" /\ slot'[t] = i
          /\ \A u \in Callers \ {t} : pc'[u] = pc[u] /\ slot'[u] = slot[u]
      BY <3>1 DEF TypeOK
    <3>3. /\ pc[t] = "allocate" /\ UNCHANGED <<sessions, count, moved>>
          /\ OneSessionAPeer' /\ EstablishedHasRelay' /\ Live' = Live
      BY <1>7 DEF Allocate, Calls, OneSessionAPeer, EstablishedHasRelay, Live
    <3>4. ~moved => PointerGood(t)'
      BY <3>1, <3>2, <3>3 DEF PointerGood, PointersGood, Calls, Found
    <3> QED
      BY <3>1, <3>2, <3>3, <3>4, CallsKept
  <2> QED
    BY <2>1, <2>2
<1>8. ASSUME NEW t \in Callers, AnswerTimeout(t)
      PROVE  Calls'
  BY <1>8, CallsFailed DEF AnswerTimeout
<1>9. ASSUME NEW t \in Callers, AnswerReadable(t)
      PROVE  Calls'
  <2>1. /\ pc[t] = "select" /\ pc'[t] = "recv" /\ \A u \in Callers \ {t} : pc'[u] = pc[u]
        /\ UNCHANGED <<sessions, count, direct, peer, mine, slot, moved>>
    BY <1>9 DEF AnswerReadable, Go, TypeOK
  <2>2. OneSessionAPeer' /\ EstablishedHasRelay' /\ Live' = Live
    BY <2>1 DEF Calls, OneSessionAPeer, EstablishedHasRelay, Live
  <2>3. ~moved => PointerGood(t)'
    BY <2>1, <2>2 DEF PointerGood, PointersGood, Calls
  <2> QED
    BY <2>1, <2>2, <2>3, CallsKept
<1>10. ASSUME NEW t \in Callers, ReceiveAnswer(t)
       PROVE  Calls'
  <2> DEFINE s == sessions[slot[t]]
             new == Parsed(sessions[slot[t]], Head(inbox))
             good == Head(inbox).kind = "ALLOCATED" /\ new.relay > 0
  <2>1. /\ s \in Session /\ Head(inbox) \in Datagram /\ slot[t] \in Slots
        /\ pc[t] = "recv" /\ UNCHANGED <<count, moved>>
        /\ \/ AllocateReturns(t, "succeeded") /\ good
           \/ AllocateReturns(t, "failed")
    <3>1. /\ pc[t] = "recv" /\ Taken /\ UNCHANGED <<count, moved>>
          /\ AllocateReturns(t, IF good THEN "succeeded" ELSE "failed")
      BY <1>10 DEF ReceiveAnswer
    <3>2. CASE good
      BY <3>1, <3>2, TakenOff DEF TypeOK
    <3>3. CASE ~good
      BY <3>1, <3>3, TakenOff DEF TypeOK
    <3> QED
      BY <3>2, <3>3
  <2>2. /\ \A j \in Slots \ {slot[t]} : sessions'[j] = sessions[j]
        /\ sessions'[slot[t]] = new
    BY <1>10, <2>1 DEF ReceiveAnswer, TypeOK
  <2>3. /\ new.peer = s.peer
        /\ \/ new.state = s.state /\ new.relay = s.relay
           \/ new.state = "ESTABLISHED" /\ new.relay > 0
    BY <2>1, ParsedSession
  <2> HIDE DEF new, s
  <2>4. \A j \in Slots : /\ sessions'[j].peer = sessions[j].peer
                         /\ sessions[j].relay > 0 => sessions'[j].relay > 0
                         /\ \/ sessions'[j].state = sessions[j].state /\ sessions'[j].relay = sessions[j].relay
                            \/ sessions'[j].relay > 0
    BY <2>2, <2>3 DEF s
  <2>5. Live' = Live /\ Live \subseteq Slots
    BY <2>1, LiveSlots DEF Live
  <2>6. OneSessionAPeer'
    BY <2>1, <2>4, SamePeers DEF Calls
  <2>7. EstablishedHasRelay'
    BY <2>1, <2>4, <2>5 DEF Calls, EstablishedHasRelay
  <2>8. pc'[t] \in {"succeeded", "failed"} => ~direct'[t]
    BY <2>1, AllocateReturnsEffect
  <2>9. ASSUME ~moved PROVE PointerGood(t)'
    <3>1. CASE pc'[t] = "idle"
      BY <3>1 DEF PointerGood
    <3>2. CASE pc'[t] # "idle"
      <4>1. /\ \/ pc'[t] = "succeeded" /\ good
               \/ pc'[t] = "failed"
            /\ ~direct[t] /\ peer'[t] = peer[t] /\ mine'[t] = mine[t]
        BY <2>1, <3>2, AllocateReturnsEffect
      <4>2. /\ mine[t] \in Live /\ sessions[mine[t]].peer = peer[t]
            /\ slot[t] \in Live /\ sessions[slot[t]].peer = peer[t]
        BY <2>1, <2>9, <4>1 DEF Calls, PointersGood, PointerGood
      <4>3. mine[t] = slot[t]
        BY <4>2 DEF Calls, OneSessionAPeer
      <4>4. pc'[t] = "succeeded" => sessions'[mine[t]].relay > 0
        BY <2>2, <4>1, <4>3
      <4> QED
        BY <2>4, <2>5, <4>1, <4>2, <4>4 DEF PointerGood
    <3> QED
      BY <3>1, <3>2
  <2>10. \A u \in Callers \ {t} :
            /\ pc'[u] = pc[u] /\ direct'[u] = direct[u] /\ peer'[u] = peer[u]
            /\ mine'[u] = mine[u] /\ slot'[u] = slot[u]
    BY <2>1, AllocateReturnsEffect
  <2> QED
    BY <2>1, <2>4, <2>5, <2>6, <2>7, <2>8, <2>9, <2>10, CallsKept
<1>11. ASSUME NEW t \in Callers, ConnectEnds(t)
       PROVE  Calls'
  <2>1. PICK st \in {"ESTABLISHED", "ERROR"} :
           SetState(mine[t], st) /\ (st = "ESTABLISHED" => pc[t] = "succeeded")
    BY <1>11 DEF ConnectEnds
  <2>2. mine[t] \in Slots /\ UNCHANGED moved
    BY <1>11 DEF TypeOK, ConnectEnds
  <2>3. st = "ESTABLISHED" /\ ~moved => sessions[mine[t]].relay > 0
    BY <2>1 DEF Calls, PointersGood, PointerGood
  <2>4. /\ OneSessionAPeer' /\ EstablishedHasRelay' /\ Live' = Live
        /\ \A j \in Slots : /\ sessions'[j].peer = sessions[j].peer
                            /\ sessions'[j].relay = sessions[j].relay
    BY <2>1, <2>2, <2>3, CallsWritten DEF States
  <2>5. /\ pc'[t] = "idle"
        /\ \A u \in Callers \ {t} :
              /\ pc'[u] = pc[u] /\ direct'[u] = direct[u] /\ peer'[u] = peer[u]
              /\ mine'[u] = mine[u] /\ slot'[u] = slot[u]
    BY <1>11 DEF ConnectEnds, Return, Go, TypeOK
  <2>6. PointerGood(t)'
    BY <2>5 DEF PointerGood
  <2> QED
    BY <2>2, <2>4, <2>5, <2>6, LiveSlots, CallsKept
<1>12. ASSUME NEW t \in Callers, NEW p \in Peers, Refresh(t, p) \/ Recv(t, p)
       PROVE  Calls'
  BY <1>6, <1>12 DEF Refresh, Recv
<1>13. ASSUME NEW k \in {"ALLOCATE", "REFRESH"}, Answer(k)
       PROVE  Calls'
  BY <1>6, <1>13 DEF Answer
<1>14. CASE Duplicate \/ Indication
  BY <1>6, <1>14 DEF Duplicate, Indication
<1> QED
  BY <1>1, <1>2, <1>3, <1>4, <1>5, <1>6, <1>7, <1>8, <1>9, <1>10, <1>11, <1>12, <1>13, <1>14
     DEF Next, Call, Continue, vars

-----------------------------------------------------------------------------
(* The theorems                                                            *)

LEMMA Invariant == Spec => []Inv
<1>1. Inv /\ [Next]_vars => Inv'
  <2> SUFFICES ASSUME Inv, [Next]_vars PROVE Inv'
    OBVIOUS
  <2>1. TypeOK' /\ Calls' /\ GivenOnce'
    BY TypeStep, CallsStep, GivenStep DEF Inv
  <2> QED
    BY <2>1 DEF Inv
<1> QED
  BY InitInv, <1>1, PTL DEF Spec

\* The table, the receive buffer and the calls keep their types whatever the
\* callers and the servers do: the array of TURN_MAX_SESSIONS is never overrun.
THEOREM TypeCorrect == Spec => []TypeOK
<1>1. Inv => TypeOK
  BY DEF Inv
<1> QED
  BY Invariant, <1>1, PTL

\* An established session has a relay address, although turn_connect and
\* turn_allocate write through pointers they kept over an unlock and read
\* answers that may be another's: both pointers are to the one session of the
\* peer until turn_disconnect moves the table.
THEOREM EstablishedSessionsHaveRelays == Spec => []EstablishedHasRelay
<1>1. Inv => EstablishedHasRelay
  BY DEF Inv, Calls
<1> QED
  BY Invariant, <1>1, PTL

\* An answer is taken off the socket once, so an allocation is the relay of at
\* most one session, the right one or another, if the network duplicates none.
THEOREM AllocationsAreNotShared == Spec => []OneSessionAnAllocation
<1>1. Inv => OneSessionAnAllocation
  BY DEF Inv, GivenOnce, OneSessionAnAllocation
<1> QED
  BY Invariant, <1>1, PTL

=============================================================================
