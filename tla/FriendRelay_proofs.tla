------------------------- MODULE FriendRelay_proofs -------------------------
(***************************************************************************)
(* The sessions of friend_relay.c, for any nodes, callers and slots.       *)
(***************************************************************************)
EXTENDS FriendRelay, WellFoundedInduction, TLAPS

\* The calls and the receive buffers are functions, which the type invariant
\* does not say of them.
Typed == TypeOK /\ DOMAIN calls = Callers /\ DOMAIN inbox = Nodes

\* Names for groups of variables are read as the variables they group.
USE DEF table, call, history

----------------------------------------------------------------------------
(* The table *)

LEMMA BlankTyped == Blank \in Session
BY DEF Blank, Session, States

LEMMA NewTyped ==
  ASSUME NEW p \in Nodes
  PROVE  New(p) \in Session /\ New(p).peer = p
BY DEF New, Blank, Session, States

LEMMA MarkedTyped ==
  ASSUME NEW s \in Session, NEW st \in States, NEW b \in BOOLEAN
  PROVE  /\ [s EXCEPT !.state = st, !.is_initiator = b] \in Session
         /\ [s EXCEPT !.state = st, !.is_initiator = b].peer = s.peer
BY DEF Session

\* The first session of a peer is one of them.
LEMMA FirstIs ==
  ASSUME Typed, NEW n \in Nodes, NEW p, Live(n, p) # {}
  PROVE  /\ FirstOf(Live(n, p)) \in Slots
         /\ FirstOf(Live(n, p)) <= count[n]
         /\ sessions[n][FirstOf(Live(n, p))].peer = p
<1> DEFINE R == {ss \in Nat \X Nat : ss[1] < ss[2]}
           S == Live(n, p)
<1>1. IsWellFoundedOn(R, Nat)
  BY NatLessThanWellFounded DEF OpToRel
<1>2. \A i, j \in Nat : i < j => <<i, j>> \in R
  OBVIOUS
<1>3. count[n] \in 0 .. MaxPeers /\ MaxPeers \in Nat
  BY PeersAssumption DEF Typed, TypeOK
<1>4. S \subseteq Nat
  BY <1>3 DEF Live
<1> HIDE DEF R, S
<1>5. PICK i \in S : \A j \in S : ~(<<j, i>> \in R)
  BY <1>1, <1>4, WFMin DEF S
<1>6. \A j \in S : i <= j
  <2> SUFFICES ASSUME NEW j \in S PROVE ~(j < i)
    BY <1>4
  <2> QED
    BY <1>2, <1>4, <1>5
<1>7. FirstOf(S) \in S
  BY <1>6 DEF FirstOf
<1> QED
  BY <1>3, <1>7 DEF S, Live, Slots

\* What relay_add_session and the search before it return.
Place(f, n, p) ==
    /\ f.array \in [Slots -> Session]
    /\ f.at \in Slots /\ f.at <= count[n] + 1
    /\ f.array[f.at].peer = p
    /\ \A j \in 1 .. count[n] : f.array[j] = sessions[n][j]

LEMMA AddedIs ==
  ASSUME Typed, NEW n \in Nodes, NEW s \in Session, NEW f \in Added(n, s)
  PROVE  Place(f, n, s.peer)
<1>1. /\ sessions[n] \in [Slots -> Session]
      /\ count[n] \in 0 .. MaxPeers /\ MaxPeers \in Nat
  BY PeersAssumption DEF Typed, TypeOK
<1>2. PICK i \in {count[n] + 1} \cap Slots :
             f = [array |-> [sessions[n] EXCEPT ![i] = s], at |-> i]
  BY DEF Added
<1> QED
  BY <1>1, <1>2 DEF Place, Slots

LEMMA FoundOrAddedIs ==
  ASSUME Typed, NEW n \in Nodes, NEW p \in Nodes, NEW f \in FoundOrAdded(n, p)
  PROVE  Place(f, n, p)
<1>1. /\ sessions[n] \in [Slots -> Session]
      /\ count[n] \in 0 .. MaxPeers /\ MaxPeers \in Nat
  BY PeersAssumption DEF Typed, TypeOK
<1>2. CASE Live(n, p) # {}
  <2> DEFINE i == FirstOf(Live(n, p))
  <2>1. f = [array |-> sessions[n], at |-> i]
    BY <1>2 DEF FoundOrAdded
  <2>2. i \in Slots /\ i <= count[n] /\ sessions[n][i].peer = p
    BY <1>2, FirstIs
  <2> HIDE DEF i
  <2> QED
    BY <1>1, <2>1, <2>2 DEF Place, Slots
<1>3. CASE Live(n, p) = {}
  BY <1>3, NewTyped, AddedIs DEF FoundOrAdded
<1> QED
  BY <1>2, <1>3

\* What the table is like after a session was entered: the sessions that are
\* there keep their peers, and the place is one of them.
LEMMA EnterIs ==
  ASSUME Typed, NEW n \in Nodes, NEW p \in Nodes, NEW f, Place(f, n, p),
         NEW s \in Session, s.peer = p, Enter(n, f, s)
  PROVE  /\ sessions' \in [Nodes -> [Slots -> Session]]
         /\ count' \in [Nodes -> 0 .. MaxPeers]
         /\ count[n] <= count'[n] /\ f.at <= count'[n]
         /\ sessions'[n][f.at] = s
         /\ \A j \in 1 .. count[n] : sessions'[n][j].peer = sessions[n][j].peer
         /\ \A j \in 1 .. count'[n] : j # f.at =>
              j \in 1 .. count[n] /\ sessions'[n][j] = sessions[n][j]
         /\ \A m \in Nodes \ {n} : sessions'[m] = sessions[m] /\ count'[m] = count[m]
<1> DEFINE a == [f.array EXCEPT ![f.at] = s]
           c == IF f.at > count[n] THEN f.at ELSE count[n]
<1>1. /\ sessions \in [Nodes -> [Slots -> Session]] /\ count \in [Nodes -> 0 .. MaxPeers]
      /\ MaxPeers \in Nat /\ count[n] \in 0 .. MaxPeers
  BY PeersAssumption DEF Typed, TypeOK
<1>2. /\ sessions' = [sessions EXCEPT ![n] = a]
      /\ count' = [count EXCEPT ![n] = c]
  BY DEF Enter
<1>3. a \in [Slots -> Session] /\ a[f.at] = s /\ \A j \in Slots : j # f.at => a[j] = f.array[j]
  BY DEF Place
<1>4. c \in 0 .. MaxPeers /\ count[n] <= c /\ f.at <= c
  BY <1>1 DEF Place, Slots
<1>5. \A j \in 1 .. count[n] : a[j].peer = sessions[n][j].peer
  <2> HIDE DEF a
  <2> SUFFICES ASSUME NEW j \in 1 .. count[n] PROVE a[j].peer = sessions[n][j].peer
    OBVIOUS
  <2>1. j \in Slots /\ f.array[j] = sessions[n][j]
    BY <1>1 DEF Place, Slots
  <2> QED
    BY <1>3, <2>1 DEF Place
<1>6. \A j \in 1 .. c : j # f.at => j \in 1 .. count[n] /\ a[j] = sessions[n][j]
  <2> HIDE DEF a
  <2> SUFFICES ASSUME NEW j \in 1 .. c, j # f.at
               PROVE  j \in 1 .. count[n] /\ a[j] = sessions[n][j]
    OBVIOUS
  <2>1. j \in 1 .. count[n] /\ j \in Slots
    BY <1>1 DEF Place, Slots
  <2> QED
    BY <1>3, <2>1 DEF Place
<1> HIDE DEF a, c
<1> QED
  BY <1>1, <1>2, <1>3, <1>4, <1>5, <1>6

----------------------------------------------------------------------------
(* The receive buffers *)

\* What recvfrom leaves was there before.
LEMMA TakenFrom ==
  ASSUME NEW n \in Nodes, Typed, inbox[n] # <<>>, Taken(n)
  PROVE  /\ \A m \in Nodes : inbox'[m] \in Seq(Datagram \cup Foreign) /\ Len(inbox'[m]) <= MaxInbox
         /\ DOMAIN inbox' = Nodes
         /\ Head(inbox[n]) \in Datagram \cup Foreign
         /\ Head(inbox[n]) = inbox[n][1] /\ 1 \in 1 .. Len(inbox[n])
         /\ \A m \in Nodes : \A k \in 1 .. Len(inbox'[m]) :
              \E j \in 1 .. Len(inbox[m]) : inbox'[m][k] = inbox[m][j]
<1> DEFINE q == inbox[n]
           r == Tail(q)
<1>1. inbox' = [inbox EXCEPT ![n] = r]
  BY DEF Taken
<1>2. q \in Seq(Datagram \cup Foreign) /\ q # <<>> /\ Len(q) <= MaxInbox /\ MaxInbox \in Nat
  BY BoundsAssumption DEF Typed, TypeOK
<1> HIDE DEF q
<1>3. /\ r \in Seq(Datagram \cup Foreign) /\ Len(r) = Len(q) - 1 /\ Len(q) \in Nat \ {0}
      /\ Head(q) \in Datagram \cup Foreign /\ Head(q) = q[1]
      /\ \A k \in 1 .. Len(r) : r[k] = q[k + 1] /\ k + 1 \in 1 .. Len(q)
  BY <1>2
<1> HIDE DEF r
<1>4. \A m \in Nodes : inbox'[m] = IF m = n THEN r ELSE inbox[m]
  BY <1>1 DEF Typed
<1>5. Len(r) <= MaxInbox
  BY <1>2, <1>3
<1>6. DOMAIN inbox' = Nodes
  BY <1>1 DEF Typed
<1>7. \A m \in Nodes : inbox'[m] \in Seq(Datagram \cup Foreign) /\ Len(inbox'[m]) <= MaxInbox
  BY <1>3, <1>4, <1>5 DEF Typed, TypeOK
<1>8. \A m \in Nodes : \A k \in 1 .. Len(inbox'[m]) :
              \E j \in 1 .. Len(inbox[m]) : inbox'[m][k] = inbox[m][j]
  <2> SUFFICES ASSUME NEW m \in Nodes, NEW k \in 1 .. Len(inbox'[m])
               PROVE  \E j \in 1 .. Len(inbox[m]) : inbox'[m][k] = inbox[m][j]
    OBVIOUS
  <2>1. CASE m = n
    <3>1. inbox'[m] = r /\ inbox[m] = q
      BY <1>4, <2>1 DEF q
    <3>2. r[k] = q[k + 1] /\ k + 1 \in 1 .. Len(q)
      BY <1>3, <3>1
    <3> QED
      BY <3>1, <3>2
  <2>2. CASE m # n
    BY <1>4, <2>2
  <2> QED
    BY <2>1, <2>2
<1>9. 1 \in 1 .. Len(q)
  BY <1>3
<1> QED
  BY <1>3, <1>6, <1>7, <1>8, <1>9 DEF q

LEMMA Appended ==
  ASSUME NEW n \in Nodes, Typed, NEW d \in Datagram \cup Foreign, Len(inbox[n]) < MaxInbox,
         inbox' = [inbox EXCEPT ![n] = Append(@, d)]
  PROVE  /\ \A m \in Nodes : inbox'[m] \in Seq(Datagram \cup Foreign) /\ Len(inbox'[m]) <= MaxInbox
         /\ DOMAIN inbox' = Nodes
         /\ \A m \in Nodes : \A k \in 1 .. Len(inbox'[m]) :
              \/ m = n /\ inbox'[m][k] = d
              \/ \E j \in 1 .. Len(inbox[m]) : inbox'[m][k] = inbox[m][j]
<1> DEFINE q == inbox[n]
           r == Append(q, d)
<1>1. q \in Seq(Datagram \cup Foreign) /\ Len(q) < MaxInbox /\ MaxInbox \in Nat
  BY BoundsAssumption DEF Typed, TypeOK
<1>2. \A m \in Nodes : inbox'[m] = IF m = n THEN r ELSE inbox[m]
  BY DEF Typed
<1> HIDE DEF q
<1>3. /\ r \in Seq(Datagram \cup Foreign) /\ Len(r) = Len(q) + 1 /\ Len(q) \in Nat
      /\ r[Len(q) + 1] = d
      /\ \A k \in 1 .. Len(q) : r[k] = q[k]
  BY <1>1
<1> HIDE DEF r
<1>4. Len(r) <= MaxInbox
  BY <1>1, <1>3
<1>5. \A m \in Nodes : inbox'[m] \in Seq(Datagram \cup Foreign) /\ Len(inbox'[m]) <= MaxInbox
  BY <1>2, <1>3, <1>4 DEF Typed, TypeOK
<1>6. \A k \in 1 .. Len(r) : r[k] = d \/ \E j \in 1 .. Len(q) : r[k] = q[j]
  <2> SUFFICES ASSUME NEW k \in 1 .. Len(r), k \notin 1 .. Len(q) PROVE r[k] = d
    BY <1>3
  <2>1. k = Len(q) + 1
    BY <1>3
  <2> QED
    BY <1>3, <2>1
<1>7. \A m \in Nodes : \A k \in 1 .. Len(inbox'[m]) :
              \/ m = n /\ inbox'[m][k] = d
              \/ \E j \in 1 .. Len(inbox[m]) : inbox'[m][k] = inbox[m][j]
  <2> SUFFICES ASSUME NEW m \in Nodes, NEW k \in 1 .. Len(inbox'[m])
               PROVE  \/ m = n /\ inbox'[m][k] = d
                      \/ \E j \in 1 .. Len(inbox[m]) : inbox'[m][k] = inbox[m][j]
    OBVIOUS
  <2>1. CASE m = n
    <3>1. inbox'[m] = r /\ inbox[m] = q
      BY <1>2, <2>1 DEF q
    <3> QED
      BY <1>6, <2>1, <3>1
  <2>2. CASE m # n
    BY <1>2, <2>2
  <2> QED
    BY <2>1, <2>2
<1> QED
  BY <1>5, <1>7 DEF Typed

----------------------------------------------------------------------------
(* Types *)

LEMMA InitTyped == Init => Typed
<1> SUFFICES ASSUME Init PROVE Typed
  OBVIOUS
<1>1. sessions \in [Nodes -> [Slots -> Session]] /\ count \in [Nodes -> 0 .. MaxPeers]
  BY BlankTyped, PeersAssumption DEF Init
<1>2. \A n \in Nodes : inbox[n] \in Seq(Datagram \cup Foreign) /\ Len(inbox[n]) <= MaxInbox
  <2>1. <<>> \in Seq(Datagram \cup Foreign) /\ Len(<<>>) <= MaxInbox
    BY BoundsAssumption
  <2>2. \A n \in Nodes : inbox[n] = <<>>
    BY DEF Init
  <2> QED
    BY <2>1, <2>2
<1>3. slot \in [Callers -> Slots] /\ peer \in [Callers -> Nodes] /\ via \in [Callers -> Nodes]
  BY HomeAssumption, PeersAssumption DEF Init, Slots
<1>4. (\A t \in Callers : calls[t] \in 0 .. MaxCalls[t]) /\ noise \in 0 .. MaxNoise
  BY BoundsAssumption DEF Init
<1> QED
  BY <1>1, <1>2, <1>3, <1>4 DEF Init, Typed, TypeOK

\* What a call that returns leaves.
LEMMA ReturnTyped ==
  ASSUME Typed, NEW t \in Callers, NEW whom \in Nodes \cup {NoPeer}, Return(t, whom)
  PROVE  /\ pc' \in [Callers -> {"idle", "send", "select", "recv", "keys", "stop"}]
         /\ slot' \in [Callers -> Slots]
         /\ peer' \in [Callers -> Nodes] /\ via' \in [Callers -> Nodes]
         /\ returned' \in [Callers -> Nodes \cup {NoPeer}]
         /\ (\A u \in Callers : calls'[u] \in 0 .. MaxCalls[u]) /\ DOMAIN calls' = Callers
<1>1. 1 \in Slots /\ Home[t] \in Nodes
  BY HomeAssumption, PeersAssumption DEF Slots
<1> QED
  BY <1>1 DEF Return, Typed, TypeOK

LEMMA BeginsTyped ==
  ASSUME Typed, NEW t \in Callers, Begins(t)
  PROVE  /\ \A u \in Callers : calls'[u] \in 0 .. MaxCalls[u]
         /\ DOMAIN calls' = Callers /\ Home[t] \in Nodes /\ pc[t] = "idle"
<1>1. MaxCalls \in [Callers -> Nat]
  BY BoundsAssumption
<1>2. calls[t] \in 0 .. MaxCalls[t] /\ calls[t] < MaxCalls[t] /\ MaxCalls[t] \in Nat
  BY <1>1 DEF Begins, Typed, TypeOK
<1>3. calls[t] + 1 \in 0 .. MaxCalls[t]
  BY <1>2
<1> DEFINE c == calls[t] + 1
<1>4. calls' = [calls EXCEPT ![t] = c]
  BY DEF Begins
<1> HIDE DEF c
<1>5. c \in 0 .. MaxCalls[t]
  BY <1>3 DEF c
<1>6. \A u \in Callers : calls'[u] = IF u = t THEN c ELSE calls[u]
  BY <1>4 DEF Typed
<1> QED
  BY <1>4, <1>5, <1>6, HomeAssumption DEF Begins, Typed, TypeOK

\* A field of one session is written: the peers stay.
LEMMA FieldsTyped ==
  ASSUME Typed, NEW n \in Nodes, NEW i \in Slots, NEW st \in States,
         \/ sessions' = [sessions EXCEPT ![n][i].state = st]
         \/ sessions' = [sessions EXCEPT ![n][i].is_secure = TRUE]
  PROVE  /\ sessions' \in [Nodes -> [Slots -> Session]]
         /\ \A m \in Nodes, j \in Slots : sessions'[m][j].peer = sessions[m][j].peer
         /\ \A m \in Nodes, j \in Slots : m # n \/ j # i => sessions'[m][j] = sessions[m][j]
         /\ sessions'[n][i].state \in {st, sessions[n][i].state}
<1> DEFINE s == sessions[n][i]
           a == [s EXCEPT !.state = st]
           b == [s EXCEPT !.is_secure = TRUE]
<1>1. sessions \in [Nodes -> [Slots -> Session]]
  BY DEF Typed, TypeOK
<1>2. s \in Session
  BY <1>1
<1>3. \/ sessions' = [sessions EXCEPT ![n] = [sessions[n] EXCEPT ![i] = a]]
      \/ sessions' = [sessions EXCEPT ![n] = [sessions[n] EXCEPT ![i] = b]]
  BY <1>1
<1>4. /\ a \in Session /\ a.peer = s.peer /\ a.state = st
      /\ b \in Session /\ b.peer = s.peer /\ b.state = s.state
  BY <1>2 DEF Session
<1> HIDE DEF a, b
<1>5. PICK x \in {a, b} : sessions' = [sessions EXCEPT ![n] = [sessions[n] EXCEPT ![i] = x]]
  BY <1>3
<1>6. x \in Session /\ x.peer = s.peer /\ x.state \in {st, s.state}
  BY <1>4, <1>5
<1> QED
  BY <1>1, <1>5, <1>6

\* The calls.
LEMMA CallTyped ==
  ASSUME Typed, NEW t \in Callers, Call(t)
  PROVE  Typed'
<1> DEFINE n == Home[t]
<1>1. ASSUME NEW p \in Nodes, NEW m \in Nodes, Connect(t, p, m) PROVE Typed'
  <2>1. PICK f \in FoundOrAdded(n, p) :
          /\ Enter(n, f, [f.array[f.at] EXCEPT !.state = "CONNECTING", !.is_initiator = TRUE])
          /\ slot' = [slot EXCEPT ![t] = f.at]
    BY <1>1 DEF Connect
  <2>2. n \in Nodes /\ Place(f, n, p)
    BY HomeAssumption, FoundOrAddedIs
  <2> DEFINE s == [f.array[f.at] EXCEPT !.state = "CONNECTING", !.is_initiator = TRUE]
  <2>3. s \in Session /\ s.peer = p
    <3>1. f.array[f.at] \in Session /\ f.array[f.at].peer = p
      BY <2>2 DEF Place
    <3> QED
      BY <3>1, MarkedTyped DEF States
  <2> HIDE DEF s, n
  <2>4. sessions' \in [Nodes -> [Slots -> Session]] /\ count' \in [Nodes -> 0 .. MaxPeers]
    BY <2>1, <2>2, <2>3, EnterIs DEF s
  <2>5. slot' \in [Callers -> Slots]
    BY <2>1, <2>2 DEF Typed, TypeOK, Place
  <2> QED
    BY <1>1, <2>4, <2>5, BeginsTyped DEF Connect, Typed, TypeOK
<1>2. ASSUME NEW p \in Nodes, AcceptPeer(t, p) PROVE Typed'
  <2>1. PICK f \in FoundOrAdded(n, p) :
          /\ Enter(n, f, [f.array[f.at] EXCEPT !.state = "ESTABLISHED", !.is_initiator = FALSE])
          /\ slot' = [slot EXCEPT ![t] = f.at]
    BY <1>2 DEF AcceptPeer
  <2>2. n \in Nodes /\ Place(f, n, p)
    BY HomeAssumption, FoundOrAddedIs
  <2> DEFINE s == [f.array[f.at] EXCEPT !.state = "ESTABLISHED", !.is_initiator = FALSE]
  <2>3. s \in Session /\ s.peer = p
    <3>1. f.array[f.at] \in Session /\ f.array[f.at].peer = p
      BY <2>2 DEF Place
    <3> QED
      BY <3>1, MarkedTyped DEF States
  <2> HIDE DEF s, n
  <2>4. sessions' \in [Nodes -> [Slots -> Session]] /\ count' \in [Nodes -> 0 .. MaxPeers]
    BY <2>1, <2>2, <2>3, EnterIs DEF s
  <2>5. slot' \in [Callers -> Slots]
    BY <2>1, <2>2 DEF Typed, TypeOK, Place
  <2>6. opened' \in [Nodes -> SUBSET (Nodes \cup {NoPeer})]
    BY <1>2, <2>2 DEF AcceptPeer, Typed, TypeOK, n
  <2> QED
    BY <1>2, <2>4, <2>5, <2>6, BeginsTyped DEF AcceptPeer, Typed, TypeOK
<1>3. ASSUME NEW p \in Nodes, Disconnect(t, p) PROVE Typed'
  <2> DEFINE i == FirstOf(Live(n, p))
             a == Compacted(n, i)
             c == count[n] - 1
  <2>1. /\ n \in Nodes /\ Live(n, p) # {}
        /\ sessions' = [sessions EXCEPT ![n] = a] /\ count' = [count EXCEPT ![n] = c]
    BY <1>3, HomeAssumption DEF Disconnect
  <2>2. i \in Slots /\ i <= count[n]
    BY <2>1, FirstIs
  <2>3. /\ sessions[n] \in [Slots -> Session] /\ count[n] \in 0 .. MaxPeers /\ MaxPeers \in Nat
    BY <2>1, PeersAssumption DEF Typed, TypeOK
  <2> HIDE DEF i
  <2>4. c \in 0 .. MaxPeers
    BY <2>2, <2>3 DEF Slots
  <2>5. a \in [Slots -> Session]
    BY <2>2, <2>3 DEF Compacted, Slots
  <2> HIDE DEF a, c, n
  <2>6. sessions' \in [Nodes -> [Slots -> Session]] /\ count' \in [Nodes -> 0 .. MaxPeers]
    BY <2>1, <2>4, <2>5 DEF Typed, TypeOK
  <2> QED
    BY <1>3, <2>6, BeginsTyped DEF Disconnect, Typed, TypeOK
<1>4. ASSUME NEW p \in Nodes, Send(t, p) PROVE Typed'
  BY <1>4, BeginsTyped DEF Send, Typed, TypeOK, table
<1>5. ASSUME NEW p \in Nodes, Recv(t, p) PROVE Typed'
  <2>1. n \in Nodes /\ inbox[n] # <<>> /\ Taken(n)
    BY <1>5, HomeAssumption DEF Recv
  <2>2. /\ \A m \in Nodes : inbox'[m] \in Seq(Datagram \cup Foreign) /\ Len(inbox'[m]) <= MaxInbox
        /\ DOMAIN inbox' = Nodes
    BY <2>1, TakenFrom
  <2> QED
    BY <1>5, <2>2, BeginsTyped DEF Recv, Typed, TypeOK, table
<1>6. ASSUME Cleanup(t) PROVE Typed'
  BY <1>6, BeginsTyped DEF Cleanup, Typed, TypeOK, table
<1>7. ASSUME NEW p \in Nodes, ConnectAtOnce(t, p) PROVE Typed'
  BY <1>7, BeginsTyped DEF ConnectAtOnce, Typed, TypeOK
<1> QED
  BY <1>1, <1>2, <1>3, <1>4, <1>5, <1>6, <1>7 DEF Call

LEMMA ContinueTyped ==
  ASSUME Typed, NEW t \in Callers, Continue(t)
  PROVE  Typed'
<1> DEFINE n == Home[t]
<1>1. n \in Nodes /\ slot[t] \in Slots /\ peer[t] \in Nodes /\ via[t] \in Nodes
  BY HomeAssumption DEF Typed, TypeOK
<1>2. ASSUME NEW st \in States, SetState(t, st)
      PROVE  sessions' \in [Nodes -> [Slots -> Session]] /\ count' = count
  BY <1>1, <1>2, FieldsTyped DEF SetState
<1>3. {"IDLE", "ESTABLISHED"} \subseteq States
  BY DEF States
<1>4. ASSUME SendHandshake(t) PROVE Typed'
  <2>1. CASE /\ SetState(t, "IDLE") /\ Return(t, NoPeer) /\ UNCHANGED net
    BY <1>2, <1>3, <1>4, <2>1, ReturnTyped DEF SendHandshake, Typed, TypeOK
  <2>2. CASE /\ net' = net \cup {[kind |-> "HANDSHAKE", from |-> n, to |-> via[t], peer |-> peer[t]]}
             /\ pc' = [pc EXCEPT ![t] = "select"]
             /\ UNCHANGED <<table, slot, peer, via, returned, calls>>
    <3>1. [kind |-> "HANDSHAKE", from |-> n, to |-> via[t], peer |-> peer[t]] \in Datagram
      BY <1>1 DEF Datagram
    <3> QED
      BY <1>4, <2>2, <3>1 DEF SendHandshake, Typed, TypeOK, table
  <2> QED
    BY <1>4, <2>1, <2>2 DEF SendHandshake
<1>5. ASSUME AnswerTimeout(t) PROVE Typed'
  BY <1>2, <1>3, <1>5, ReturnTyped DEF AnswerTimeout, Typed, TypeOK
<1>6. ASSUME AnswerReadable(t) PROVE Typed'
  BY <1>6 DEF AnswerReadable, Typed, TypeOK, table
<1>7. ASSUME ReceiveAnswer(t) PROVE Typed'
  <2>1. inbox[n] # <<>> /\ Taken(n) /\ UNCHANGED <<status, listener, net, noise, history>>
    BY <1>7 DEF ReceiveAnswer
  <2>2. /\ \A m \in Nodes : inbox'[m] \in Seq(Datagram \cup Foreign) /\ Len(inbox'[m]) <= MaxInbox
        /\ DOMAIN inbox' = Nodes
    BY <1>1, <2>1, TakenFrom
  <2>3. CASE /\ SetState(t, "ESTABLISHED")
             /\ pc' = [pc EXCEPT ![t] = "keys"]
             /\ returned' = [returned EXCEPT ![t] = peer[t]]
             /\ UNCHANGED <<slot, peer, via, calls>>
    BY <1>1, <1>2, <1>3, <2>1, <2>2, <2>3 DEF Typed, TypeOK
  <2>4. CASE SetState(t, "IDLE") /\ Return(t, NoPeer)
    BY <1>2, <1>3, <2>1, <2>2, <2>4, ReturnTyped DEF Typed, TypeOK
  <2> QED
    BY <1>7, <2>3, <2>4 DEF ReceiveAnswer
<1>8. ASSUME GenerateKeys(t) PROVE Typed'
  <2>1. sessions' \in [Nodes -> [Slots -> Session]]
    BY <1>1, <1>3, <1>8, FieldsTyped DEF GenerateKeys
  <2>2. PICK whom \in Nodes \cup {NoPeer} : Return(t, whom)
    BY <1>8 DEF GenerateKeys, Typed, TypeOK
  <2>3. /\ pc' \in [Callers -> {"idle", "send", "select", "recv", "keys", "stop"}]
        /\ slot' \in [Callers -> Slots] /\ peer' \in [Callers -> Nodes] /\ via' \in [Callers -> Nodes]
        /\ returned' \in [Callers -> Nodes \cup {NoPeer}]
        /\ (\A u \in Callers : calls'[u] \in 0 .. MaxCalls[u]) /\ DOMAIN calls' = Callers
    BY <2>2, ReturnTyped
  <2> QED
    BY <1>8, <2>1, <2>3 DEF GenerateKeys, Typed, TypeOK
<1>9. ASSUME CleanedUp(t) PROVE Typed'
  <2>1. \A m \in Nodes : inbox'[m] \in Seq(Datagram \cup Foreign) /\ Len(inbox'[m]) <= MaxInbox
    <3>1. <<>> \in Seq(Datagram \cup Foreign) /\ Len(<<>>) <= MaxInbox
      BY BoundsAssumption
    <3>2. \A m \in Nodes : inbox'[m] \in {<<>>, inbox[m]}
      BY <1>9 DEF CleanedUp, Typed
    <3> QED
      BY <3>1, <3>2 DEF Typed, TypeOK
  <2>2. count' \in [Nodes -> 0 .. MaxPeers]
    BY <1>1, <1>9, PeersAssumption DEF CleanedUp, Typed, TypeOK
  <2> QED
    BY <1>1, <1>9, <2>1, <2>2 DEF CleanedUp, Typed, TypeOK
<1> QED
  BY <1>4, <1>5, <1>6, <1>7, <1>8, <1>9 DEF Continue

\* What the listener leaves of the table: nothing moves, and a session that is established
\* now was, or was opened.
Listened ==
  /\ sessions' \in [Nodes -> [Slots -> Session]] /\ count' \in [Nodes -> 0 .. MaxPeers]
  /\ \A m \in Nodes : count[m] <= count'[m]
  /\ \A m \in Nodes : \A j \in 1 .. count[m] : sessions'[m][j].peer = sessions[m][j].peer
  /\ \A m \in Nodes : \A j \in 1 .. count'[m] :
       \/ j \in 1 .. count[m] /\ sessions'[m][j] = sessions[m][j]
       \/ sessions'[m][j].state = "ESTABLISHED" => sessions'[m][j].peer \in opened'[m]
  /\ opened' \in [Nodes -> SUBSET (Nodes \cup {NoPeer})]
  /\ \A m \in Nodes : opened[m] \subseteq opened'[m]

\* Nothing has happened to the table.
LEMMA TableStays ==
  ASSUME Typed, UNCHANGED <<table, opened>>
  PROVE  Listened
BY PeersAssumption DEF Listened, Typed, TypeOK

\* A session is added.
LEMMA OpenedTable ==
  ASSUME Typed, NEW n \in Nodes, NEW p \in Nodes, NEW f \in Added(n, Opened(p)),
         Enter(n, f, f.array[f.at]), opened' = [opened EXCEPT ![n] = @ \cup {p}]
  PROVE  Listened
<1>1. /\ sessions \in [Nodes -> [Slots -> Session]] /\ count \in [Nodes -> 0 .. MaxPeers]
      /\ MaxPeers \in Nat /\ opened \in [Nodes -> SUBSET (Nodes \cup {NoPeer})]
  BY PeersAssumption DEF Typed, TypeOK
<1>2. Opened(p) \in Session /\ Opened(p).peer = p
  BY DEF Opened, Session, States
<1>3. Place(f, n, p)
  BY <1>2, AddedIs
<1>4. f.array[f.at] \in Session /\ f.array[f.at].peer = p
  BY <1>3 DEF Place
<1>5. /\ sessions' \in [Nodes -> [Slots -> Session]] /\ count' \in [Nodes -> 0 .. MaxPeers]
      /\ count[n] <= count'[n] /\ sessions'[n][f.at] = f.array[f.at]
      /\ \A j \in 1 .. count[n] : sessions'[n][j].peer = sessions[n][j].peer
      /\ \A j \in 1 .. count'[n] : j # f.at =>
              j \in 1 .. count[n] /\ sessions'[n][j] = sessions[n][j]
      /\ \A m \in Nodes \ {n} : sessions'[m] = sessions[m] /\ count'[m] = count[m]
  BY <1>3, <1>4, EnterIs
<1>6. \A m \in Nodes : count[m] <= count'[m]
  BY <1>1, <1>5
<1>7. \A m \in Nodes : \A j \in 1 .. count[m] : sessions'[m][j].peer = sessions[m][j].peer
  BY <1>5
<1>8. /\ opened' \in [Nodes -> SUBSET (Nodes \cup {NoPeer})] /\ p \in opened'[n]
      /\ \A m \in Nodes : opened[m] \subseteq opened'[m]
  BY <1>1
<1>9. \A m \in Nodes : \A j \in 1 .. count'[m] :
       \/ j \in 1 .. count[m] /\ sessions'[m][j] = sessions[m][j]
       \/ sessions'[m][j].state = "ESTABLISHED" => sessions'[m][j].peer \in opened'[m]
  BY <1>4, <1>5, <1>8
<1> QED
  BY <1>5, <1>6, <1>7, <1>8, <1>9 DEF Listened

\* A packet changes the state of a session.
LEMMA PacketTable ==
  ASSUME Typed, NEW n \in Nodes, NEW kind, ProcessPacket(n, kind)
  PROVE  Listened
<1> DEFINE now(i) == IF kind = "PKT_HANDSHAKE_RESPONSE" THEN "ESTABLISHED"
                     ELSE IF kind = "PKT_CLOSE" THEN "CLOSED" ELSE sessions[n][i].state
<1>1. PICK i \in 1 .. count[n] :
             /\ sessions' = [sessions EXCEPT ![n][i].state = now(i)]
             /\ opened' = IF kind = "PKT_HANDSHAKE_RESPONSE"
                          THEN [opened EXCEPT ![n] = @ \cup {sessions[n][i].peer}] ELSE opened
  BY Zenon DEF ProcessPacket
<1>2. /\ i \in Slots /\ count \in [Nodes -> 0 .. MaxPeers] /\ MaxPeers \in Nat /\ count' = count
      /\ sessions \in [Nodes -> [Slots -> Session]] /\ sessions[n][i] \in Session
      /\ opened \in [Nodes -> SUBSET (Nodes \cup {NoPeer})]
  BY PeersAssumption DEF ProcessPacket, Typed, TypeOK, Slots
<1>3. now(i) \in States
  BY <1>2 DEF States, Session
<1>4. /\ now(i) \in {"ESTABLISHED", "CLOSED", sessions[n][i].state}
      /\ now(i) = "ESTABLISHED" =>
           kind = "PKT_HANDSHAKE_RESPONSE" \/ sessions[n][i].state = "ESTABLISHED"
      /\ kind # "PKT_HANDSHAKE_RESPONSE" => now(i) \in {"CLOSED", sessions[n][i].state}
  OBVIOUS
<1> HIDE DEF now
<1>5. PICK st \in States : st = now(i)
  BY <1>3
<1>6. sessions' = [sessions EXCEPT ![n][i].state = st]
  BY <1>1, <1>5
<1>7. /\ sessions' \in [Nodes -> [Slots -> Session]]
      /\ \A m \in Nodes, j \in Slots : sessions'[m][j].peer = sessions[m][j].peer
      /\ \A m \in Nodes, j \in Slots : m # n \/ j # i => sessions'[m][j] = sessions[m][j]
  <2>1. i \in Slots
    BY <1>2
  <2>2. \/ sessions' = [sessions EXCEPT ![n][i].state = st]
        \/ sessions' = [sessions EXCEPT ![n][i].is_secure = TRUE]
    BY <1>6
  <2> QED
    BY <2>1, <2>2, FieldsTyped
<1>8. \A m \in Nodes : count[m] <= count[m] /\ 1 .. count[m] \subseteq Slots
  BY <1>2 DEF Slots
<1>9. sessions[n][i].peer \in Nodes \cup {NoPeer}
  BY <1>2 DEF Session
<1>10. /\ opened' \in [Nodes -> SUBSET (Nodes \cup {NoPeer})]
       /\ \A m \in Nodes : opened[m] \subseteq opened'[m]
       /\ kind = "PKT_HANDSHAKE_RESPONSE" => sessions[n][i].peer \in opened'[n]
  BY <1>1, <1>2, <1>9
<1>11. kind # "PKT_HANDSHAKE_RESPONSE" =>
         sessions'[n][i] = sessions[n][i] \/ sessions'[n][i].state = "CLOSED"
  <2> SUFFICES ASSUME kind # "PKT_HANDSHAKE_RESPONSE"
               PROVE  sessions'[n][i] = sessions[n][i] \/ sessions'[n][i].state = "CLOSED"
    OBVIOUS
  <2>1. sessions'[n][i] = [sessions[n][i] EXCEPT !.state = now(i)]
    BY <1>1, <1>2
  <2>2. CASE now(i) = "CLOSED"
    BY <1>2, <2>1, <2>2 DEF Session
  <2>3. CASE now(i) = sessions[n][i].state
    BY <1>2, <2>1, <2>3 DEF Session
  <2> QED
    BY <1>4, <2>2, <2>3
<1>12. \A m \in Nodes : \A j \in 1 .. count'[m] :
       \/ j \in 1 .. count[m] /\ sessions'[m][j] = sessions[m][j]
       \/ sessions'[m][j].state = "ESTABLISHED" => sessions'[m][j].peer \in opened'[m]
  <2> SUFFICES ASSUME NEW m \in Nodes, NEW j \in 1 .. count[m],
                      sessions'[m][j] # sessions[m][j]
               PROVE  sessions'[m][j].state = "ESTABLISHED" => sessions'[m][j].peer \in opened'[m]
    BY <1>2
  <2>1. j \in Slots
    BY <1>8
  <2>2. m = n /\ j = i
    BY <1>7, <2>1
  <2> QED
    BY <1>2, <1>7, <1>10, <1>11, <2>2
<1> QED
  BY <1>2, <1>7, <1>8, <1>10, <1>12 DEF Listened

\* What the listener does with the table and the network, whatever it receives.
LEMMA ReceiveTable ==
  ASSUME Typed, NEW n \in Nodes, ListenReceive(n)
  PROVE  /\ Listened
         /\ net' \subseteq Datagram /\ accepted \subseteq accepted' /\ accepted' \subseteq Nodes
         /\ \A e \in net' \ net : e.kind = "OK" => e.to \in accepted'
<1> DEFINE d == Head(inbox[n])
<1>1. net \subseteq Datagram /\ accepted \subseteq Nodes
  BY DEF Typed, TypeOK
<1>2. d \in Datagram \cup Foreign
  BY TakenFrom DEF ListenReceive
<1>3. \/ d \in Foreign /\ ProcessPacket(n, d.kind)
      \/ d.kind = "PKT_HANDSHAKE" /\ AcceptPacketHandshake(n)
      \/ d.kind = "HANDSHAKE" /\ AcceptHandshake(n, d)
      \/ (d \in Foreign \/ d.kind = "OK") /\ UNCHANGED <<table, net, history>>
  BY DEF ListenReceive
<1> HIDE DEF d
<1>4. CASE ProcessPacket(n, d.kind)
  <2>1. UNCHANGED <<net, accepted>>
    BY <1>4 DEF ProcessPacket
  <2> QED
    BY <1>1, <1>4, <2>1, PacketTable
<1>5. CASE AcceptPacketHandshake(n)
  <2>1. PICK p \in Nodes : \E f \in Added(n, Opened(p)) :
           /\ Enter(n, f, f.array[f.at])
           /\ opened' = [opened EXCEPT ![n] = @ \cup {p}]
           /\ UNCHANGED <<net, accepted>>
    BY <1>5 DEF AcceptPacketHandshake
  <2>2. PICK f \in Added(n, Opened(p)) :
           /\ Enter(n, f, f.array[f.at])
           /\ opened' = [opened EXCEPT ![n] = @ \cup {p}]
           /\ UNCHANGED <<net, accepted>>
    BY <2>1
  <2>3. Listened
    BY <2>2, OpenedTable
  <2> QED
    BY <1>1, <2>2, <2>3
<1>6. CASE d.kind = "HANDSHAKE" /\ AcceptHandshake(n, d)
  <2>1. d \in Datagram
    BY <1>2, <1>6 DEF Foreign
  <2>2. d.peer \in Nodes /\ d.from \in Nodes
    BY <2>1 DEF Datagram
  <2>3. CASE UNCHANGED <<table, net, history>>
    BY <1>1, <2>3, TableStays
  <2>4. CASE \E f \in Added(n, Opened(d.peer)) :
             /\ Enter(n, f, f.array[f.at])
             /\ net' = net \cup {[kind |-> "OK", from |-> n, to |-> d.from, peer |-> d.peer]}
             /\ accepted' = accepted \cup {d.from}
             /\ opened' = [opened EXCEPT ![n] = @ \cup {d.peer}]
    <3>1. PICK f \in Added(n, Opened(d.peer)) :
             /\ Enter(n, f, f.array[f.at])
             /\ net' = net \cup {[kind |-> "OK", from |-> n, to |-> d.from, peer |-> d.peer]}
             /\ accepted' = accepted \cup {d.from}
             /\ opened' = [opened EXCEPT ![n] = @ \cup {d.peer}]
      BY <2>4
    <3>2. Listened
      BY <2>2, <3>1, OpenedTable
    <3>3. [kind |-> "OK", from |-> n, to |-> d.from, peer |-> d.peer] \in Datagram
      BY <2>2 DEF Datagram
    <3> QED
      BY <1>1, <2>2, <3>1, <3>2, <3>3
  <2> QED
    BY <1>6, <2>3, <2>4 DEF AcceptHandshake
<1>7. CASE UNCHANGED <<table, net, history>>
  BY <1>1, <1>7, TableStays
<1> QED
  BY <1>3, <1>4, <1>5, <1>6, <1>7

LEMMA ListenTyped ==
  ASSUME Typed, NEW n \in Nodes, Listen(n)
  PROVE  Typed'
<1>1. ASSUME ListenReadable(n) PROVE Typed'
  BY <1>1 DEF ListenReadable, Typed, TypeOK, table, call
<1>2. ASSUME ListenReceive(n) PROVE Typed'
  <2>1. /\ \A m \in Nodes : inbox'[m] \in Seq(Datagram \cup Foreign) /\ Len(inbox'[m]) <= MaxInbox
        /\ DOMAIN inbox' = Nodes
    BY <1>2, TakenFrom DEF ListenReceive
  <2>2. /\ sessions' \in [Nodes -> [Slots -> Session]] /\ count' \in [Nodes -> 0 .. MaxPeers]
        /\ net' \subseteq Datagram /\ accepted' \subseteq Nodes
        /\ opened' \in [Nodes -> SUBSET (Nodes \cup {NoPeer})]
    BY <1>2, ReceiveTable DEF Listened
  <2>3. /\ \E l \in {"select", "ended"} : listener' = [listener EXCEPT ![n] = l]
        /\ UNCHANGED <<status, call, noise>>
    BY <1>2 DEF ListenReceive
  <2> QED
    BY <2>1, <2>2, <2>3 DEF Typed, TypeOK, call
<1>3. ASSUME ListenEnd(n) PROVE Typed'
  BY <1>3 DEF ListenEnd, Typed, TypeOK, table, call
<1> QED
  BY <1>1, <1>2, <1>3 DEF Listen

LEMMA NetworkTyped ==
  ASSUME Typed, (\E n \in Nodes : ArriveForeign(n)) \/ (\E d \in net : Arrive(d))
  PROVE  Typed'
<1>1. ASSUME NEW n \in Nodes, ArriveForeign(n) PROVE Typed'
  <2>1. PICK f \in Datagram \cup Foreign : inbox' = [inbox EXCEPT ![n] = Append(@, f)]
    BY <1>1 DEF ArriveForeign
  <2>2. /\ \A m \in Nodes : inbox'[m] \in Seq(Datagram \cup Foreign) /\ Len(inbox'[m]) <= MaxInbox
        /\ DOMAIN inbox' = Nodes
    BY <1>1, <2>1, Appended DEF ArriveForeign
  <2>3. noise' \in 0 .. MaxNoise
    BY <1>1, BoundsAssumption DEF ArriveForeign, Typed, TypeOK
  <2> QED
    BY <1>1, <2>2, <2>3 DEF ArriveForeign, Typed, TypeOK, table, call
<1>2. ASSUME NEW d \in net, Arrive(d) PROVE Typed'
  <2>1. d \in Datagram /\ d.to \in Nodes
    BY DEF Typed, TypeOK, Datagram
  <2>2. /\ \A m \in Nodes : inbox'[m] \in Seq(Datagram \cup Foreign) /\ Len(inbox'[m]) <= MaxInbox
        /\ DOMAIN inbox' = Nodes
    BY <1>2, <2>1, Appended DEF Arrive
  <2>3. noise' \in 0 .. MaxNoise /\ net' \subseteq net
    BY <1>2, BoundsAssumption DEF Arrive, Typed, TypeOK
  <2> QED
    BY <1>2, <2>2, <2>3 DEF Arrive, Typed, TypeOK, table, call
<1> QED
  BY <1>1, <1>2

LEMMA NextTyped == Typed /\ [Next]_vars => Typed'
<1> SUFFICES ASSUME Typed, [Next]_vars PROVE Typed'
  OBVIOUS
<1>1. CASE UNCHANGED vars
  BY <1>1 DEF vars, table, call, Typed, TypeOK
<1> QED
  BY <1>1, CallTyped, ContinueTyped, ListenTyped, NetworkTyped DEF Next

LEMMA TypedHolds == Spec => []Typed
BY InitTyped, NextTyped, PTL DEF Spec

\* Every variable keeps its type: relay_add_session writes nothing behind the array, and
\* no pointer leaves it.
THEOREM TypeCorrect == Spec => []TypeOK
<1>1. Typed => TypeOK
  BY DEF Typed
<1> QED
  BY <1>1, TypedHolds, PTL

----------------------------------------------------------------------------
(* An answer is an answer *)

\* Every answer, on its way or received, was sent when the handshake was accepted.
Answers ==
  /\ \A d \in net : d.kind = "OK" => d.to \in accepted
  /\ \A n \in Nodes : \A k \in 1 .. Len(inbox[n]) : inbox[n][k].kind = "OK" => n \in accepted

\* A step that adds no answer but one that was sent for a handshake.
LEMMA AnswersStay ==
  ASSUME Answers, accepted \subseteq accepted',
         \A d \in net' : d.kind = "OK" => d \in net \/ d.to \in accepted',
         \A n \in Nodes : \A k \in 1 .. Len(inbox'[n]) :
            inbox'[n][k].kind = "OK" =>
               \/ n \in accepted'
               \/ \E j \in 1 .. Len(inbox[n]) : inbox'[n][k] = inbox[n][j]
  PROVE  Answers'
<1>1. (\A d \in net : d.kind = "OK" => d.to \in accepted)'
  BY DEF Answers
<1>2. (\A n \in Nodes : \A k \in 1 .. Len(inbox[n]) : inbox[n][k].kind = "OK" => n \in accepted)'
  BY DEF Answers
<1> QED
  BY <1>1, <1>2 DEF Answers

LEMMA CallAnswers ==
  ASSUME Typed, Answers, NEW t \in Callers, Call(t)
  PROVE  Answers'
<1>1. UNCHANGED <<net, accepted>>
  BY DEF Call, Connect, ConnectAtOnce, AcceptPeer, Disconnect, Send, Recv, Cleanup
<1>3. \/ UNCHANGED inbox
      \/ inbox[Home[t]] # <<>> /\ Taken(Home[t])
  BY DEF Call, Connect, ConnectAtOnce, AcceptPeer, Disconnect, Send, Recv, Cleanup
<1>4. \A n \in Nodes : \A k \in 1 .. Len(inbox'[n]) :
         \E j \in 1 .. Len(inbox[n]) : inbox'[n][k] = inbox[n][j]
  BY <1>3, TakenFrom, HomeAssumption
<1> QED
  BY <1>1, <1>4, AnswersStay

LEMMA ContinueAnswers ==
  ASSUME Typed, Answers, NEW t \in Callers, Continue(t)
  PROVE  Answers'
<1> DEFINE n == Home[t]
<1>1. n \in Nodes
  BY HomeAssumption
<1>2. ASSUME SendHandshake(t) PROVE Answers'
  <2>1. UNCHANGED <<inbox, accepted>>
    BY <1>2 DEF SendHandshake
  <2>2. \A d \in net' : d.kind = "OK" => d \in net
    BY <1>2 DEF SendHandshake
  <2> QED
    BY <2>1, <2>2, AnswersStay
<1>3. ASSUME AnswerTimeout(t) \/ AnswerReadable(t) \/ GenerateKeys(t) PROVE Answers'
  <2>1. UNCHANGED <<inbox, net, accepted>>
    BY <1>3 DEF AnswerTimeout, AnswerReadable, GenerateKeys
  <2> QED
    BY <2>1, AnswersStay
<1>4. ASSUME ReceiveAnswer(t) PROVE Answers'
  <2>1. inbox[n] # <<>> /\ Taken(n) /\ UNCHANGED <<net, accepted>>
    BY <1>4 DEF ReceiveAnswer
  <2>2. \A m \in Nodes : \A k \in 1 .. Len(inbox'[m]) :
              \E j \in 1 .. Len(inbox[m]) : inbox'[m][k] = inbox[m][j]
    BY <1>1, <2>1, TakenFrom
  <2> QED
    BY <2>1, <2>2, AnswersStay
<1>5. ASSUME CleanedUp(t) PROVE Answers'
  <2>1. UNCHANGED <<net, accepted>>
    BY <1>5 DEF CleanedUp
  <2>2. \A m \in Nodes : inbox'[m] = <<>> \/ inbox'[m] = inbox[m]
    BY <1>5 DEF CleanedUp, Typed
  <2>3. \A m \in Nodes : \A k \in 1 .. Len(inbox'[m]) :
              \E j \in 1 .. Len(inbox[m]) : inbox'[m][k] = inbox[m][j]
    <3> SUFFICES ASSUME NEW m \in Nodes, NEW k \in 1 .. Len(inbox'[m])
                 PROVE  \E j \in 1 .. Len(inbox[m]) : inbox'[m][k] = inbox[m][j]
      OBVIOUS
    <3>1. inbox'[m] # <<>>
      OBVIOUS
    <3> QED
      BY <2>2, <3>1
  <2> QED
    BY <2>1, <2>3, AnswersStay
<1> QED
  BY <1>2, <1>3, <1>4, <1>5 DEF Continue

LEMMA ListenAnswers ==
  ASSUME Typed, Answers, NEW n \in Nodes, Listen(n)
  PROVE  Answers'
<1>1. ASSUME ListenReadable(n) \/ ListenEnd(n) PROVE Answers'
  <2>1. UNCHANGED <<inbox, net, accepted>>
    BY <1>1 DEF ListenReadable, ListenEnd, call
  <2> QED
    BY <2>1, AnswersStay
<1>2. ASSUME ListenReceive(n) PROVE Answers'
  <2>1. inbox[n] # <<>> /\ Taken(n)
    BY <1>2 DEF ListenReceive, call
  <2>2. \A m \in Nodes : \A k \in 1 .. Len(inbox'[m]) :
              \E j \in 1 .. Len(inbox[m]) : inbox'[m][k] = inbox[m][j]
    BY <2>1, TakenFrom
  <2>3. accepted \subseteq accepted' /\ \A e \in net' \ net : e.kind = "OK" => e.to \in accepted'
    BY <1>2, ReceiveTable
  <2> QED
    BY <2>1, <2>2, <2>3, AnswersStay
<1> QED
  BY <1>1, <1>2 DEF Listen

LEMMA NetworkAnswers ==
  ASSUME Typed, Answers, (\E n \in Nodes : ArriveForeign(n)) \/ (\E d \in net : Arrive(d))
  PROVE  Answers'
<1>1. ASSUME NEW n \in Nodes, ArriveForeign(n) PROVE Answers'
  <2>1. PICK f \in Foreign : inbox' = [inbox EXCEPT ![n] = Append(@, f)]
    BY <1>1 DEF ArriveForeign
  <2>2. f.kind # "OK"
    BY DEF Foreign
  <2>3. \A m \in Nodes : \A k \in 1 .. Len(inbox'[m]) :
              \/ m = n /\ inbox'[m][k] = f
              \/ \E j \in 1 .. Len(inbox[m]) : inbox'[m][k] = inbox[m][j]
    BY <1>1, <2>1, Appended DEF ArriveForeign
  <2>4. UNCHANGED <<net, accepted>>
    BY <1>1 DEF ArriveForeign, call
  <2> QED
    BY <2>2, <2>3, <2>4, AnswersStay
<1>2. ASSUME NEW d \in net, Arrive(d) PROVE Answers'
  <2>1. d \in Datagram /\ d.to \in Nodes
    BY DEF Typed, TypeOK, Datagram
  <2>2. \A m \in Nodes : \A k \in 1 .. Len(inbox'[m]) :
              \/ m = d.to /\ inbox'[m][k] = d
              \/ \E j \in 1 .. Len(inbox[m]) : inbox'[m][k] = inbox[m][j]
    BY <1>2, <2>1, Appended DEF Arrive
  <2>3. net' \subseteq net /\ UNCHANGED accepted
    BY <1>2 DEF Arrive, call
  <2>4. d.kind = "OK" => d.to \in accepted
    BY DEF Answers
  <2> QED
    BY <2>2, <2>3, <2>4, AnswersStay
<1> QED
  BY <1>1, <1>2

\* A session that is established was asked for and answered, or was opened from elsewhere;
\* and so with the success of a call.
Established ==
  \A n \in Nodes : \A i \in 1 .. count[n] :
     sessions[n][i].state = "ESTABLISHED" => n \in accepted \/ sessions[n][i].peer \in opened[n]

\* A step after which what is established was, with that peer, or has its reason.
LEMMA EstablishedStays ==
  ASSUME Established, accepted \subseteq accepted',
         \A n \in Nodes : opened[n] \subseteq opened'[n],
         \A n \in Nodes : \A i \in 1 .. count'[n] :
            sessions'[n][i].state = "ESTABLISHED" =>
              \/ n \in accepted' \/ sessions'[n][i].peer \in opened'[n]
              \/ \E j \in 1 .. count[n] : /\ sessions[n][j].state = "ESTABLISHED"
                                          /\ sessions[n][j].peer = sessions'[n][i].peer
  PROVE  Established'
<1> SUFFICES ASSUME NEW n \in Nodes, NEW i \in 1 .. count'[n],
                    sessions'[n][i].state = "ESTABLISHED",
                    NEW j \in 1 .. count[n], sessions[n][j].state = "ESTABLISHED",
                    sessions[n][j].peer = sessions'[n][i].peer
             PROVE  n \in accepted' \/ sessions'[n][i].peer \in opened'[n]
  BY DEF Established
<1> QED
  BY DEF Established

LEMMA SuccessStays ==
  ASSUME SuccessWasAnswered, accepted \subseteq accepted',
         \A n \in Nodes : opened[n] \subseteq opened'[n],
         \A t \in Callers : \/ returned'[t] \in {returned[t], NoPeer}
                            \/ Home[t] \in accepted' \/ returned'[t] \in opened'[Home[t]]
  PROVE  SuccessWasAnswered'
BY HomeAssumption DEF SuccessWasAnswered

\* relay_connect and relay_accept mark the session they found or added.
LEMMA EnterEstablished ==
  ASSUME Typed, Established, NEW n \in Nodes, NEW p \in Nodes, NEW f \in FoundOrAdded(n, p),
         NEW st \in States, NEW b \in BOOLEAN,
         Enter(n, f, [f.array[f.at] EXCEPT !.state = st, !.is_initiator = b]),
         accepted' = accepted, \A m \in Nodes : opened[m] \subseteq opened'[m],
         st = "ESTABLISHED" => p \in opened'[n]
  PROVE  Established'
<1> DEFINE s == [f.array[f.at] EXCEPT !.state = st, !.is_initiator = b]
<1>1. Place(f, n, p)
  BY FoundOrAddedIs
<1>2. f.array[f.at] \in Session /\ f.array[f.at].peer = p
  BY <1>1 DEF Place
<1>3. s \in Session /\ s.peer = p /\ s.state = st
  BY <1>2 DEF Session
<1>4. Enter(n, f, s)
  OBVIOUS
<1> HIDE DEF s
<1>5. /\ sessions'[n][f.at] = s
      /\ \A j \in 1 .. count'[n] : j # f.at =>
              j \in 1 .. count[n] /\ sessions'[n][j] = sessions[n][j]
      /\ \A m \in Nodes \ {n} : sessions'[m] = sessions[m] /\ count'[m] = count[m]
  BY <1>1, <1>3, <1>4, EnterIs
<1>6. \A m \in Nodes : \A i \in 1 .. count'[m] :
        sessions'[m][i].state = "ESTABLISHED" =>
              \/ m \in accepted' \/ sessions'[m][i].peer \in opened'[m]
              \/ \E j \in 1 .. count[m] : /\ sessions[m][j].state = "ESTABLISHED"
                                          /\ sessions[m][j].peer = sessions'[m][i].peer
  <2> SUFFICES ASSUME NEW m \in Nodes, NEW i \in 1 .. count'[m],
                      sessions'[m][i].state = "ESTABLISHED"
               PROVE  \/ m \in accepted' \/ sessions'[m][i].peer \in opened'[m]
                      \/ \E j \in 1 .. count[m] : /\ sessions[m][j].state = "ESTABLISHED"
                                                  /\ sessions[m][j].peer = sessions'[m][i].peer
    OBVIOUS
  <2>1. CASE m # n
    BY <1>5, <2>1
  <2>2. CASE m = n /\ i # f.at
    BY <1>5, <2>2
  <2>3. CASE m = n /\ i = f.at
    BY <1>3, <1>5, <2>3
  <2> QED
    BY <2>1, <2>2, <2>3
<1> QED
  BY <1>6, EstablishedStays

\* A call that begins.
LEMMA CallEstablished ==
  ASSUME Typed, Established, SuccessWasAnswered, NEW t \in Callers, Call(t)
  PROVE  Established' /\ SuccessWasAnswered'
<1> DEFINE n == Home[t]
<1>1. n \in Nodes /\ opened \in [Nodes -> SUBSET (Nodes \cup {NoPeer})]
  BY HomeAssumption DEF Typed, TypeOK
<1>2. ASSUME NEW p \in Nodes, NEW m \in Nodes, Connect(t, p, m)
      PROVE  Established' /\ SuccessWasAnswered'
  <2>1. PICK f \in FoundOrAdded(n, p) :
          Enter(n, f, [f.array[f.at] EXCEPT !.state = "CONNECTING", !.is_initiator = TRUE])
    BY <1>2 DEF Connect
  <2>2. UNCHANGED <<accepted, opened>> /\ returned' = [returned EXCEPT ![t] = NoPeer]
    BY <1>2 DEF Connect
  <2>3. "CONNECTING" \in States /\ "CONNECTING" # "ESTABLISHED" /\ TRUE \in BOOLEAN
    BY DEF States
  <2>4. Established'
    BY <1>1, <2>1, <2>2, <2>3, EnterEstablished
  <2>5. SuccessWasAnswered'
    BY <2>2, SuccessStays DEF Typed, TypeOK
  <2> QED
    BY <2>4, <2>5
<1>3. ASSUME NEW p \in Nodes, ConnectAtOnce(t, p)
      PROVE  Established' /\ SuccessWasAnswered'
  <2>1. UNCHANGED <<table, accepted, opened>>
    BY <1>3 DEF ConnectAtOnce
  <2>2. Established'
    BY <2>1 DEF Established
  <2>3. Connected(n, p) => n \in accepted \/ p \in opened[n]
    <3> SUFFICES ASSUME Connected(n, p) PROVE n \in accepted \/ p \in opened[n]
      OBVIOUS
    <3> DEFINE i == FirstOf(Live(n, p))
    <3>1. i \in Slots /\ i <= count[n] /\ sessions[n][i].peer = p
      BY <1>1, FirstIs DEF Connected
    <3>2. sessions[n][i].state = "ESTABLISHED"
      BY DEF Connected
    <3> HIDE DEF i
    <3>3. i \in 1 .. count[n]
      BY <1>1, <3>1, PeersAssumption DEF Slots, Typed, TypeOK
    <3> QED
      BY <1>1, <3>1, <3>2, <3>3 DEF Established
  <2>4. /\ \A u \in Callers \ {t} : returned'[u] = returned[u]
        /\ returned'[t] = NoPeer \/ (returned'[t] = p /\ Connected(n, p))
    BY <1>3 DEF ConnectAtOnce, Typed, TypeOK
  <2>5. SuccessWasAnswered'
    BY <2>1, <2>3, <2>4, SuccessStays
  <2> QED
    BY <2>2, <2>5
<1>4. ASSUME NEW p \in Nodes, AcceptPeer(t, p)
      PROVE  Established' /\ SuccessWasAnswered'
  <2>1. PICK f \in FoundOrAdded(n, p) :
          Enter(n, f, [f.array[f.at] EXCEPT !.state = "ESTABLISHED", !.is_initiator = FALSE])
    BY <1>4 DEF AcceptPeer
  <2>2. /\ UNCHANGED <<accepted, returned>>
        /\ \A m \in Nodes : opened[m] \subseteq opened'[m]
        /\ p \in opened'[n]
    BY <1>1, <1>4 DEF AcceptPeer
  <2>3. "ESTABLISHED" \in States /\ FALSE \in BOOLEAN
    BY DEF States
  <2>4. Established'
    BY <1>1, <2>1, <2>2, <2>3, EnterEstablished
  <2>5. SuccessWasAnswered'
    BY <2>2, SuccessStays
  <2> QED
    BY <2>4, <2>5
<1>5. ASSUME NEW p \in Nodes, Disconnect(t, p)
      PROVE  Established' /\ SuccessWasAnswered'
  <2> DEFINE i == FirstOf(Live(n, p))
             a == Compacted(n, i)
  <2>1. /\ Live(n, p) # {} /\ sessions' = [sessions EXCEPT ![n] = a]
        /\ count' = [count EXCEPT ![n] = @ - 1] /\ UNCHANGED <<accepted, opened, returned>>
    BY <1>5 DEF Disconnect
  <2>2. i \in Slots /\ i <= count[n]
    BY <1>1, <2>1, FirstIs
  <2>3. /\ sessions \in [Nodes -> [Slots -> Session]] /\ count \in [Nodes -> 0 .. MaxPeers]
        /\ MaxPeers \in Nat
    BY PeersAssumption DEF Typed, TypeOK
  <2> HIDE DEF i
  <2>4. \A j \in 1 .. count[n] - 1 : \E k \in 1 .. count[n] : a[j] = sessions[n][k]
    <3> SUFFICES ASSUME NEW j \in 1 .. count[n] - 1
                 PROVE  \E k \in 1 .. count[n] : a[j] = sessions[n][k]
      OBVIOUS
    <3>1. j \in Slots /\ j \in 1 .. count[n] /\ j + 1 \in 1 .. count[n]
      BY <1>1, <2>3 DEF Slots
    <3>2. a[j] = sessions[n][j + 1] \/ a[j] = sessions[n][j]
      BY <3>1 DEF Compacted
    <3> QED
      BY <3>1, <3>2
  <2> HIDE DEF a
  <2>5. /\ sessions'[n] = a /\ count'[n] = count[n] - 1
        /\ \A m \in Nodes \ {n} : sessions'[m] = sessions[m] /\ count'[m] = count[m]
    BY <1>1, <2>1, <2>3
  <2>6. \A m \in Nodes : \A j \in 1 .. count'[m] :
            \E k \in 1 .. count[m] : sessions'[m][j] = sessions[m][k]
    BY <2>4, <2>5
  <2>7. Established'
    BY <2>1, <2>6, EstablishedStays
  <2>8. SuccessWasAnswered'
    BY <2>1, SuccessStays
  <2> QED
    BY <2>7, <2>8
<1>6. ASSUME (\E p \in Nodes : Send(t, p) \/ Recv(t, p)) \/ Cleanup(t)
      PROVE  Established' /\ SuccessWasAnswered'
  <2>1. UNCHANGED <<sessions, count, accepted, opened, returned>>
    BY <1>6 DEF Send, Recv, Cleanup
  <2> QED
    BY <2>1 DEF Established, SuccessWasAnswered
<1> QED
  BY <1>2, <1>3, <1>4, <1>5, <1>6 DEF Call

\* A write through the pointer of a call.
LEMMA WriteEstablished ==
  ASSUME Typed, Established, NEW t \in Callers, NEW st \in States,
         \/ sessions' = [sessions EXCEPT ![Home[t]][slot[t]].state = st]
         \/ sessions' = [sessions EXCEPT ![Home[t]][slot[t]].is_secure = TRUE],
         st = "ESTABLISHED" => Home[t] \in accepted,
         UNCHANGED <<count, accepted, opened>>
  PROVE  Established'
<1> DEFINE n == Home[t]
           i == slot[t]
<1>1. n \in Nodes /\ i \in Slots
  BY HomeAssumption DEF Typed, TypeOK
<1>2. \/ sessions' = [sessions EXCEPT ![n][i].state = st]
      \/ sessions' = [sessions EXCEPT ![n][i].is_secure = TRUE]
  OBVIOUS
<1>3. n \in accepted \/ st # "ESTABLISHED"
  OBVIOUS
<1> HIDE DEF n, i
<1>4. /\ \A m \in Nodes, j \in Slots : sessions'[m][j].peer = sessions[m][j].peer
      /\ \A m \in Nodes, j \in Slots : m # n \/ j # i => sessions'[m][j] = sessions[m][j]
      /\ sessions'[n][i].state \in {st, sessions[n][i].state}
  BY <1>1, <1>2, FieldsTyped
<1>5. \A m \in Nodes : 1 .. count[m] \subseteq Slots
  BY PeersAssumption DEF Typed, TypeOK, Slots
<1>6. \A m \in Nodes : \A j \in 1 .. count'[m] :
        sessions'[m][j].state = "ESTABLISHED" =>
          m \in accepted' \/ sessions[m][j].state = "ESTABLISHED"
  <2> SUFFICES ASSUME NEW m \in Nodes, NEW j \in 1 .. count[m],
                      sessions'[m][j].state = "ESTABLISHED"
               PROVE  m \in accepted' \/ sessions[m][j].state = "ESTABLISHED"
    OBVIOUS
  <2>1. j \in Slots
    BY <1>5
  <2> QED
    BY <1>3, <1>4, <2>1
<1> QED
  BY <1>4, <1>5, <1>6, EstablishedStays

\* A call that goes on.
LEMMA ContinueEstablished ==
  ASSUME Typed, Answers, Established, SuccessWasAnswered, NEW t \in Callers, Continue(t)
  PROVE  Established' /\ SuccessWasAnswered'
<1> DEFINE n == Home[t]
<1>1. n \in Nodes /\ {"IDLE", "ESTABLISHED"} \subseteq States /\ "IDLE" # "ESTABLISHED"
  BY HomeAssumption DEF States
<1>2. UNCHANGED <<accepted, opened>>
  BY DEF Continue, SendHandshake, AnswerTimeout, AnswerReadable, ReceiveAnswer, GenerateKeys,
         CleanedUp
<1>3. ASSUME SetState(t, "IDLE") PROVE Established'
  BY <1>1, <1>2, <1>3, WriteEstablished DEF SetState
<1>4. ASSUME UNCHANGED <<sessions, count>> PROVE Established'
  BY <1>2, <1>4 DEF Established
<1>5. ASSUME NEW whom \in {NoPeer, returned[t]}, Return(t, whom) PROVE SuccessWasAnswered'
  BY <1>2, <1>5, SuccessStays DEF Return, Typed, TypeOK
<1>6. ASSUME UNCHANGED returned PROVE SuccessWasAnswered'
  BY <1>2, <1>6, SuccessStays
<1>7. CASE SendHandshake(t)
  BY <1>3, <1>4, <1>5, <1>6, <1>7 DEF SendHandshake
<1>8. CASE AnswerTimeout(t)
  BY <1>3, <1>5, <1>8 DEF AnswerTimeout
<1>9. CASE AnswerReadable(t)
  BY <1>4, <1>6, <1>9 DEF AnswerReadable
<1>10. CASE ReceiveAnswer(t)
  <2>1. CASE IsOk(Head(inbox[n])) /\ SetState(t, "ESTABLISHED")
             /\ returned' = [returned EXCEPT ![t] = peer[t]]
    <3>1. /\ Head(inbox[n]) = inbox[n][1] /\ 1 \in 1 .. Len(inbox[n])
      BY <1>1, <1>10, TakenFrom DEF ReceiveAnswer
    <3>2. n \in accepted
      BY <1>1, <2>1, <3>1 DEF IsOk, Answers
    <3>3. Established'
      BY <1>1, <1>2, <2>1, <3>2, WriteEstablished DEF SetState
    <3>4. SuccessWasAnswered'
      BY <1>2, <2>1, <3>2, SuccessStays DEF Typed, TypeOK
    <3> QED
      BY <3>3, <3>4
  <2>2. CASE SetState(t, "IDLE") /\ Return(t, NoPeer)
    BY <1>3, <1>5, <2>2
  <2> QED
    BY <1>10, <2>1, <2>2 DEF ReceiveAnswer
<1>11. CASE GenerateKeys(t)
  <2>1. UNCHANGED count /\ sessions' = [sessions EXCEPT ![n][slot[t]].is_secure = TRUE]
    BY <1>11 DEF GenerateKeys
  <2>2. Established'
    BY <1>1, <1>2, <2>1, WriteEstablished
  <2> QED
    BY <1>5, <1>11, <2>2 DEF GenerateKeys
<1>12. CASE CleanedUp(t)
  <2>1. UNCHANGED sessions /\ count' = [count EXCEPT ![n] = 0] /\ UNCHANGED returned
    BY <1>12 DEF CleanedUp
  <2>2. \A m \in Nodes : 1 .. count'[m] \subseteq 1 .. count[m]
    BY <2>1, PeersAssumption DEF Typed, TypeOK
  <2>3. Established'
    BY <1>2, <2>1, <2>2, EstablishedStays
  <2> QED
    BY <1>6, <2>1, <2>3
<1> QED
  BY <1>7, <1>8, <1>9, <1>10, <1>11, <1>12 DEF Continue

LEMMA ListenEstablished ==
  ASSUME Typed, Established, SuccessWasAnswered, NEW n \in Nodes, Listen(n)
  PROVE  Established' /\ SuccessWasAnswered'
<1>1. CASE ListenReadable(n) \/ ListenEnd(n)
  <2>1. UNCHANGED <<sessions, count, accepted, opened, returned>>
    BY <1>1 DEF ListenReadable, ListenEnd
  <2> QED
    BY <2>1 DEF Established, SuccessWasAnswered
<1>2. CASE ListenReceive(n)
  <2>1. Listened /\ accepted \subseteq accepted'
    BY <1>2, ReceiveTable
  <2>2. UNCHANGED returned
    BY <1>2 DEF ListenReceive
  <2>3. Established'
    BY <2>1, EstablishedStays DEF Listened
  <2>4. SuccessWasAnswered'
    BY <2>1, <2>2, SuccessStays DEF Listened
  <2> QED
    BY <2>3, <2>4
<1> QED
  BY <1>1, <1>2 DEF Listen

\* relay_connect reports success for a peer only if some node has accepted a handshake of
\* this one, or the session with that peer was opened from elsewhere (friend_relay.c:263-368,
\* 283-286): whichever thread takes a datagram, whatever is lost, doubled or late, and
\* whatever earlier calls and other threads have left in the table.
THEOREM SuccessAnswered == Spec => []SuccessWasAnswered
<1> DEFINE Inv == Typed /\ Answers /\ Established /\ SuccessWasAnswered
<1>1. Init => Inv
  BY InitTyped DEF Init, Answers, Established, SuccessWasAnswered
<1>2. Inv /\ [Next]_vars => Inv'
  <2> SUFFICES ASSUME Inv, [Next]_vars PROVE Inv'
    OBVIOUS
  <2>1. Typed'
    BY NextTyped
  <2>2. CASE UNCHANGED vars
    BY <2>1, <2>2, AnswersStay DEF vars, Established, SuccessWasAnswered
  <2>3. CASE \E t \in Callers : Call(t) \/ Continue(t)
    BY <2>1, <2>3, CallAnswers, ContinueAnswers, CallEstablished, ContinueEstablished
  <2>4. CASE \E n \in Nodes : Listen(n)
    BY <2>1, <2>4, ListenAnswers, ListenEstablished
  <2>5. CASE (\E n \in Nodes : ArriveForeign(n)) \/ (\E d \in net : Arrive(d))
    <3>1. UNCHANGED <<sessions, count, accepted, opened, returned>>
      BY <2>5 DEF ArriveForeign, Arrive
    <3> QED
      BY <2>1, <2>5, <3>1, NetworkAnswers DEF Established, SuccessWasAnswered
  <2> QED
    BY <2>2, <2>3, <2>4, <2>5 DEF Next
<1> QED
  BY <1>1, <1>2, PTL DEF Spec

----------------------------------------------------------------------------
(* The pointer a call keeps                                                 *)

\* No two threads call at one node.
OneCaller == \A t, u \in Callers : Home[t] = Home[u] => t = u

\* The pointer of a call is to a live session of its peer.
Points(t) ==
  pc[t] \in {"send", "select", "recv", "keys"} =>
    slot[t] <= count[Home[t]] /\ sessions[Home[t]][slot[t]].peer = peer[t]

OwnPointers == \A t \in Callers : Points(t)

\* The table of a node grows and its sessions stay with their peers, and the call t is no
\* further than it was: it still points to its own.
LEMMA PointsStay ==
  ASSUME Typed, NEW t \in Callers, Points(t),
         count[Home[t]] <= count'[Home[t]], count'[Home[t]] \in Nat,
         \A j \in 1 .. count[Home[t]] :
            sessions'[Home[t]][j].peer = sessions[Home[t]][j].peer,
         slot'[t] = slot[t], peer'[t] = peer[t],
         pc'[t] \in {"send", "select", "recv", "keys"} =>
           pc[t] \in {"send", "select", "recv", "keys"}
  PROVE  Points(t)'
<1>1. slot[t] \in Slots /\ count[Home[t]] \in 0 .. MaxPeers /\ MaxPeers \in Nat
  BY HomeAssumption, PeersAssumption DEF Typed, TypeOK
<1>2. slot[t] <= count[Home[t]] => slot[t] \in 1 .. count[Home[t]] /\ slot[t] <= count'[Home[t]]
  BY <1>1 DEF Slots
<1> QED
  BY <1>2 DEF Points

LEMMA ReturnPoints ==
  ASSUME Typed, NEW t \in Callers, NEW whom, Return(t, whom)
  PROVE  Points(t)' /\ \A u \in Callers \ {t} : slot'[u] = slot[u] /\ peer'[u] = peer[u] /\ pc'[u] = pc[u]
BY DEF Return, Points, Typed, TypeOK

\* A caller touches the table of its own node only, where no other caller is.
LEMMA OthersPoint ==
  ASSUME Typed, OwnPointers, OneCaller, NEW t \in Callers,
         \A m \in Nodes \ {Home[t]} : sessions'[m] = sessions[m] /\ count'[m] = count[m],
         \A u \in Callers \ {t} : slot'[u] = slot[u] /\ peer'[u] = peer[u] /\ pc'[u] = pc[u],
         Points(t)'
  PROVE  OwnPointers'
<1> SUFFICES ASSUME NEW u \in Callers, u # t PROVE Points(u)'
  BY DEF OwnPointers
<1>1. Home[u] \in Nodes \ {Home[t]}
  BY HomeAssumption DEF OneCaller
<1> QED
  BY <1>1 DEF OwnPointers, Points

LEMMA ConnectPoints ==
  ASSUME Typed, OwnPointers, OneCaller, NEW t \in Callers, NEW p \in Nodes,
         NEW f \in FoundOrAdded(Home[t], p), NEW st \in States, NEW initiator \in BOOLEAN,
         Enter(Home[t], f, [f.array[f.at] EXCEPT !.state = st, !.is_initiator = initiator]),
         slot' = [slot EXCEPT ![t] = f.at], peer' = [peer EXCEPT ![t] = p],
         \A u \in Callers \ {t} : pc'[u] = pc[u]
  PROVE  OwnPointers'
<1> DEFINE n == Home[t]
           s == [f.array[f.at] EXCEPT !.state = st, !.is_initiator = initiator]
<1>1. n \in Nodes /\ Place(f, n, p)
  BY HomeAssumption, FoundOrAddedIs
<1>2. s \in Session /\ s.peer = p
  <2>1. f.array[f.at] \in Session /\ f.array[f.at].peer = p
    BY <1>1 DEF Place
  <2> QED
    BY <2>1, MarkedTyped
<1> HIDE DEF s
<1>3. Enter(n, f, s)
  BY DEF s
<1> HIDE DEF n
<1>4. /\ f.at <= count'[n] /\ sessions'[n][f.at] = s
      /\ \A m \in Nodes \ {n} : sessions'[m] = sessions[m] /\ count'[m] = count[m]
  BY <1>1, <1>2, <1>3, EnterIs
<1> USE DEF n
<1>5. slot'[t] = f.at /\ peer'[t] = p /\ \A u \in Callers \ {t} : slot'[u] = slot[u] /\ peer'[u] = peer[u]
  BY DEF Typed, TypeOK
<1>6. Points(t)'
  BY <1>2, <1>4, <1>5 DEF Points
<1> QED
  BY <1>4, <1>5, <1>6, OthersPoint

LEMMA CallPoints ==
  ASSUME Typed, OwnPointers, OneCaller, NEW t \in Callers, Call(t)
  PROVE  OwnPointers'
<1> USE DEF Typed, TypeOK
<1>1. ASSUME NEW p \in Nodes, NEW m \in Nodes, Connect(t, p, m) PROVE OwnPointers'
  <2>1. PICK f \in FoundOrAdded(Home[t], p) :
          /\ Enter(Home[t], f, [f.array[f.at] EXCEPT !.state = "CONNECTING", !.is_initiator = TRUE])
          /\ slot' = [slot EXCEPT ![t] = f.at]
    BY <1>1 DEF Connect
  <2>2. peer' = [peer EXCEPT ![t] = p] /\ \A u \in Callers \ {t} : pc'[u] = pc[u]
    BY <1>1 DEF Connect
  <2>3. "CONNECTING" \in States /\ TRUE \in BOOLEAN
    BY DEF States
  <2> QED
    BY <2>1, <2>2, <2>3, ConnectPoints
<1>2. ASSUME NEW p \in Nodes, AcceptPeer(t, p) PROVE OwnPointers'
  <2>1. PICK f \in FoundOrAdded(Home[t], p) :
          /\ Enter(Home[t], f, [f.array[f.at] EXCEPT !.state = "ESTABLISHED", !.is_initiator = FALSE])
          /\ slot' = [slot EXCEPT ![t] = f.at]
    BY <1>2 DEF AcceptPeer
  <2>2. peer' = [peer EXCEPT ![t] = p] /\ \A u \in Callers \ {t} : pc'[u] = pc[u]
    BY <1>2 DEF AcceptPeer
  <2>3. "ESTABLISHED" \in States /\ FALSE \in BOOLEAN
    BY DEF States
  <2> QED
    BY <2>1, <2>2, <2>3, ConnectPoints
<1>3. ASSUME NEW p \in Nodes, ConnectAtOnce(t, p) \/ Disconnect(t, p) \/ Send(t, p) \/ Recv(t, p)
      PROVE  OwnPointers'
  <2>1. pc[t] = "idle" /\ UNCHANGED <<pc, slot, peer>>
    BY <1>3 DEF ConnectAtOnce, Disconnect, Send, Recv, Begins
  <2>2. \A m \in Nodes \ {Home[t]} : sessions'[m] = sessions[m] /\ count'[m] = count[m]
    BY <1>3 DEF ConnectAtOnce, Disconnect, Send, Recv
  <2>3. Points(t)'
    BY <2>1 DEF Points
  <2> QED
    BY <2>1, <2>2, <2>3, OthersPoint
<1>4. ASSUME Cleanup(t) PROVE OwnPointers'
  <2>1. UNCHANGED <<table, slot, peer>> /\ pc' = [pc EXCEPT ![t] = "stop"]
    BY <1>4 DEF Cleanup
  <2>2. Points(t)'
    BY <2>1 DEF Points
  <2> QED
    BY <2>1, <2>2, OthersPoint DEF table
<1> QED
  BY <1>1, <1>2, <1>3, <1>4 DEF Call

\* What a caller that goes on writes, it writes through its pointer.
Through(t) ==
  /\ \A m \in Nodes, j \in Slots : sessions'[m][j].peer = sessions[m][j].peer
  /\ \A m \in Nodes, j \in Slots :
        m # Home[t] \/ j # slot[t] => sessions'[m][j] = sessions[m][j]

LEMMA WritesThrough ==
  ASSUME Typed, NEW t \in Callers, Continue(t)
  PROVE  /\ Through(t)
         /\ CleanedUp(t) \/ UNCHANGED count
         /\ UNCHANGED sessions \/ pc[t] \in {"send", "select", "recv", "keys"}
         /\ \A u \in Callers \ {t} : slot'[u] = slot[u] /\ peer'[u] = peer[u] /\ pc'[u] = pc[u]
<1>1. Home[t] \in Nodes /\ slot[t] \in Slots /\ {"IDLE", "ESTABLISHED"} \subseteq States
  BY HomeAssumption DEF Typed, TypeOK, States
<1>2. ASSUME NEW st \in States, SetState(t, st)
      PROVE  Through(t) /\ UNCHANGED count
  <2>1. /\ sessions' = [sessions EXCEPT ![Home[t]][slot[t]].state = st]
        /\ UNCHANGED count
    BY <1>2 DEF SetState
  <2> DEFINE n == Home[t]
             i == slot[t]
  <2>2. n \in Nodes /\ i \in Slots /\ sessions' = [sessions EXCEPT ![n][i].state = st]
    BY <1>1, <2>1
  <2> HIDE DEF n, i
  <2>3. /\ \A m \in Nodes, j \in Slots : sessions'[m][j].peer = sessions[m][j].peer
        /\ \A m \in Nodes, j \in Slots : m # n \/ j # i => sessions'[m][j] = sessions[m][j]
    BY <2>2, FieldsTyped
  <2> QED
    BY <2>1, <2>3 DEF Through, n, i
<1>3. ASSUME UNCHANGED sessions PROVE Through(t)
  BY <1>3 DEF Through
<1>4. Through(t) /\ (CleanedUp(t) \/ UNCHANGED count)
  <2>1. CASE SendHandshake(t)
    BY <1>1, <1>2, <1>3, <2>1 DEF SendHandshake, table
  <2>2. CASE AnswerTimeout(t) \/ ReceiveAnswer(t)
    BY <1>1, <1>2, <2>2 DEF AnswerTimeout, ReceiveAnswer
  <2>3. CASE AnswerReadable(t) \/ CleanedUp(t)
    BY <1>3, <2>3 DEF AnswerReadable, CleanedUp, table
  <2>4. CASE GenerateKeys(t)
    <3> DEFINE n == Home[t]
               i == slot[t]
    <3>1. n \in Nodes /\ i \in Slots /\ sessions' = [sessions EXCEPT ![n][i].is_secure = TRUE]
      BY <1>1, <2>4 DEF GenerateKeys
    <3>2. "IDLE" \in States /\ UNCHANGED count
      BY <1>1, <2>4 DEF GenerateKeys
    <3> HIDE DEF n, i
    <3>3. /\ \A m \in Nodes, j \in Slots : sessions'[m][j].peer = sessions[m][j].peer
          /\ \A m \in Nodes, j \in Slots : m # n \/ j # i => sessions'[m][j] = sessions[m][j]
      BY <3>1, <3>2, FieldsTyped
    <3> QED
      BY <3>2, <3>3 DEF Through, n, i
  <2> QED
    BY <2>1, <2>2, <2>3, <2>4 DEF Continue
<1>5. UNCHANGED sessions \/ pc[t] \in {"send", "select", "recv", "keys"}
  BY DEF Continue, SendHandshake, AnswerTimeout, AnswerReadable, ReceiveAnswer, GenerateKeys, CleanedUp
<1>6. \A u \in Callers \ {t} : slot'[u] = slot[u] /\ peer'[u] = peer[u] /\ pc'[u] = pc[u]
  BY DEF Continue, SendHandshake, AnswerTimeout, AnswerReadable, ReceiveAnswer, GenerateKeys, CleanedUp,
         Return, Typed, TypeOK
<1> QED
  BY <1>4, <1>5, <1>6

LEMMA ContinuePoints ==
  ASSUME Typed, OwnPointers, OneCaller, NEW t \in Callers, Continue(t)
  PROVE  OwnPointers'
<1>1. /\ Through(t) /\ (CleanedUp(t) \/ UNCHANGED count)
      /\ \A u \in Callers \ {t} : slot'[u] = slot[u] /\ peer'[u] = peer[u] /\ pc'[u] = pc[u]
  BY WritesThrough
<1>2. /\ Points(t) /\ slot[t] \in Slots /\ Home[t] \in Nodes
      /\ \A m \in Nodes : count[m] \in 0 .. MaxPeers /\ MaxPeers \in Nat
  BY HomeAssumption, PeersAssumption DEF OwnPointers, Typed, TypeOK
<1>3. Points(t)'
  <2>1. ASSUME NEW whom, Return(t, whom) PROVE Points(t)'
    BY <2>1, ReturnPoints
  <2>2. ASSUME UNCHANGED <<slot, peer, count>>, pc[t] \in {"send", "select", "recv", "keys"}
        PROVE  Points(t)'
    BY <1>1, <1>2, <2>2 DEF Points, Through
  <2>3. CASE SendHandshake(t)
    BY <2>1, <2>2, <2>3 DEF SendHandshake, table
  <2>4. CASE AnswerTimeout(t) \/ GenerateKeys(t)
    BY <2>1, <2>4 DEF AnswerTimeout, GenerateKeys
  <2>5. CASE AnswerReadable(t)
    BY <2>2, <2>5 DEF AnswerReadable, table
  <2>6. CASE ReceiveAnswer(t)
    BY <2>1, <2>2, <2>6 DEF ReceiveAnswer, SetState
  <2>7. CASE CleanedUp(t)
    BY <2>7 DEF CleanedUp, Points, Typed, TypeOK
  <2> QED
    BY <2>3, <2>4, <2>5, <2>6, <2>7 DEF Continue
<1>4. \A u \in Callers \ {t} : Points(u)'
  <2> SUFFICES ASSUME NEW u \in Callers \ {t} PROVE Points(u)'
    OBVIOUS
  <2>1. Home[u] \in Nodes /\ Home[u] # Home[t] /\ Points(u) /\ slot[u] \in Slots
    BY HomeAssumption DEF OneCaller, OwnPointers, Typed, TypeOK
  <2>2. count'[Home[u]] = count[Home[u]]
    BY <1>1, <2>1 DEF CleanedUp, Typed, TypeOK
  <2>3. sessions'[Home[u]][slot[u]] = sessions[Home[u]][slot[u]]
    BY <1>1, <2>1 DEF Through
  <2> QED
    BY <1>1, <2>1, <2>2, <2>3 DEF Points
<1> QED
  BY <1>3, <1>4 DEF OwnPointers

\* Who begins a call is not in one, and the others stay where they are in theirs.
LEMMA BeginsAlone ==
  ASSUME Typed, NEW t \in Callers, Call(t)
  PROVE  \A u \in Callers : pc[u] # "idle" => pc'[u] = pc[u]
<1>1. pc[t] = "idle"
  BY DEF Call, Connect, ConnectAtOnce, AcceptPeer, Disconnect, Send, Recv, Cleanup, Begins
<1>2. \A u \in Callers \ {t} : pc'[u] = pc[u]
  BY DEF Call, Connect, ConnectAtOnce, AcceptPeer, Disconnect, Send, Recv, Cleanup, Typed, TypeOK
<1> QED
  BY <1>1, <1>2

\* The listener and the network leave the calls where they are.
LEMMA ElsePoints ==
  ASSUME Typed, OwnPointers, UNCHANGED call,
         \A m \in Nodes : count[m] <= count'[m] /\ count'[m] \in Nat,
         \A m \in Nodes : \A j \in 1 .. count[m] : sessions'[m][j].peer = sessions[m][j].peer
  PROVE  OwnPointers'
<1> SUFFICES ASSUME NEW t \in Callers PROVE Points(t)'
  BY DEF OwnPointers
<1> QED
  BY PointsStay, HomeAssumption DEF OwnPointers, call

LEMMA ListenPoints ==
  ASSUME Typed, OwnPointers, NEW n \in Nodes, Listen(n)
  PROVE  OwnPointers'
<1>1. \A m \in Nodes : count[m] \in Nat /\ count[m] <= count[m]
  BY PeersAssumption DEF Typed, TypeOK
<1>2. CASE ListenReadable(n) \/ ListenEnd(n)
  <2>1. UNCHANGED <<table, call>>
    BY <1>2 DEF ListenReadable, ListenEnd
  <2> QED
    BY <1>1, <2>1, ElsePoints DEF table
<1>3. CASE ListenReceive(n)
  <2>1. /\ count' \in [Nodes -> 0 .. MaxPeers] /\ MaxPeers \in Nat
        /\ \A m \in Nodes : count[m] <= count'[m]
        /\ \A m \in Nodes : \A j \in 1 .. count[m] : sessions'[m][j].peer = sessions[m][j].peer
    BY <1>3, ReceiveTable, PeersAssumption DEF Listened
  <2>2. UNCHANGED call
    BY <1>3 DEF ListenReceive
  <2> QED
    BY <2>1, <2>2, ElsePoints
<1> QED
  BY <1>2, <1>3 DEF Listen

\* The pointer that relay_connect and relay_accept keep while they wait without the mutex
\* (friend_relay.c:296-399): the listener appends and moves nothing, so with one caller at
\* a node it stays a pointer to a session of the call's peer.
THEOREM OwnSessionsWritten == ASSUME OneCaller PROVE Spec => WritesOwnSession
<1>1. Init => OwnPointers
  BY DEF Init, OwnPointers, Points
<1>2. Typed /\ OwnPointers /\ [Next]_vars => OwnPointers'
  <2> SUFFICES ASSUME Typed, OwnPointers, [Next]_vars PROVE OwnPointers'
    OBVIOUS
  <2>1. CASE UNCHANGED vars
    BY <2>1 DEF vars, table, call, OwnPointers, Points
  <2>2. ASSUME (\E n \in Nodes : ArriveForeign(n)) \/ (\E d \in net : Arrive(d)) PROVE OwnPointers'
    <3>1. UNCHANGED <<table, call>>
      BY <2>2 DEF ArriveForeign, Arrive
    <3> QED
      BY <3>1 DEF table, call, OwnPointers, Points
  <2> QED
    BY <2>1, <2>2, CallPoints, ContinuePoints, ListenPoints DEF Next
<1> DEFINE A == \A t \in Callers : \A i \in Slots :
          /\ pc[t] # "idle" /\ pc'[t] # pc[t]
          /\ sessions'[Home[t]][i] # sessions[Home[t]][i]
          => i <= count[Home[t]] /\ sessions[Home[t]][i].peer = peer[t]
<1>3. Typed /\ OwnPointers /\ [Next]_vars => A
  <2> SUFFICES ASSUME Typed, OwnPointers, [Next]_vars, NEW t \in Callers, NEW i \in Slots,
                      pc[t] # "idle", pc'[t] # pc[t],
                      sessions'[Home[t]][i] # sessions[Home[t]][i]
               PROVE  i <= count[Home[t]] /\ sessions[Home[t]][i].peer = peer[t]
    OBVIOUS
  <2>2. \A u \in Callers : Call(u) => pc'[t] = pc[t]
    BY BeginsAlone
  <2>3. \A n \in Nodes : Listen(n) \/ ArriveForeign(n) => UNCHANGED pc
    BY DEF Listen, ListenReadable, ListenReceive, ListenEnd, ArriveForeign, call
  <2>4. \A d \in net : Arrive(d) => UNCHANGED pc
    BY DEF Arrive, call
  <2>5. PICK u \in Callers : Continue(u)
    BY <2>2, <2>3, <2>4 DEF Next, vars, call
  <2>6. u = t
    BY <2>5, WritesThrough
  <2>7. i = slot[t] /\ pc[t] \in {"send", "select", "recv", "keys"}
    BY <2>5, <2>6, WritesThrough, HomeAssumption DEF Through
  <2> QED
    BY <2>7 DEF OwnPointers, Points
<1> QED
  BY <1>1, <1>2, <1>3, TypedHolds, PTL DEF Spec, WritesOwnSession
=============================================================================
