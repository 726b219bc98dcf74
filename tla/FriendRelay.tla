---------------------------- MODULE FriendRelay -----------------------------
(***************************************************************************)
(* src/friend_relay.c: nodes that keep relay sessions with each other.     *)
(*                                                                         *)
(* A node has one RelayManager: a dense array of sessions under a mutex    *)
(* and one UDP socket.  Its listener thread and every thread inside        *)
(* relay_connect wait on that one socket with select and then recvfrom, so *)
(* whoever is first gets the datagram, and the other sits in a recvfrom    *)
(* that has no timeout.  relay_connect keeps its pointer into the array    *)
(* while it waits without the mutex.                                       *)
(*                                                                         *)
(* A session id is not modelled: nothing compares the one in an answer     *)
(* with the session's own, and a packet with a header may match any        *)
(* session or none.                                                        *)
(***************************************************************************)
EXTENDS Naturals, Sequences

CONSTANTS
    Nodes,      \* processes with a relay manager, named by the id of their user
    Callers,    \* threads that call relay_*
    Home,       \* the node of a caller
    MaxPeers,   \* RELAY_MAX_PEERS
    NoPeer,     \* the empty peer_id of a slot not used yet
    MaxCalls,   \* bound: calls of each caller
    MaxInbox,   \* bound: datagrams in a socket's receive buffer
    MaxNoise    \* bound: duplicated datagrams and packets of other programs

ASSUME HomeAssumption == Home \in [Callers -> Nodes]
ASSUME PeersAssumption == MaxPeers \in Nat \ {0}
ASSUME NoPeerAssumption == NoPeer \notin Nodes
ASSUME BoundsAssumption == MaxCalls \in [Callers -> Nat] /\ MaxInbox \in Nat /\ MaxNoise \in Nat

Slots == 1 .. MaxPeers
States == {"IDLE", "CONNECTING", "ESTABLISHED", "CLOSED"}
Session == [peer : Nodes \cup {NoPeer}, state : States, is_initiator : BOOLEAN,
            is_secure : BOOLEAN]
Blank == [peer |-> NoPeer, state |-> "IDLE", is_initiator |-> FALSE, is_secure |-> FALSE]

\* "RELAY_HANDSHAKE:peer:sid:me" and its answer "RELAY_HANDSHAKE_OK:sid".
Datagram == [kind : {"HANDSHAKE", "OK"}, from : Nodes, to : Nodes, peer : Nodes]
\* A packet with a RelayPacket header.
Foreign == [kind : {"PKT_HANDSHAKE", "PKT_HANDSHAKE_RESPONSE", "PKT_DATA", "PKT_CLOSE"}]

VARIABLES
    sessions,   \* mgr->sessions of each node
    count,      \* mgr->count
    status,     \* initialized, being cleaned up, cleaned up, or crashed
    listener,   \* where the listener thread is
    inbox,      \* the socket's receive buffer
    net,        \* datagrams under way
    pc,         \* where a caller is in its call
    slot,       \* its pointer to a session
    peer,       \* the peer_id of its call
    via,        \* the node its relay_ip and relay_port belong to
    returned,   \* whom its last relay_connect has connected it to, NoPeer if it failed
    calls,      \* calls made, for the bound only
    noise,      \* duplicates and foreign packets so far, for the bound only
    accepted,   \* history: nodes of which a listener has accepted a handshake
    opened      \* history: peers with whom a node got a session without asking for it

table == <<sessions, count>>
call == <<pc, slot, peer, via, returned, calls>>
history == <<accepted, opened>>
vars == <<table, status, listener, inbox, net, call, noise, history>>

TypeOK ==
    /\ sessions \in [Nodes -> [Slots -> Session]]
    /\ count \in [Nodes -> 0 .. MaxPeers]
    /\ status \in [Nodes -> {"up", "stopping", "down", "crashed"}]
    /\ listener \in [Nodes -> {"select", "recv", "ended"}]
    /\ \A n \in Nodes : inbox[n] \in Seq(Datagram \cup Foreign) /\ Len(inbox[n]) <= MaxInbox
    /\ net \subseteq Datagram
    /\ pc \in [Callers -> {"idle", "send", "select", "recv", "keys", "stop"}]
    /\ slot \in [Callers -> Slots]
    /\ peer \in [Callers -> Nodes]
    /\ via \in [Callers -> Nodes]
    /\ returned \in [Callers -> Nodes \cup {NoPeer}]
    /\ \A t \in Callers : calls[t] \in 0 .. MaxCalls[t]
    /\ noise \in 0 .. MaxNoise
    /\ accepted \subseteq Nodes
    /\ opened \in [Nodes -> SUBSET (Nodes \cup {NoPeer})]

Init ==
    /\ sessions = [n \in Nodes |-> [i \in Slots |-> Blank]]
    /\ count = [n \in Nodes |-> 0]
    /\ status = [n \in Nodes |-> "up"]
    /\ listener = [n \in Nodes |-> "select"]
    /\ inbox = [n \in Nodes |-> <<>>]
    /\ net = {}
    /\ pc = [t \in Callers |-> "idle"]
    /\ slot = [t \in Callers |-> 1]
    /\ peer = [t \in Callers |-> Home[t]]
    /\ via = [t \in Callers |-> Home[t]]
    /\ returned = [t \in Callers |-> NoPeer]
    /\ calls = [t \in Callers |-> 0]
    /\ noise = 0
    /\ accepted = {}
    /\ opened = [n \in Nodes |-> {}]

-----------------------------------------------------------------------------
(* The session table *)

Live(n, p) == {i \in 1 .. count[n] : sessions[n][i].peer = p}
FirstOf(S) == CHOOSE i \in S : \A j \in S : i <= j
New(p) == [Blank EXCEPT !.peer = p]

Compacted(n, i) ==
    [j \in Slots |-> IF i <= j /\ j < count[n] THEN sessions[n][j + 1] ELSE sessions[n][j]]

\* A slip: a full table makes room by dropping its oldest session.
AddedEvicting(n, s) ==
    IF count[n] < MaxPeers
    THEN {[array |-> [sessions[n] EXCEPT ![count[n] + 1] = s], at |-> count[n] + 1]}
    ELSE {[array |-> [Compacted(n, 1) EXCEPT ![MaxPeers] = s], at |-> MaxPeers]}

\* relay_add_session: the table with s added and s's slot, unless it is full.
Added(n, s) ==
    {[array |-> [sessions[n] EXCEPT ![i] = s], at |-> i] : i \in {count[n] + 1} \cap Slots}

\* relay_find_session, else relay_add_session.
FoundOrAdded(n, p) ==
    IF Live(n, p) # {}
    THEN {[array |-> sessions[n], at |-> FirstOf(Live(n, p))]}
    ELSE Added(n, New(p))

Connected(n, p) ==
    Live(n, p) # {} /\ sessions[n][FirstOf(Live(n, p))].state = "ESTABLISHED"

\* The table becomes f's, with the fields that are set in the session found.
Enter(n, f, s) ==
    /\ sessions' = [sessions EXCEPT ![n] = [f.array EXCEPT ![f.at] = s]]
    /\ count' = [count EXCEPT ![n] = IF f.at > @ THEN f.at ELSE @]

\* A write through the caller's pointer, whatever the slot holds by now.
SetState(t, st) ==
    /\ sessions' = [sessions EXCEPT ![Home[t]][slot[t]].state = st]
    /\ UNCHANGED count

-----------------------------------------------------------------------------
(* The network: datagrams are lost, duplicated, delayed and reordered. *)

Arrive(d) ==
    /\ d \in net
    /\ status[d.to] \in {"up", "stopping"}
    /\ Len(inbox[d.to]) < MaxInbox
    /\ inbox' = [inbox EXCEPT ![d.to] = Append(@, d)]
    /\ \/ net' = net \ {d} /\ noise' = noise
       \/ net' = net /\ noise < MaxNoise /\ noise' = noise + 1
    /\ UNCHANGED <<table, status, listener, call, history>>

ArriveForeign(n) ==
    /\ noise < MaxNoise
    /\ status[n] \in {"up", "stopping"}
    /\ Len(inbox[n]) < MaxInbox
    /\ \E f \in Foreign : inbox' = [inbox EXCEPT ![n] = Append(@, f)]
    /\ noise' = noise + 1
    /\ UNCHANGED <<table, status, listener, net, call, history>>

Taken(n) == inbox' = [inbox EXCEPT ![n] = Tail(@)]

-----------------------------------------------------------------------------
(* Calls *)

Begins(t) ==
    /\ pc[t] = "idle"
    /\ status[Home[t]] = "up"
    /\ calls[t] < MaxCalls[t]
    /\ calls' = [calls EXCEPT ![t] = @ + 1]

\* The call returns and its locals are gone.
Return(t, whom) ==
    /\ pc' = [pc EXCEPT ![t] = "idle"]
    /\ returned' = [returned EXCEPT ![t] = whom]
    /\ slot' = [slot EXCEPT ![t] = 1]
    /\ peer' = [peer EXCEPT ![t] = Home[t]]
    /\ via' = [via EXCEPT ![t] = Home[t]]
    /\ UNCHANGED calls

\* relay_connect that has nothing to wait for: it succeeds if the session there is has
\* been established, by whomever, and fails if there is none and the table is full.
ConnectAtOnce(t, p) ==
    LET n == Home[t] IN
    /\ Begins(t)
    /\ p # n
    /\ returned' = [returned EXCEPT ![t] = IF Connected(n, p) THEN p ELSE NoPeer]
    /\ Connected(n, p) \/ FoundOrAdded(n, p) = {}
    /\ UNCHANGED <<table, status, listener, inbox, net, pc, slot, peer, via, noise, history>>

\* relay_connect up to the unlock, otherwise.
Connect(t, p, m) ==
    LET n == Home[t] IN
    /\ Begins(t)
    /\ p # n /\ m # n
    /\ ~Connected(n, p)
    /\ \E f \in FoundOrAdded(n, p) :
          /\ Enter(n, f, [f.array[f.at] EXCEPT !.state = "CONNECTING", !.is_initiator = TRUE])
          /\ slot' = [slot EXCEPT ![t] = f.at]
    /\ peer' = [peer EXCEPT ![t] = p]
    /\ via' = [via EXCEPT ![t] = m]
    /\ pc' = [pc EXCEPT ![t] = "send"]
    /\ returned' = [returned EXCEPT ![t] = NoPeer]
    /\ UNCHANGED <<status, listener, inbox, net, noise, history>>

SendHandshake(t) ==
    /\ pc[t] = "send"
    /\ \/ /\ net' = net \cup {[kind |-> "HANDSHAKE", from |-> Home[t], to |-> via[t],
                               peer |-> peer[t]]}
          /\ pc' = [pc EXCEPT ![t] = "select"]
          /\ UNCHANGED <<table, slot, peer, via, returned, calls>>
       \/ \* sendto fails
          /\ SetState(t, "IDLE")
          /\ Return(t, NoPeer)
          /\ UNCHANGED net
    /\ UNCHANGED <<status, listener, inbox, noise, history>>

\* A slip: the wait for the answer has no limit.
AnswerTimeoutNever(t) ==
    FALSE /\ pc[t] = "select" /\ UNCHANGED vars

\* No answer within RELAY_TIMEOUT: "Relay handshake timeout".
AnswerTimeout(t) ==
    /\ pc[t] = "select"
    /\ SetState(t, "IDLE")
    /\ Return(t, NoPeer)
    /\ UNCHANGED <<status, listener, inbox, net, noise, history>>

\* select reports the socket readable.
AnswerReadable(t) ==
    /\ pc[t] = "select"
    /\ inbox[Home[t]] # <<>>
    /\ pc' = [pc EXCEPT ![t] = "recv"]
    /\ UNCHANGED <<table, status, listener, inbox, net, slot, peer, via, returned, calls, noise,
                   history>>

\* A slip: any datagram is taken for the answer.
IsOkAnything(d) == d = d

\* strstr(buffer, "RELAY_HANDSHAKE_OK")
IsOk(d) == d.kind = "OK"

\* recvfrom gives the first datagram there is, and it is the answer or not.
ReceiveAnswer(t) ==
    LET n == Home[t] IN
    /\ pc[t] = "recv"
    /\ inbox[n] # <<>>
    /\ Taken(n)
    /\ \/ /\ IsOk(Head(inbox[n]))
          /\ SetState(t, "ESTABLISHED")
          /\ pc' = [pc EXCEPT ![t] = "keys"]
          /\ returned' = [returned EXCEPT ![t] = peer[t]]
          /\ UNCHANGED <<slot, peer, via, calls>>
       \/ /\ ~IsOk(Head(inbox[n]))
          /\ SetState(t, "IDLE")
          /\ Return(t, NoPeer)
    /\ UNCHANGED <<status, listener, net, noise, history>>

\* relay_generate_session_keys, through the pointer and without the mutex.
GenerateKeys(t) ==
    /\ pc[t] = "keys"
    /\ sessions' = [sessions EXCEPT ![Home[t]][slot[t]].is_secure = TRUE]
    /\ Return(t, returned[t])
    /\ UNCHANGED <<count, status, listener, inbox, net, noise, history>>

\* relay_accept up to the unlock.
AcceptPeer(t, p) ==
    LET n == Home[t] IN
    /\ Begins(t)
    /\ p # n
    /\ \E f \in FoundOrAdded(n, p) :
          /\ Enter(n, f, [f.array[f.at] EXCEPT !.state = "ESTABLISHED", !.is_initiator = FALSE])
          /\ slot' = [slot EXCEPT ![t] = f.at]
    /\ opened' = [opened EXCEPT ![n] = @ \cup {p}]
    /\ peer' = [peer EXCEPT ![t] = p]
    /\ pc' = [pc EXCEPT ![t] = "keys"]
    /\ UNCHANGED <<status, listener, inbox, net, via, returned, noise, accepted>>

\* relay_disconnect removes the first session of p.
Disconnect(t, p) ==
    LET n == Home[t] IN
    /\ Begins(t)
    /\ Live(n, p) # {}
    /\ sessions' = [sessions EXCEPT ![n] = Compacted(n, FirstOf(Live(n, p)))]
    /\ count' = [count EXCEPT ![n] = @ - 1]
    /\ UNCHANGED <<status, listener, inbox, net, pc, slot, peer, via, returned, noise, history>>

\* relay_send on an established session: relay_send_packet looks for the socket
\* in g_relay_mgr, which nothing sets, and the process dies.
Send(t, p) ==
    /\ Begins(t)
    /\ Connected(Home[t], p)
    /\ status' = [status EXCEPT ![Home[t]] = "crashed"]
    /\ UNCHANGED <<table, listener, inbox, net, pc, slot, peer, via, returned, noise, history>>

\* relay_recv takes the next datagram, whatever it is.
Recv(t, p) ==
    /\ Begins(t)
    /\ Connected(Home[t], p)
    /\ inbox[Home[t]] # <<>>
    /\ Taken(Home[t])
    /\ UNCHANGED <<table, status, listener, net, pc, slot, peer, via, returned, noise, history>>

\* relay_manager_cleanup stops the listener and waits for it, when no other
\* call is under way.
Cleanup(t) ==
    /\ Begins(t)
    /\ \A u \in Callers : Home[u] = Home[t] => pc[u] = "idle"
    /\ status' = [status EXCEPT ![Home[t]] = "stopping"]
    /\ pc' = [pc EXCEPT ![t] = "stop"]
    /\ UNCHANGED <<table, listener, inbox, net, slot, peer, via, returned, noise, history>>

CleanedUp(t) ==
    LET n == Home[t] IN
    /\ pc[t] = "stop"
    /\ listener[n] = "ended"
    /\ count' = [count EXCEPT ![n] = 0]
    /\ inbox' = [inbox EXCEPT ![n] = <<>>]
    /\ status' = [status EXCEPT ![n] = "down"]
    /\ pc' = [pc EXCEPT ![t] = "idle"]
    /\ UNCHANGED <<sessions, listener, net, slot, peer, via, returned, calls, noise, history>>

-----------------------------------------------------------------------------
(* relay_listener_thread *)

\* Its turns begin while the node is up, but select may outlast that.
ListenReadable(n) ==
    /\ listener[n] = "select"
    /\ status[n] \in {"up", "stopping"}
    /\ inbox[n] # <<>>
    /\ listener' = [listener EXCEPT ![n] = "recv"]
    /\ UNCHANGED <<table, status, inbox, net, call, noise, history>>

\* The session a handshake opens, under the peer_id the handshake is for.
Opened(p) == [peer |-> p, state |-> "ESTABLISHED", is_initiator |-> FALSE, is_secure |-> TRUE]

\* A handshake adds a session, even if the peer has one, and is answered.
AcceptHandshake(n, d) ==
    IF Added(n, Blank) = {} THEN UNCHANGED <<table, net, history>>
    ELSE
      \E f \in Added(n, Opened(d.peer)) :
          /\ Enter(n, f, f.array[f.at])
          /\ net' = net \cup {[kind |-> "OK", from |-> n, to |-> d.from, peer |-> d.peer]}
          /\ accepted' = accepted \cup {d.from}
          /\ opened' = [opened EXCEPT ![n] = @ \cup {d.peer}]

\* So does a handshake in a packet with a header, if no session has its id; the answer
\* goes to the program that has sent it.
AcceptPacketHandshake(n) ==
    \E p \in Nodes : \E f \in Added(n, Opened(p)) :
        /\ Enter(n, f, f.array[f.at])
        /\ opened' = [opened EXCEPT ![n] = @ \cup {p}]
        /\ UNCHANGED <<net, accepted>>

\* relay_process_packet on the session with the packet's id.
ProcessPacket(n, kind) ==
    /\ \E i \in 1 .. count[n] :
          /\ sessions' = [sessions EXCEPT ![n][i].state =
                            CASE kind = "PKT_HANDSHAKE_RESPONSE" -> "ESTABLISHED"
                              [] kind = "PKT_CLOSE" -> "CLOSED"
                              [] OTHER -> @]
          /\ opened' = IF kind = "PKT_HANDSHAKE_RESPONSE"
                       THEN [opened EXCEPT ![n] = @ \cup {sessions[n][i].peer}]
                       ELSE opened
    /\ UNCHANGED <<count, net, accepted>>

\* recvfrom and what is done with the datagram: a packet for no session, and an answer to
\* somebody's handshake, which is not for the listener, are dropped.
ListenReceive(n) ==
    LET d == Head(inbox[n]) IN
    /\ listener[n] = "recv"
    /\ status[n] \in {"up", "stopping"}
    /\ inbox[n] # <<>>
    /\ Taken(n)
    /\ listener' = [listener EXCEPT ![n] = IF status[n] = "up" THEN "select" ELSE "ended"]
    /\ \/ d \in Foreign /\ ProcessPacket(n, d.kind)
       \/ d.kind = "PKT_HANDSHAKE" /\ AcceptPacketHandshake(n)
       \/ d.kind = "HANDSHAKE" /\ AcceptHandshake(n, d)
       \/ (d \in Foreign \/ d.kind = "OK") /\ UNCHANGED <<table, net, history>>
    /\ UNCHANGED <<status, call, noise>>

ListenEnd(n) ==
    /\ listener[n] = "select"
    /\ status[n] = "stopping"
    /\ listener' = [listener EXCEPT ![n] = "ended"]
    /\ UNCHANGED <<table, status, inbox, net, call, noise, history>>

-----------------------------------------------------------------------------
Listen(n) == ListenReadable(n) \/ ListenReceive(n) \/ ListenEnd(n)

Continue(t) ==
    /\ status[Home[t]] # "crashed"
    /\ \/ SendHandshake(t) \/ AnswerTimeout(t) \/ AnswerReadable(t) \/ ReceiveAnswer(t)
       \/ GenerateKeys(t) \/ CleanedUp(t)

Call(t) ==
    \/ \E p \in Nodes : \/ \E m \in Nodes : Connect(t, p, m)
                        \/ ConnectAtOnce(t, p) \/ AcceptPeer(t, p) \/ Disconnect(t, p)
                        \/ Send(t, p) \/ Recv(t, p)
    \/ Cleanup(t)

Next ==
    \/ \E t \in Callers : Call(t) \/ Continue(t)
    \/ \E n \in Nodes : Listen(n) \/ ArriveForeign(n)
    \/ \E d \in net : Arrive(d)

Spec == Init /\ [][Next]_vars

\* A thread that can take its next step takes it: select times out.
Fairness ==
    /\ \A t \in Callers : WF_vars(Continue(t))
    /\ \A n \in Nodes : WF_vars(Listen(n))

FairSpec == Spec /\ Fairness

-----------------------------------------------------------------------------
(* Properties *)

\* relay_connect succeeds for a peer only if a node has accepted a handshake of this one,
\* or the session with that peer was opened from elsewhere: by relay_accept, by a handshake
\* or a response that came in.  No other datagram that a caller or the listener takes, and
\* nothing an earlier failed call has left in the table, makes a success.  (An answer that
\* comes late counts, whichever attempt it was for: nothing in it is compared.)
SuccessWasAnswered ==
    \A t \in Callers : returned[t] # NoPeer =>
        Home[t] \in accepted \/ returned[t] \in opened[Home[t]]

\* The pointer that relay_connect and relay_accept keep while they wait without
\* the mutex: what they write through it goes to a session of their own peer,
\* although the listener adds sessions meanwhile.  (For one caller a node; a
\* second one may compact the array.)
WritesOwnSession ==
    [][\A t \in Callers : \A i \in Slots :
          /\ pc[t] # "idle" /\ pc'[t] # pc[t]
          /\ sessions'[Home[t]][i] # sessions[Home[t]][i]
          => i <= count[Home[t]] /\ sessions[Home[t]][i].peer = peer[t]]_vars

\* Somebody at node n is in recvfrom for a datagram that another thread took.
Robbed(n) ==
    /\ inbox[n] = <<>>
    /\ \/ listener[n] = "recv"
       \/ \E t \in Callers : Home[t] = n /\ pc[t] = "recv"

\* Every call returns, cleanup included, but for the one race there is: two
\* threads have seen one datagram, and the second waits for the next.
CallsReturn ==
    \A t \in Callers : pc[t] # "idle" ~> pc[t] = "idle" \/ Robbed(Home[t])
=============================================================================
