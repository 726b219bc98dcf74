---------------------------- MODULE DaemonFriends ----------------------------
(***************************************************************************)
(* The five threads of the daemon that share the peer table and the event  *)
(* queue: the IPC thread that runs the user's commands one at a time and   *)
(* the P2P thread that reads the P2P socket (daemon.c), the thread that    *)
(* pops and processes events (daemon.c, event_loop.c), the P2P listener    *)
(* that reads the same socket, and the P2P keepalive (p2p_manager.c).      *)
(*                                                                         *)
(* A thread runs a command, a datagram or an event as a sequence of calls  *)
(* into the state manager, the P2P table and the queue, none of which is   *)
(* atomic with the next; todo[t] is what thread t has still to do.         *)
(* Of the three mutexes g_p2p_mutex is held over several calls, and so is  *)
(* g_state_mutex while a delivery pushes its events, and the queue's while *)
(* an event is taken out.  Any other call takes its mutex and lets it go.  *)
(* Identifiers stand for peers, and a peer has one address: a datagram     *)
(* from an address is a datagram from the peer that has it, whoever it may *)
(* say that it speaks for.  The chat history, which nobody reads, and the  *)
(* calls that fill it are left out.                                        *)
(*                                                                         *)
(* Names are kept apart from those of EventQueue and Lifecycle, beside     *)
(* which Daemon_proofs takes them up.                                      *)
(***************************************************************************)
EXTENDS Integers, Sequences, FiniteSets, SequencesExt

CONSTANTS
  MaxPeers, MaxGhosts, Ids, NoId, Ips, NoIp, Ports, NoPtr,  \* of StateManager
  Saved,          \* the peers state_load reads from state.json
  QueueSize,      \* EVENT_QUEUE_SIZE
  Strangers,      \* peers not in the P2P table that may send a handshake
  MaxCommands,    \* bound: the user's commands
  MaxDatagrams,   \* bound: the datagrams that arrive
  MaxTicks        \* bound: the keepalive rounds that find a silent peer

ASSUME TableAssumption ==
  /\ {MaxPeers, MaxGhosts, QueueSize} \subseteq Nat \ {0}
  /\ IsFiniteSet(Ids) /\ NoId \notin Ids /\ Strangers \subseteq Ids
  /\ Ips # {} /\ Ports # {} /\ Ports \subseteq Nat \ {0}
ASSUME InputsAssumption == {MaxCommands, MaxDatagrams, MaxTicks} \subseteq Nat

VARIABLES
  peers, peer_count, ghosts, ptr,  \* the state manager's
  queue,          \* the event queue, the oldest event first
  conn,           \* the state of each peer in the P2P table, or "NONE"
  p2pLock,        \* the thread that holds g_p2p_mutex, or "free"
  stateLock,      \* the thread that holds g_state_mutex, or "free"
  queueLock,      \* the thread that holds g_queue_mutex, or "free"
  todo,           \* the calls each thread has still to make
  inputs          \* how many commands, datagrams and ticks there were

\* The threads that call the state manager; the P2P thread only pushes.
Threads == {"ipc", "event", "listener", "keepalive"}
PeerStates == {"UNKNOWN", "REQUEST_SENT", "REQUEST_RECEIVED", "FRIEND"}

SM == INSTANCE StateManager

state == <<peers, peer_count, ghosts, ptr>>
p2p == <<conn, p2pLock>>
locks == <<stateLock, queueLock>>
friendsVars == <<state, queue, p2p, locks, todo, inputs>>

Event == [type : {"ADD_REQUEST", "ACCEPT_CONFIRM", "REJECT_CONFIRM",
                  "MESSAGE_RECEIVED", "PEER_OFFLINE", "GHOST_DELIVERED"},
          id : Ids \cup {NoId}]

ConnState == {"NONE", "DISCONNECTED", "CONNECTING", "HANDSHAKE", "ESTABLISHED"}

UserCommands == {"add", "accept", "reject", "search", "ghost", "chat_send"}

\* The messages the listener acts on; a keepalive only refreshes a timestamp.
Messages == {"HANDSHAKE", "HANDSHAKE_RESPONSE", "DATA", "CLOSE",
             "ADD_REQUEST", "ACCEPT_CONFIRM", "REJECT_CONFIRM"}

\* state_save writes the peers in the order of the table; state_load reads
\* them back, offline each, for "true" and "false" are not the numbers it scans.
SavedPeer(i) == Saved[i + 1]
ASSUME SavedAssumption ==
  /\ Saved \in Seq(SM!Peer) /\ Len(Saved) <= MaxPeers
  /\ \A k \in DOMAIN Saved : Saved[k].id # NoId /\ ~Saved[k].online
  /\ \A j, k \in DOMAIN Saved : Saved[j].id = Saved[k].id => j = k

FriendsInit ==
  /\ peers = [i \in SM!Slots |-> IF i < Len(Saved) THEN SavedPeer(i) ELSE SM!Record(NoId)]
  /\ peer_count = Len(Saved)
  /\ ghosts = << >>
  /\ ptr = [t \in Threads |-> NoPtr]
  /\ queue = << >>
  /\ conn = [id \in Ids |-> "NONE"]
  /\ p2pLock = "free" /\ stateLock = "free" /\ queueLock = "free"
  /\ todo = [t \in Threads |-> << >>]
  /\ inputs = [commands |-> 0, datagrams |-> 0, ticks |-> 0]

----------------------------------------------------------------------------
(* The calls a thread makes.                                                *)

Op(op, id) == [op |-> op, id |-> id]
Update(id, s) == [op |-> "update", id |-> id, state |-> s]
Set(id, f, v) == [op |-> "set", id |-> id, write |-> [field |-> f, value |-> v]]
PushCall(type, id) == [op |-> "push", id |-> id, event |-> [type |-> type, id |-> id]]
\* A call that reads the record it holds a pointer to.
Read(op, id, slot) == [op |-> op, id |-> id, slot |-> slot]

\* The address of a peer, as the network or the DHT gives it.
PeerIp == CHOOSE ip \in Ips : TRUE
PeerPort == CHOOSE port \in Ports : TRUE
SetAddress(id) == <<Set(id, "ip", PeerIp), Set(id, "port", PeerPort)>>

At(t, op) == todo[t] # << >> /\ Head(todo[t]).op = op
Arg(t) == Head(todo[t])

\* The head call is done, and these take its place.
Then(t, calls) == todo' = [todo EXCEPT ![t] = calls \o Tail(@)]
Return(t) == Then(t, << >>)

----------------------------------------------------------------------------
(* Calls into the state manager.  Each waits for g_state_mutex.             *)

CallUpdate(t) ==
  LET c == Arg(t) IN
  /\ At(t, "update")
  /\ stateLock = "free"
  /\ SM!UpdatePeer(c.id, c.state)
  /\ Return(t)
  /\ UNCHANGED <<ghosts, ptr, queue, p2p, locks, inputs>>

CallRemove(t) ==
  LET c == Arg(t) IN
  /\ At(t, "remove")
  /\ stateLock = "free"
  /\ SM!RemovePeer(c.id)
  /\ Return(t)
  /\ UNCHANGED <<ghosts, queue, p2p, locks, inputs>>

CallAdd(t) ==
  /\ At(t, "state_add")
  /\ stateLock = "free"
  /\ SM!AddPeer(Arg(t).id)
  /\ Return(t)
  /\ UNCHANGED <<ghosts, ptr, queue, p2p, locks, inputs>>

\* A setter looks its peer up, and writes in a second critical section.
CallSetLookup(t) ==
  LET c == Arg(t) IN
  /\ At(t, "set")
  /\ stateLock = "free"
  /\ ptr[t] = NoPtr
  /\ SM!GetPeer(t, c.id, c.write)
  /\ IF SM!Known(c.id) THEN UNCHANGED todo ELSE Return(t)
  /\ UNCHANGED <<peers, peer_count, ghosts, queue, p2p, locks, inputs>>

CallSetWrite(t) ==
  /\ At(t, "set")
  /\ stateLock = "free"
  /\ SM!SetField(t)
  /\ Return(t)
  /\ UNCHANGED <<queue, p2p, locks, inputs>>

CallStoreGhost(t) ==
  /\ At(t, "store_ghost")
  /\ stateLock = "free"
  /\ SM!AddGhostMessage(Arg(t).id)
  /\ Return(t)
  /\ UNCHANGED <<peer_count, ptr, queue, p2p, locks, inputs>>

\* Every message delivered offers an event, and the mutex is held until the
\* last of them is pushed.
CallDeliver(t) ==
  LET id == Arg(t).id
      n == Cardinality(SM!Waiting(id))
  IN  /\ At(t, "deliver")
      /\ stateLock = "free"
      /\ SM!DeliverGhostMessages(id)
      /\ stateLock' = t
      /\ Then(t, [k \in 1 .. n |-> PushCall("GHOST_DELIVERED", id)]
                   \o <<Op("state_unlock", NoId)>>)
      /\ UNCHANGED <<peer_count, ptr, queue, queueLock, p2p, inputs>>

CallStateUnlock(t) ==
  /\ At(t, "state_unlock")
  /\ stateLock' = "free"
  /\ Return(t)
  /\ UNCHANGED <<state, queue, queueLock, p2p, inputs>>

----------------------------------------------------------------------------
(* The queue, and event_process.                                            *)

\* event_queue_push: a full queue drops the event.
Pushed(event) == IF Len(queue) < QueueSize THEN Append(queue, event) ELSE queue

CallPush(t) ==
  /\ At(t, "push")
  /\ queueLock = "free"
  /\ queue' = Pushed(Arg(t).event)
  /\ Return(t)
  /\ UNCHANGED <<state, p2p, locks, inputs>>

\* event_create fills in peer_id alone, so a confirmation pushed by the P2P
\* code reaches its handler with an empty from_id (NoId).
Handler(e) ==
  CASE e.type = "ADD_REQUEST" ->
         <<Update(e.id, "REQUEST_RECEIVED")>> \o SetAddress(e.id)
    [] e.type = "ACCEPT_CONFIRM" ->
         <<Update(e.id, "FRIEND"), Set(e.id, "online", TRUE)>> \o SetAddress(e.id)
           \o <<Op("deliver", e.id)>>
    [] e.type = "REJECT_CONFIRM" -> <<Op("remove", e.id)>>
    [] e.type = "MESSAGE_RECEIVED" -> <<Set(e.id, "online", TRUE)>>
    [] e.type = "PEER_OFFLINE" -> <<Set(e.id, "online", FALSE)>>
    [] e.type = "GHOST_DELIVERED" -> << >>

\* Every call of a handler returns at once when it is given the empty id.
Handled(e) == IF e.id = NoId THEN << >> ELSE Handler(e)

\* A slip: the queue's mutex is let go when the handler has returned.
PopEventHolding ==
  /\ todo["event"] = << >> /\ queueLock = "free"
  /\ queue # << >>
  /\ queue' = Tail(queue)
  /\ queueLock' = "event"
  /\ todo' = [todo EXCEPT !["event"] =
                Handled(Head(queue)) \o <<Op("queue_unlock", NoId)>>]
  /\ UNCHANGED <<state, p2p, stateLock, inputs>>

\* event_queue_pop lets its mutex go before the event is processed.
PopEvent ==
  /\ todo["event"] = << >> /\ queueLock = "free"
  /\ queue # << >>
  /\ queue' = Tail(queue)
  /\ queueLock' = "event"
  /\ todo' = [todo EXCEPT !["event"] =
                <<Op("queue_unlock", NoId)>> \o Handled(Head(queue))]
  /\ UNCHANGED <<state, p2p, stateLock, inputs>>

CallQueueUnlock(t) ==
  /\ At(t, "queue_unlock")
  /\ queueLock' = "free"
  /\ Return(t)
  /\ UNCHANGED <<state, queue, stateLock, p2p, inputs>>

----------------------------------------------------------------------------
(* g_p2p_mutex and the P2P table.                                           *)

CallLock(t) ==
  /\ At(t, "lock")
  /\ p2pLock = "free"
  /\ p2pLock' = t
  /\ Return(t)
  /\ UNCHANGED <<state, queue, conn, locks, inputs>>

CallUnlock(t) ==
  /\ At(t, "unlock")
  /\ p2pLock' = "free"
  /\ Return(t)
  /\ UNCHANGED <<state, queue, conn, locks, inputs>>

\* find_peer takes and releases the mutex.
CallFindPeer(t) ==
  /\ At(t, "find_peer")
  /\ p2pLock = "free"
  /\ Return(t)
  /\ UNCHANGED <<state, queue, p2p, locks, inputs>>

\* p2p_connect after find_peer: already on its way, or to be looked up.
CallConnect(t) ==
  LET id == Arg(t).id IN
  /\ At(t, "connect")
  /\ IF conn[id] \in {"HANDSHAKE", "ESTABLISHED"} THEN Return(t)
                                               ELSE Then(t, <<Op("dial", id)>>)
  /\ UNCHANGED <<state, queue, p2p, locks, inputs>>

\* The DHT does not find the peer; or add_peer takes the mutex for its record,
\* which is then written without it.
CallDial(t) ==
  LET id == Arg(t).id IN
  /\ At(t, "dial")
  /\ \/ /\ Return(t)
        /\ UNCHANGED conn
     \/ /\ p2pLock = "free"
        /\ conn' = [conn EXCEPT ![id] = "CONNECTING"]
        /\ Then(t, <<Op("handshake", id)>>)
  /\ UNCHANGED <<state, queue, p2pLock, locks, inputs>>

\* The punch and send_handshake, which the mutex does not cover: whatever the
\* listener has made of the connection meanwhile is overwritten.  Neither can
\* succeed for good: the handshake is to be signed with the key in the clear,
\* which an identity read back from its file without a passcode never has.
CallHandshake(t) ==
  LET id == Arg(t).id IN
  /\ At(t, "handshake")
  /\ conn' = [conn EXCEPT ![id] = "DISCONNECTED"]
  /\ Return(t)
  /\ UNCHANGED <<state, queue, p2pLock, locks, inputs>>

\* p2p_accept after find_peer.  A peer that is not in the handshake is refused;
\* one that is has no key that generate_session_keys could read.
CallAcceptPeer(t) ==
  /\ At(t, "accept_peer")
  /\ Return(t)
  /\ UNCHANGED <<state, queue, p2p, locks, inputs>>

----------------------------------------------------------------------------
(* The listener.                                                            *)

Receive ==
  /\ todo["listener"] = << >>
  /\ inputs.datagrams < MaxDatagrams
  /\ inputs' = [inputs EXCEPT !.datagrams = @ + 1]
  /\ \E id \in Ids, m \in Messages :
       /\ conn[id] # "NONE" \/ (id \in Strangers /\ m = "HANDSHAKE")
       /\ todo' = [todo EXCEPT !["listener"] = <<Op("lock", id), Op(m, id), Op("unlock", id)>>]
  /\ UNCHANGED <<state, queue, p2p, locks>>

\* The handlers of process_message that go on to the state manager.  Data is
\* the sender's; whom a request or its answer is from, its payload says.
Process(m) ==
  LET id == Arg("listener").id
      t == "listener"
  IN
  /\ At(t, m)
  /\ conn[id] # "NONE"
  /\ \E from \in Ids :
       \/ /\ m = "DATA" /\ from = id
          /\ Then(t, <<PushCall("MESSAGE_RECEIVED", id)>>)
       \/ /\ m = "ADD_REQUEST"
          /\ Then(t, <<Update(from, "REQUEST_RECEIVED")>> \o SetAddress(from)
                       \o <<PushCall("ADD_REQUEST", from)>>)
       \/ /\ m = "ACCEPT_CONFIRM"
          /\ Then(t, <<Update(from, "FRIEND"), Set(from, "online", TRUE)>> \o SetAddress(from)
                       \o <<Op("deliver", from), PushCall("ACCEPT_CONFIRM", NoId)>>)
       \/ /\ m = "REJECT_CONFIRM"
          /\ Then(t, <<Op("remove", from), PushCall("REJECT_CONFIRM", NoId)>>)
  /\ UNCHANGED <<state, queue, p2p, locks, inputs>>

\* A handshake response establishes the connection in any state, a close ends
\* it and leaves the peer online.
ProcessState(m) ==
  LET id == Arg("listener").id IN
  /\ At("listener", m)
  /\ conn[id] # "NONE"
  /\ conn' = [conn EXCEPT ![id] = IF m = "CLOSE" THEN "DISCONNECTED" ELSE "ESTABLISHED"]
  /\ Return("listener")
  /\ UNCHANGED <<state, queue, p2pLock, locks, inputs>>

\* A slip: a refused message leaves the listener's turn with the mutex held.
ProcessRefusedHolding ==
  /\ \E m \in Messages : At("listener", m)
  /\ todo' = [todo EXCEPT !["listener"] = << >>]
  /\ UNCHANGED <<state, queue, p2p, locks, inputs>>

\* A message that changes nothing: its version is another or its cipher text
\* broken, or it is a handshake.  handle_handshake needs a PEM to verify the
\* signature with and 64 hexadecimal digits to derive the session keys from, and
\* a handshake from an address that is not in the table may have no key in it.
ProcessRefused ==
  /\ \E m \in Messages : At("listener", m)
  /\ Return("listener")
  /\ UNCHANGED <<state, queue, p2p, locks, inputs>>

\* A handshake with a key, from an address that is not in the table: add_peer
\* takes g_p2p_mutex, which the listener holds already.
ProcessStranger ==
  LET id == Arg("listener").id IN
  /\ At("listener", "HANDSHAKE")
  /\ conn[id] = "NONE"
  /\ Then("listener", <<Op("lock", id), Op("unlock", id)>>)
  /\ UNCHANGED <<state, queue, p2p, locks, inputs>>

Listener ==
  \/ Receive
  \/ \E m \in {"DATA", "ADD_REQUEST", "ACCEPT_CONFIRM", "REJECT_CONFIRM"} : Process(m)
  \/ \E m \in {"HANDSHAKE_RESPONSE", "CLOSE"} : ProcessState(m)
  \/ ProcessRefused
  \/ ProcessStranger

----------------------------------------------------------------------------
(* The keepalive.                                                           *)

\* A round looks at the peers in turn, the mutex held throughout.
Tick ==
  /\ todo["keepalive"] = << >>
  /\ inputs.ticks < MaxTicks
  /\ \E id \in Ids : conn[id] = "ESTABLISHED"
  /\ inputs' = [inputs EXCEPT !.ticks = @ + 1]
  /\ LET order == SetToSeq(Ids)
         visits == [k \in DOMAIN order |-> Op("visit", order[k])]
     IN  todo' = [todo EXCEPT !["keepalive"] =
                    <<Op("lock", NoId)>> \o visits \o <<Op("unlock", NoId)>>]
  /\ UNCHANGED <<state, queue, p2p, locks>>

\* The peer is not connected, was heard of lately, has been sent a keepalive
\* (which counts as activity), or is silent and could not be sent one.
Visit ==
  LET t == "keepalive"
      id == Arg(t).id
  IN
  /\ At(t, "visit")
  /\ \/ /\ Return(t)
        /\ UNCHANGED conn
     \/ /\ conn[id] = "ESTABLISHED"
        /\ conn' = [conn EXCEPT ![id] = "DISCONNECTED"]
        /\ Then(t, <<Set(id, "online", FALSE), PushCall("PEER_OFFLINE", id)>>)
  /\ UNCHANGED <<state, queue, p2pLock, locks, inputs>>

----------------------------------------------------------------------------
(* The P2P thread of the daemon reads the listener's socket too: a datagram *)
(* it gets is lost to the listener, and becomes a message from nobody.      *)

Steal ==
  /\ queueLock = "free"
  /\ inputs.datagrams < MaxDatagrams
  /\ inputs' = [inputs EXCEPT !.datagrams = @ + 1]
  /\ queue' = Pushed([type |-> "MESSAGE_RECEIVED", id |-> NoId])
  /\ UNCHANGED <<state, p2p, locks, todo>>

----------------------------------------------------------------------------
(* The commands of the IPC thread.                                          *)

Command(c, id) ==
  /\ todo["ipc"] = << >>
  /\ inputs.commands < MaxCommands
  /\ inputs' = [inputs EXCEPT !.commands = @ + 1]
  /\ todo' = [todo EXCEPT !["ipc"] =
       CASE c = "add" -> <<Op("add", id)>>
         [] c = "accept" -> <<Op("accept", id)>>
         [] c = "reject" -> <<Op("reject", id)>>
         [] c = "search" -> <<Op("search", id)>>
         [] c = "ghost" -> <<Op("store_ghost", id)>>
         [] c = "chat_send" -> <<Op("find_peer", id), Op("find_peer", id), Op("find_peer", id)>>]
  /\ UNCHANGED <<state, queue, p2p, locks>>

\* daemon_cmd_add: get the record, or add one and get it.
CmdAdd ==
  LET id == Arg("ipc").id IN
  /\ At("ipc", "add")
  /\ stateLock = "free"
  /\ \/ /\ SM!Known(id)
        /\ Then("ipc", <<Read("add_check", id, SM!SlotOf(id))>>)
     \/ /\ ~SM!Known(id)
        /\ Then("ipc", <<Op("state_add", id), Op("add_again", id)>>)
  /\ UNCHANGED <<state, queue, p2p, locks, inputs>>

CmdAddAgain ==
  LET id == Arg("ipc").id IN
  /\ At("ipc", "add_again")
  /\ stateLock = "free"
  /\ \/ /\ SM!Known(id)
        /\ Then("ipc", <<Read("add_check", id, SM!SlotOf(id))>>)
     \/ /\ ~SM!Known(id)
        /\ Return("ipc")
  /\ UNCHANGED <<state, queue, p2p, locks, inputs>>

\* The record is read through the pointer, which nothing keeps valid.
CmdAddCheck ==
  LET c == Arg("ipc") IN
  /\ At("ipc", "add_check")
  /\ \/ /\ peers[c.slot].state = "FRIEND"
        /\ Return("ipc")
     \/ /\ peers[c.slot].state # "FRIEND"
        /\ Then("ipc", <<Update(c.id, "REQUEST_SENT"), Read("add_connect", c.id, c.slot)>>)
  /\ UNCHANGED <<state, queue, p2p, locks, inputs>>

HasAddress(slot) == peers[slot].ip # NoIp /\ peers[slot].port > 0

CmdAddConnect ==
  LET c == Arg("ipc") IN
  /\ At("ipc", "add_connect")
  /\ \/ /\ HasAddress(c.slot)
        /\ Then("ipc", <<Op("find_peer", c.id), Op("connect", c.id)>>)
     \/ /\ ~HasAddress(c.slot)
        /\ Return("ipc")
  /\ UNCHANGED <<state, queue, p2p, locks, inputs>>

\* daemon_cmd_accept and daemon_cmd_reject: both need a request received.
CmdDecide(c) ==
  LET id == Arg("ipc").id IN
  /\ At("ipc", c)
  /\ stateLock = "free"
  /\ \/ /\ SM!Known(id)
        /\ Then("ipc", <<Read(IF c = "accept" THEN "accept_check" ELSE "reject_check",
                              id, SM!SlotOf(id))>>)
     \/ /\ ~SM!Known(id)
        /\ Return("ipc")
  /\ UNCHANGED <<state, queue, p2p, locks, inputs>>

\* A slip: whoever is not a friend yet is accepted.
CmdAcceptCheckAny ==
  LET c == Arg("ipc") IN
  /\ At("ipc", "accept_check")
  /\ \/ /\ peers[c.slot].state # "FRIEND"
        /\ Then("ipc", <<Update(c.id, "FRIEND"), Read("accept_connect", c.id, c.slot),
                         Op("deliver", c.id)>>)
     \/ /\ peers[c.slot].state = "FRIEND"
        /\ Return("ipc")
  /\ UNCHANGED <<state, queue, p2p, locks, inputs>>

CmdAcceptCheck ==
  LET c == Arg("ipc") IN
  /\ At("ipc", "accept_check")
  /\ \/ /\ peers[c.slot].state = "REQUEST_RECEIVED"
        /\ Then("ipc", <<Update(c.id, "FRIEND"), Read("accept_connect", c.id, c.slot),
                         Op("deliver", c.id)>>)
     \/ /\ peers[c.slot].state # "REQUEST_RECEIVED"
        /\ Return("ipc")
  /\ UNCHANGED <<state, queue, p2p, locks, inputs>>

CmdAcceptConnect ==
  LET c == Arg("ipc") IN
  /\ At("ipc", "accept_connect")
  /\ \/ /\ HasAddress(c.slot)
        /\ Then("ipc", <<Op("find_peer", c.id), Op("accept_peer", c.id)>>)
     \/ /\ ~HasAddress(c.slot)
        /\ Return("ipc")
  /\ UNCHANGED <<state, queue, p2p, locks, inputs>>

CmdRejectCheck ==
  LET c == Arg("ipc") IN
  /\ At("ipc", "reject_check")
  /\ \/ /\ peers[c.slot].state = "REQUEST_RECEIVED"
        /\ Then("ipc", <<Op("remove", c.id)>>)
     \/ /\ peers[c.slot].state # "REQUEST_RECEIVED"
        /\ Return("ipc")
  /\ UNCHANGED <<state, queue, p2p, locks, inputs>>

\* daemon_cmd_search: the DHT finds the peer, or it does not, or is not open: it is
\* once a listen command has found an identity that needs no passcode.
CmdSearch ==
  LET id == Arg("ipc").id IN
  /\ At("ipc", "search")
  /\ \/ Then("ipc", SetAddress(id) \o <<Set(id, "online", TRUE)>>)
     \/ Then("ipc", <<Set(id, "online", FALSE)>>)
     \/ Return("ipc")
  /\ UNCHANGED <<state, queue, p2p, locks, inputs>>

Ipc ==
  \/ \E c \in UserCommands, id \in Ids : Command(c, id)
  \/ CmdAdd \/ CmdAddAgain \/ CmdAddCheck \/ CmdAddConnect
  \/ CmdDecide("accept") \/ CmdDecide("reject")
  \/ CmdAcceptCheck \/ CmdAcceptConnect \/ CmdRejectCheck
  \/ CmdSearch

----------------------------------------------------------------------------
Calls(t) ==
  \/ CallUpdate(t) \/ CallRemove(t) \/ CallAdd(t)
  \/ CallSetLookup(t) \/ CallSetWrite(t)
  \/ CallStoreGhost(t) \/ CallDeliver(t) \/ CallStateUnlock(t)
  \/ CallPush(t) \/ CallQueueUnlock(t)
  \/ CallLock(t) \/ CallUnlock(t) \/ CallFindPeer(t)
  \/ CallConnect(t) \/ CallDial(t) \/ CallHandshake(t) \/ CallAcceptPeer(t)

Keepalive == Tick \/ Visit

FriendsNext ==
  \/ \E t \in Threads : Calls(t)
  \/ Ipc
  \/ PopEvent
  \/ Listener
  \/ Keepalive
  \/ Steal

\* What a thread does of its own: it goes on with what it is in the middle of, and the
\* event thread pops.
GoesOn(t) ==
  \/ Calls(t)
  \/ t = "ipc" /\ todo[t] # << >> /\ Ipc
  \/ t = "event" /\ PopEvent
  \/ t = "listener" /\ todo[t] # << >> /\ Listener
  \/ t = "keepalive" /\ Visit

\* Threads run.  Users and the network owe nothing.
FriendsFairness == \A t \in Threads : WF_friendsVars(GoesOn(t))

FriendsSpec == FriendsInit /\ [][FriendsNext]_friendsVars
FriendsFairSpec == FriendsSpec /\ FriendsFairness

----------------------------------------------------------------------------
(* Properties.                                                              *)

\* A call with its arguments, and how many inputs there were.
Call ==
       [op : {"remove", "state_add", "store_ghost", "deliver", "state_unlock", "queue_unlock",
              "lock", "unlock", "find_peer", "connect", "dial", "handshake", "accept_peer",
              "visit", "add", "add_again", "accept", "reject", "search"} \cup Messages,
        id : Ids \cup {NoId}]
  \cup [op : {"update"}, id : Ids \cup {NoId}, state : PeerStates]
  \cup [op : {"set"}, id : Ids \cup {NoId}, write : SM!Write]
  \cup [op : {"push"}, id : Ids \cup {NoId}, event : Event]
  \cup [op : {"add_check", "add_connect", "accept_check", "accept_connect", "reject_check"},
        id : Ids \cup {NoId}, slot : SM!Slots]

Inputs == [commands : 0 .. MaxCommands, datagrams : 0 .. MaxDatagrams, ticks : 0 .. MaxTicks]

FriendsTypeOK ==
  /\ SM!TypeOK
  /\ queue \in Seq(Event) /\ Len(queue) <= QueueSize
  /\ conn \in [Ids -> ConnState]
  /\ {p2pLock, stateLock, queueLock} \subseteq Threads \cup {"free"}
  /\ todo \in [Threads -> Seq(Call)]
  /\ inputs \in Inputs

\* The listener waits for the mutex it holds.
SelfDeadlock == p2pLock = "listener" /\ At("listener", "lock")

\* Every command is answered, unless the listener has locked itself out: no
\* other order of the threads on g_p2p_mutex makes the IPC thread wait for ever.
CommandsAnswered == todo["ipc"] # << >> ~> (todo["ipc"] = << >> \/ SelfDeadlock)

\* Every event is taken out of the queue and its handler returns, even when the
\* listener has locked itself out: a delivery pushes its events under
\* g_state_mutex, for which handlers wait in their turn, but no handler runs under
\* the queue's mutex, and none waits for g_p2p_mutex.  (Inputs are bounded: when
\* every event is taken and handled, the queue is empty and its thread idle.)
EventsHandled ==
  todo["event"] # << >> \/ queue # << >> ~> todo["event"] = << >> /\ queue = << >>

\* "No pending request from" (daemon.c): whom the accept command makes a friend has asked
\* to be one and still waits for an answer, whatever the listener and the events have made
\* of it between the command's look-up, its test and its update.  One thing they may do
\* that is beyond the test: a removal that moves the record away from under the command's
\* pointer, which its next call still has.
AcceptedHadAsked ==
  [][\A i \in SM!Live :
       CallUpdate("ipc") /\ peers[i].state # "FRIEND" /\ peers'[i].state = "FRIEND"
       => peers[i].state = "REQUEST_RECEIVED" \/ todo["ipc"][2].slot # i]_friendsVars

\* "Will be delivered when peer comes online" (daemon.c): a ghost message does
\* not wait for ever for a peer that is online.
Online(id) == \E i \in SM!Live : peers[i].id = id /\ peers[i].online
GhostsDeliveredOnline ==
  \A id \in Ids : Online(id) /\ SM!Waiting(id) # {} ~> ~Online(id) \/ SM!Waiting(id) = {}
==============================================================================
