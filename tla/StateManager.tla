----------------------------- MODULE StateManager ----------------------------
(***************************************************************************)
(* The in-memory peer table and ghost store of state_manager.c.            *)
(*                                                                         *)
(* g_peers is a dense array: the records of slots 0 .. g_peer_count - 1    *)
(* are live, the others keep whatever they held last.  Every operation     *)
(* takes g_state_mutex, so it is one action - except the state_set_*       *)
(* family, which gets a pointer from state_get_peer, that has released the *)
(* mutex when it returns, and takes the mutex again for the write.         *)
(* The callers are any number of threads, each calling anything: the       *)
(* daemon's IPC, event and network threads are such callers.               *)
(***************************************************************************)
EXTENDS Integers, Sequences, FiniteSets

CONSTANTS
  MaxPeers,   \* MAX_PEERS
  MaxGhosts,  \* MAX_GHOST_MESSAGES
  Threads,    \* the threads of the process
  PeerStates, \* the friendship states in use
  Ids,        \* identifiers, as normalize_id leaves them
  NoId,       \* the empty identifier
  Ips,        \* addresses
  NoIp,       \* the empty address
  Ports,      \* port numbers
  NoPtr       \* a thread that is not inside a state_set_* call

ASSUME BoundsAssumption == MaxPeers \in Nat \ {0} /\ MaxGhosts \in Nat \ {0}
ASSUME IdsAssumption == NoId \notin Ids
ASSUME PortsAssumption == Ports \subseteq Nat \ {0}
\* The states the daemon gives a peer; the others of PeerState are never set.
ASSUME StatesAssumption ==
  /\ "UNKNOWN" \in PeerStates
  /\ PeerStates \subseteq {"UNKNOWN", "REQUEST_SENT", "REQUEST_RECEIVED", "FRIEND"}

VARIABLES
  peers,      \* g_peers
  peer_count, \* g_peer_count
  ghosts,     \* g_ghost_messages, up to g_ghost_count
  ptr         \* the Peer* each thread holds inside a state_set_* call

table == <<peers, peer_count>>
vars == <<peers, peer_count, ghosts, ptr>>

\* The fields of Peer that an operation of the daemon reads back.
Peer == [id : Ids \cup {NoId}, state : PeerStates, online : BOOLEAN,
         ip : Ips \cup {NoIp}, port : Ports \cup {0}, ghost_count : Nat]

GhostMessage == [to_id : Ids, delivered : BOOLEAN]

\* The three setters whose field is read back, as the writes they make.
Write ==
       [field : {"online"}, value : BOOLEAN]
  \cup [field : {"ip"}, value : Ips \cup {NoIp}]
  \cup [field : {"port"}, value : Ports \cup {0}]

\* moved is history: the table was compacted since the pointer was taken.
Pointer == [slot : 0 .. MaxPeers - 1, id : Ids, write : Write, moved : BOOLEAN]

Slots == 0 .. MaxPeers - 1
Live == 0 .. peer_count - 1

\* A zeroed record, and the record state_add_peer writes.
Record(id) == [id |-> id, state |-> "UNKNOWN", online |-> FALSE,
               ip |-> NoIp, port |-> 0, ghost_count |-> 0]

Init ==
  /\ peers = [i \in Slots |-> Record(NoId)]
  /\ peer_count = 0
  /\ ghosts = << >>
  /\ ptr = [t \in Threads |-> NoPtr]

Known(id) == \E i \in Live : peers[i].id = id

\* The slot the linear search of every operation stops at.
SlotOf(id) ==
  CHOOSE i \in Live : /\ peers[i].id = id
                      /\ \A j \in 0 .. i - 1 : peers[j].id # id

----------------------------------------------------------------------------
(* Peers.  An operation that finds nothing to do returns and changes nothing. *)

\* A slip: the last record is given up for a new one when the table is full.
AddPeerEvicting(id) ==
  LET at == IF peer_count < MaxPeers THEN peer_count ELSE MaxPeers - 1
  IN  /\ id # NoId /\ ~Known(id)
      /\ peers' = [peers EXCEPT ![at] = Record(id)]
      /\ peer_count' = at + 1

AddPeer(id) ==
  \/ /\ id = NoId \/ Known(id) \/ peer_count >= MaxPeers
     /\ UNCHANGED table
  \/ /\ id # NoId /\ ~Known(id) /\ peer_count < MaxPeers
     /\ peers' = [peers EXCEPT ![peer_count] = Record(id)]
     /\ peer_count' = peer_count + 1

UpdatePeer(id, state) ==
  \/ /\ ~Known(id)
     /\ UNCHANGED table
  \/ /\ Known(id)
     /\ peers' = [peers EXCEPT ![SlotOf(id)].state = state]
     /\ UNCHANGED peer_count

\* A slip: the shift begins one slot too high.
CompactAbove(at) ==
  [i \in Slots |-> IF at < i /\ i < peer_count - 1 THEN peers[i + 1]
                                                   ELSE peers[i]]

\* The records behind the removed one move down a slot; the last one also
\* stays behind in the slot that is dead now.
Compact(at) ==
  [i \in Slots |-> IF at <= i /\ i < peer_count - 1 THEN peers[i + 1]
                                                    ELSE peers[i]]

RemovePeer(id) ==
  \/ /\ ~Known(id)
     /\ UNCHANGED <<peers, peer_count, ptr>>
  \/ /\ Known(id)
     /\ peers' = Compact(SlotOf(id))
     /\ peer_count' = peer_count - 1
     /\ ptr' = [t \in Threads |->
                  IF ptr[t] = NoPtr THEN NoPtr ELSE [ptr[t] EXCEPT !.moved = TRUE]]

\* state_get_peer, as the first half of a state_set_* call.
GetPeer(t, id, w) ==
  \/ /\ ~Known(id)
     /\ UNCHANGED ptr
  \/ /\ Known(id)
     /\ ptr' = [ptr EXCEPT ![t] = [slot |-> SlotOf(id), id |-> id,
                                   write |-> w, moved |-> FALSE]]

\* The second half: the write goes where the pointer points by now.
SetField(t) ==
  LET p == ptr[t]
      w == p.write
  IN  /\ p # NoPtr
      /\ \/ /\ w.field = "online"
            /\ peers' = [peers EXCEPT ![p.slot].online = w.value]
         \/ /\ w.field = "ip"
            /\ peers' = [peers EXCEPT ![p.slot].ip = w.value]
         \/ /\ w.field = "port"
            /\ peers' = [peers EXCEPT ![p.slot].port = w.value]
      /\ ptr' = [ptr EXCEPT ![t] = NoPtr]
      /\ UNCHANGED <<peer_count, ghosts>>

----------------------------------------------------------------------------
(* Ghost messages.  A delivered entry is marked, and never freed.           *)

\* The messages of a store that wait for a peer.
WaitingIn(store, id) ==
  {k \in DOMAIN store : store[k].to_id = id /\ ~store[k].delivered}

Waiting(id) == WaitingIn(ghosts, id)

AddGhostMessage(id) ==
  \/ /\ id = NoId \/ Len(ghosts) >= MaxGhosts
     /\ UNCHANGED <<peers, ghosts>>
  \/ /\ id # NoId /\ Len(ghosts) < MaxGhosts
     /\ ghosts' = Append(ghosts, [to_id |-> id, delivered |-> FALSE])
     /\ peers' = IF Known(id)
                 THEN [peers EXCEPT ![SlotOf(id)].ghost_count = @ + 1]
                 ELSE peers

\* A slip: the peer's counter is left as it is.
DeliverUncounted(id) ==
  /\ ghosts' = [k \in DOMAIN ghosts |->
                  IF ghosts[k].to_id = id
                  THEN [ghosts[k] EXCEPT !.delivered = TRUE] ELSE ghosts[k]]
  /\ UNCHANGED peers

\* The peer's counter goes down by what was delivered, and not below zero.
DeliverGhostMessages(id) ==
  LET delivered == Cardinality(Waiting(id))
      Less(n) == IF n < delivered THEN 0 ELSE n - delivered
  IN  /\ ghosts' = [k \in DOMAIN ghosts |->
                      IF ghosts[k].to_id = id
                      THEN [ghosts[k] EXCEPT !.delivered = TRUE] ELSE ghosts[k]]
      /\ peers' = IF Known(id)
                  THEN [peers EXCEPT ![SlotOf(id)].ghost_count = Less(@)]
                  ELSE peers

----------------------------------------------------------------------------
(* The callers.  A thread inside a state_set_* call does nothing else.      *)

Calls(t) ==
  /\ ptr[t] = NoPtr
  /\ \E id \in Ids \cup {NoId} :
       \/ AddPeer(id) /\ UNCHANGED <<ghosts, ptr>>
       \/ \E s \in PeerStates : UpdatePeer(id, s) /\ UNCHANGED <<ghosts, ptr>>
       \/ RemovePeer(id) /\ UNCHANGED ghosts
       \/ \E w \in Write : GetPeer(t, id, w) /\ UNCHANGED <<peers, peer_count, ghosts>>
       \/ AddGhostMessage(id) /\ UNCHANGED <<peer_count, ptr>>
       \/ DeliverGhostMessages(id) /\ UNCHANGED <<peer_count, ptr>>

Next == \E t \in Threads : Calls(t) \/ SetField(t)

Spec == Init /\ [][Next]_vars

----------------------------------------------------------------------------
(* Properties.                                                              *)

TypeOK ==
  /\ peers \in [Slots -> Peer]
  /\ peer_count \in 0 .. MaxPeers
  /\ ghosts \in Seq(GhostMessage) /\ Len(ghosts) <= MaxGhosts
  /\ ptr \in [Threads -> Pointer \cup {NoPtr}]

\* One record a peer: no sequence of additions and removals, with whatever
\* writes other threads make through old pointers, leaves two live records of
\* one identifier, or a live record of none.
UniqueIds ==
  /\ \A i \in Live : peers[i].id # NoId
  /\ \A i, j \in Live : peers[i].id = peers[j].id => i = j

\* A peer's ghost_count never claims a message that is not waiting.  It may
\* be less: messages stored before the peer was known, or before it was
\* removed and added again, are not counted.
Backed(i) == peers[i].ghost_count <= Cardinality(Waiting(peers[i].id))

GhostCountSound == \A i \in Live : Backed(i)

\* The pointer a setter writes through is the record of the peer it was asked
\* about, unless a peer was removed since it was looked up: nothing but
\* state_remove_peer invalidates a pointer.
PointerGood(t) ==
  /\ ptr[t].slot \in Live
  /\ peers[ptr[t].slot].id = ptr[t].id

OnlyRemovalInvalidates ==
  \A t \in Threads : ptr[t] # NoPtr /\ ~ptr[t].moved => PointerGood(t)

\* The array as a book of peers.
Entry(i) == [state |-> peers[i].state, online |-> peers[i].online,
             ip |-> peers[i].ip, port |-> peers[i].port]

book == [id \in {peers[i].id : i \in Live} |-> Entry(SlotOf(id))]

Book ==
  INSTANCE PeerBook
  WITH Capacity <- MaxPeers, States <- PeerStates,
       Ips <- Ips \cup {NoIp}, Ports <- Ports \cup {0},
       NewEntry <- [state |-> "UNKNOWN", online |-> FALSE, ip |-> NoIp, port |-> 0]

\* A removal came between the two halves of a setter.
StaleWrite == \E t \in Threads : ptr[t] # NoPtr /\ ptr[t].moved /\ SetField(t)

\* What a step does to the book: each operation does to it what it is asked to do, to the
\* peer it is asked about, or nothing at all.  The one exception is the write through a
\* pointer that a removal made stale.
BookStep ==
  \/ StaleWrite
  \/ /\ Book!Next \/ UNCHANGED book
     /\ \A id \in Ids :
          /\ AddPeer(id) => Book!Add(id) \/ UNCHANGED table
          /\ RemovePeer(id) => Book!Remove(id) \/ UNCHANGED table
          /\ \A s \in PeerStates : UpdatePeer(id, s) => Book!Update(id, s) \/ UNCHANGED table
          /\ \A t \in Threads :
               SetField(t) /\ ptr[t].id = id =>
                 LET w == ptr[t].write
                 IN  /\ w.field = "online" => Book!SetOnline(id, w.value)
                     /\ w.field = "ip" => Book!SetIp(id, w.value)
                     /\ w.field = "port" => Book!SetPort(id, w.value)

\* The array implements the book.  A removal takes out the peer that was named and no
\* other, whatever the shift of the array does to the slots.
BookSpec == Book!Init /\ [][BookStep]_vars
==============================================================================
