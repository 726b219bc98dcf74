------------------------- MODULE StateManager_proofs -------------------------
(***************************************************************************)
(* The peer table of state_manager.c, for any number of threads, peers and *)
(* slots.                                                                  *)
(***************************************************************************)
EXTENDS StateManager, FiniteSetTheorems, TLAPS

\* The inductive invariant: the three statements lean on each other.  The
\* search of an operation finds the slot of its peer because identifiers are
\* unique, and a pointer taken from that search is good for the same reason.
Inv == TypeOK /\ UniqueIds /\ OnlyRemovalInvalidates

\* Where identifiers are unique, the search stops at the one slot of the peer.
LEMMA SearchFinds ==
  ASSUME TypeOK, UniqueIds, NEW id, Known(id)
  PROVE  SlotOf(id) \in Live /\ peers[SlotOf(id)].id = id
<1>1. PICK i \in Live : peers[i].id = id
  BY DEF Known
<1>2. \A j \in 0 .. i - 1 : peers[j].id # id
  BY <1>1 DEF UniqueIds, Live, TypeOK
<1> QED
  BY <1>1, <1>2 DEF SlotOf

\* Live slots are slots.
LEMMA LiveSlots == TypeOK => Live \subseteq Slots
BY BoundsAssumption DEF TypeOK, Live, Slots

\* A step that keeps the identifier of every slot and the count of live ones
\* keeps identifiers unique.
LEMMA SameIdsUnique ==
  ASSUME TypeOK, UniqueIds, peer_count' = peer_count,
         \A i \in Slots : peers'[i].id = peers[i].id
  PROVE  UniqueIds'
BY LiveSlots DEF UniqueIds, Live

\* It keeps the pointers that were good, too, if it takes none.
LEMMA SameIdsPointers ==
  ASSUME TypeOK, OnlyRemovalInvalidates, peer_count' = peer_count,
         \A i \in Slots : peers'[i].id = peers[i].id,
         \A t \in Threads : ptr'[t] = ptr[t] \/ ptr'[t] = NoPtr
  PROVE  OnlyRemovalInvalidates'
BY LiveSlots DEF OnlyRemovalInvalidates, PointerGood, Live

\* The messages that wait for a peer can be counted.
LEMMA WaitingFinite ==
  ASSUME TypeOK, NEW id
  PROVE  IsFiniteSet(Waiting(id)) /\ Cardinality(Waiting(id)) \in Nat
<1>1. DOMAIN ghosts = 1 .. Len(ghosts) /\ Len(ghosts) \in Nat
  BY DEF TypeOK
<1>2. IsFiniteSet(DOMAIN ghosts)
  BY <1>1, FS_Interval
<1>3. Waiting(id) \subseteq DOMAIN ghosts
  BY DEF Waiting, WaitingIn
<1> QED
  BY <1>2, <1>3, FS_Subset, FS_CardinalityType

\* Replacing one record by another of the same peer changes no identifier.
LEMMA SameIdRecord ==
  ASSUME peers \in [Slots -> Peer], NEW s, NEW r,
         peers' = [peers EXCEPT ![s] = r],
         s \in Slots => r \in Peer /\ r.id = peers[s].id
  PROVE  /\ peers' \in [Slots -> Peer]
         /\ \A i \in Slots : peers'[i].id = peers[i].id
OBVIOUS

\* The fields of a record other than its identifier.
LEMMA FieldOfPeer ==
  ASSUME NEW r \in Peer
  PROVE  /\ \A v \in BOOLEAN : [r EXCEPT !.online = v] \in Peer
                              /\ [r EXCEPT !.online = v].id = r.id
         /\ \A v \in Ips \cup {NoIp} : [r EXCEPT !.ip = v] \in Peer
                              /\ [r EXCEPT !.ip = v].id = r.id
         /\ \A v \in Ports \cup {0} : [r EXCEPT !.port = v] \in Peer
                              /\ [r EXCEPT !.port = v].id = r.id
         /\ \A v \in Nat : [r EXCEPT !.ghost_count = v] \in Peer
                              /\ [r EXCEPT !.ghost_count = v].id = r.id
BY DEF Peer

LEMMA InitInv == Init => Inv
<1> SUFFICES ASSUME Init PROVE Inv
  OBVIOUS
<1>1. TypeOK
  <2>1. Record(NoId) \in Peer
    BY StatesAssumption DEF Record, Peer
  <2>2. peer_count \in 0 .. MaxPeers
    BY BoundsAssumption DEF Init
  <2>3. ghosts \in Seq(GhostMessage) /\ Len(ghosts) <= MaxGhosts
    BY BoundsAssumption DEF Init
  <2> QED
    BY <2>1, <2>2, <2>3 DEF TypeOK, Init, Slots
<1>2. UniqueIds
  BY DEF UniqueIds, Live, Init
<1>3. OnlyRemovalInvalidates
  BY DEF OnlyRemovalInvalidates, Init
<1> QED
  BY <1>1, <1>2, <1>3 DEF Inv

----------------------------------------------------------------------------
(* One lemma an operation.                                                  *)

LEMMA AddInv ==
  ASSUME Inv, NEW id \in Ids \cup {NoId}, AddPeer(id), UNCHANGED <<ghosts, ptr>>
  PROVE  Inv'
<1> USE BoundsAssumption, LiveSlots DEF Inv, table
<1>1. CASE UNCHANGED table
  BY <1>1 DEF TypeOK, UniqueIds, OnlyRemovalInvalidates, PointerGood, Live, Waiting
<1>2. CASE /\ id # NoId /\ ~Known(id) /\ peer_count < MaxPeers
           /\ peers' = [peers EXCEPT ![peer_count] = Record(id)]
           /\ peer_count' = peer_count + 1
  <2>1. Record(id) \in Peer /\ Record(id).id = id
    BY StatesAssumption DEF Record, Peer
  <2>2. TypeOK'
    <3>1. peers' \in [Slots -> Peer]
      BY <1>2, <2>1 DEF TypeOK
    <3>2. peer_count' \in 0 .. MaxPeers
      BY <1>2 DEF TypeOK
    <3> QED
      BY <3>1, <3>2 DEF TypeOK
  <2>3. Live' = Live \cup {peer_count} /\ peer_count \notin Live
    BY <1>2 DEF Live, TypeOK
  <2>4. /\ \A i \in Live : peers'[i] = peers[i]
        /\ peers'[peer_count].id = id
    BY <1>2, <2>1, <2>3 DEF TypeOK, Slots
  <2>5. UniqueIds'
    BY <1>2, <2>3, <2>4 DEF UniqueIds, Known
  <2>6. OnlyRemovalInvalidates'
    BY <2>3, <2>4 DEF OnlyRemovalInvalidates, PointerGood
  <2> QED
    BY <2>2, <2>5, <2>6
<1> QED
  BY <1>1, <1>2 DEF AddPeer

LEMMA UpdateInv ==
  ASSUME Inv, NEW id \in Ids \cup {NoId}, NEW s \in PeerStates,
         UpdatePeer(id, s), UNCHANGED <<ghosts, ptr>>
  PROVE  Inv'
<1> USE DEF Inv, table
<1>1. TypeOK'
  BY SMTT(20) DEF TypeOK, UpdatePeer, Peer
<1>2. peer_count' = peer_count /\ \A i \in Slots : peers'[i].id = peers[i].id
  BY DEF UpdatePeer, TypeOK, Peer
<1> QED
  BY <1>1, <1>2, SameIdsUnique, SameIdsPointers

LEMMA RemoveInv ==
  ASSUME Inv, NEW id \in Ids \cup {NoId}, RemovePeer(id), UNCHANGED ghosts
  PROVE  Inv'
<1> USE BoundsAssumption, LiveSlots DEF Inv
<1>1. CASE UNCHANGED <<peers, peer_count, ptr>>
  BY <1>1 DEF TypeOK, UniqueIds, OnlyRemovalInvalidates, PointerGood, Live
<1>2. CASE Known(id) /\ ~UNCHANGED <<peers, peer_count, ptr>>
  <2> DEFINE at == SlotOf(id)
  <2>1. at \in Live
    BY <1>2, SearchFinds
  <2>2. /\ peers' = Compact(at)
        /\ peer_count' = peer_count - 1
        /\ ptr' = [t \in Threads |->
             IF ptr[t] = NoPtr THEN NoPtr ELSE [ptr[t] EXCEPT !.moved = TRUE]]
    BY <1>2 DEF RemovePeer
  <2> HIDE DEF at
  <2>3. \A i \in Slots : peers'[i] = IF at <= i /\ i < peer_count - 1
                                     THEN peers[i + 1] ELSE peers[i]
    BY <2>2 DEF Compact
  <2>4. TypeOK'
    <3>1. peers' \in [Slots -> Peer]
      BY <2>1, <2>2 DEF TypeOK, Compact, Live, Slots
    <3>2. peer_count' \in 0 .. MaxPeers
      BY <2>1, <2>2 DEF TypeOK, Live
    <3>3. ptr' \in [Threads -> Pointer \cup {NoPtr}]
      BY <2>2 DEF TypeOK, Pointer
    <3> QED
      BY <3>1, <3>2, <3>3 DEF TypeOK
  <2>5. UniqueIds'
    <3> DEFINE From(i) == IF at <= i THEN i + 1 ELSE i
    <3>1. ASSUME NEW i \in Live' PROVE From(i) \in Live /\ peers'[i] = peers[From(i)]
      <4>1. i \in Slots /\ i < peer_count - 1 /\ From(i) \in Live
        BY <2>1, <2>2 DEF Live, TypeOK, Slots
      <4>2. CASE at <= i
        BY <2>3, <4>1, <4>2
      <4>3. CASE ~(at <= i)
        BY <2>3, <4>1, <4>3
      <4> QED
        BY <4>1, <4>2, <4>3
    <3>2. \A i, j \in Live' : From(i) = From(j) => i = j
      BY <2>1, <2>2 DEF Live, TypeOK
    <3> HIDE DEF From
    <3> QED
      BY <3>1, <3>2 DEF UniqueIds
  <2>6. OnlyRemovalInvalidates'
    BY <2>2 DEF OnlyRemovalInvalidates, TypeOK, Pointer
  <2> QED
    BY <2>4, <2>5, <2>6
<1> QED
  BY <1>1, <1>2 DEF RemovePeer

LEMMA GetInv ==
  ASSUME Inv, NEW t \in Threads, NEW id \in Ids \cup {NoId}, NEW w \in Write,
         GetPeer(t, id, w), UNCHANGED <<peers, peer_count, ghosts>>
  PROVE  Inv'
<1> USE DEF Inv
<1>1. UniqueIds'
  BY DEF UniqueIds, Live
<1>2. CASE UNCHANGED ptr
  BY <1>1, <1>2 DEF TypeOK, OnlyRemovalInvalidates, PointerGood, Live
<1>3. CASE Known(id) /\ ~UNCHANGED ptr
  <2> DEFINE p == [slot |-> SlotOf(id), id |-> id, write |-> w, moved |-> FALSE]
  <2>1. SlotOf(id) \in Live /\ peers[SlotOf(id)].id = id
    BY <1>3, SearchFinds
  <2>2. id \in Ids
    BY <2>1 DEF UniqueIds
  <2>3. p \in Pointer
    BY <2>1, <2>2, LiveSlots DEF Pointer, Slots
  <2>4. ptr' = [ptr EXCEPT ![t] = p]
    BY <1>3 DEF GetPeer
  <2>5. TypeOK'
    BY <2>3, <2>4 DEF TypeOK
  <2>6. p.slot \in Live /\ peers[p.slot].id = p.id
    BY <2>1
  <2> HIDE DEF p
  <2>7. OnlyRemovalInvalidates'
    BY <2>4, <2>6 DEF OnlyRemovalInvalidates, PointerGood, TypeOK, Live
  <2> QED
    BY <1>1, <2>5, <2>7
<1> QED
  BY <1>2, <1>3 DEF GetPeer

LEMMA SetInv ==
  ASSUME Inv, NEW t \in Threads, SetField(t)
  PROVE  Inv'
<1> USE DEF Inv
<1>1. ptr[t] \in Pointer /\ ptr[t].slot \in Slots /\ ptr[t].write \in Write
  BY DEF SetField, TypeOK, Pointer, Slots
<1>2. /\ peer_count' = peer_count
      /\ ghosts' = ghosts
      /\ ptr' = [ptr EXCEPT ![t] = NoPtr]
  BY DEF SetField
<1>3. /\ peers' \in [Slots -> Peer]
      /\ \A i \in Slots : peers'[i].id = peers[i].id
  <2>1. CASE ptr[t].write.field = "online"
    <3> DEFINE r == [peers[ptr[t].slot] EXCEPT !.online = ptr[t].write.value]
    <3>1. ptr[t].write.value \in BOOLEAN
      BY <1>1, <2>1 DEF Write
    <3>2. peers' = [peers EXCEPT ![ptr[t].slot] = r]
      BY <2>1 DEF SetField
    <3>3. peers[ptr[t].slot] \in Peer
      BY <1>1 DEF TypeOK
    <3>4. r \in Peer /\ r.id = peers[ptr[t].slot].id
      BY <3>1, <3>3, FieldOfPeer
    <3> HIDE DEF r
    <3> QED
      BY <3>2, <3>4, SameIdRecord DEF TypeOK
  <2>2. CASE ptr[t].write.field = "ip"
    <3> DEFINE r == [peers[ptr[t].slot] EXCEPT !.ip = ptr[t].write.value]
    <3>1. ptr[t].write.value \in Ips \cup {NoIp}
      BY <1>1, <2>2 DEF Write
    <3>2. peers' = [peers EXCEPT ![ptr[t].slot] = r]
      BY <2>2 DEF SetField
    <3>3. peers[ptr[t].slot] \in Peer
      BY <1>1 DEF TypeOK
    <3>4. r \in Peer /\ r.id = peers[ptr[t].slot].id
      BY <3>1, <3>3, FieldOfPeer
    <3> HIDE DEF r
    <3> QED
      BY <3>2, <3>4, SameIdRecord DEF TypeOK
  <2>3. CASE ptr[t].write.field = "port"
    <3> DEFINE r == [peers[ptr[t].slot] EXCEPT !.port = ptr[t].write.value]
    <3>1. ptr[t].write.value \in Ports \cup {0}
      BY <1>1, <2>3 DEF Write
    <3>2. peers' = [peers EXCEPT ![ptr[t].slot] = r]
      BY <2>3 DEF SetField
    <3>3. peers[ptr[t].slot] \in Peer
      BY <1>1 DEF TypeOK
    <3>4. r \in Peer /\ r.id = peers[ptr[t].slot].id
      BY <3>1, <3>3, FieldOfPeer
    <3> HIDE DEF r
    <3> QED
      BY <3>2, <3>4, SameIdRecord DEF TypeOK
  <2> QED
    BY <2>1, <2>2, <2>3 DEF SetField
<1>4. TypeOK'
  BY <1>2, <1>3 DEF TypeOK
<1>5. \A u \in Threads : ptr'[u] = ptr[u] \/ ptr'[u] = NoPtr
  BY <1>2 DEF TypeOK
<1> QED
  BY <1>2, <1>3, <1>4, <1>5, SameIdsUnique, SameIdsPointers

LEMMA AddGhostInv ==
  ASSUME Inv, NEW id \in Ids \cup {NoId}, AddGhostMessage(id),
         UNCHANGED <<peer_count, ptr>>
  PROVE  Inv'
<1> USE DEF Inv
<1>1. ghosts' \in Seq(GhostMessage) /\ Len(ghosts') <= MaxGhosts
  <2>1. CASE UNCHANGED ghosts
    BY <2>1 DEF TypeOK
  <2>2. CASE /\ id # NoId /\ Len(ghosts) < MaxGhosts
             /\ ghosts' = Append(ghosts, [to_id |-> id, delivered |-> FALSE])
    <3>1. [to_id |-> id, delivered |-> FALSE] \in GhostMessage
      BY <2>2 DEF GhostMessage
    <3> QED
      BY <2>2, <3>1, BoundsAssumption DEF TypeOK
  <2> QED
    BY <2>1, <2>2 DEF AddGhostMessage
<1>2. /\ peers' \in [Slots -> Peer]
      /\ \A i \in Slots : peers'[i].id = peers[i].id
  <2>1. CASE UNCHANGED peers
    BY <2>1 DEF TypeOK
  <2>2. CASE Known(id) /\ ~UNCHANGED peers
    <3> DEFINE r == [peers[SlotOf(id)] EXCEPT !.ghost_count = @ + 1]
    <3>1. SlotOf(id) \in Slots
      BY <2>2, SearchFinds, LiveSlots
    <3>2. peers' = [peers EXCEPT ![SlotOf(id)] = r]
      BY <2>2 DEF AddGhostMessage
    <3>3. peers[SlotOf(id)] \in Peer /\ peers[SlotOf(id)].ghost_count + 1 \in Nat
      BY <3>1 DEF TypeOK, Peer
    <3>4. r \in Peer /\ r.id = peers[SlotOf(id)].id
      BY <3>3, FieldOfPeer
    <3> HIDE DEF r
    <3> QED
      BY <3>2, <3>4, SameIdRecord DEF TypeOK
  <2> QED
    BY <2>1, <2>2 DEF AddGhostMessage
<1>3. TypeOK'
  BY <1>1, <1>2 DEF TypeOK
<1> QED
  BY <1>2, <1>3, SameIdsUnique, SameIdsPointers

LEMMA DeliverInv ==
  ASSUME Inv, NEW id \in Ids \cup {NoId}, DeliverGhostMessages(id),
         UNCHANGED <<peer_count, ptr>>
  PROVE  Inv'
<1> USE DEF Inv
<1>1. ghosts' \in Seq(GhostMessage) /\ Len(ghosts') <= MaxGhosts
  <2>1. ghosts \in [1 .. Len(ghosts) -> GhostMessage] /\ DOMAIN ghosts = 1 .. Len(ghosts)
    BY DEF TypeOK
  <2>2. ghosts' \in [1 .. Len(ghosts) -> GhostMessage]
    BY <2>1 DEF DeliverGhostMessages, GhostMessage
  <2> QED
    BY <2>2 DEF TypeOK
<1>2. /\ peers' \in [Slots -> Peer]
      /\ \A i \in Slots : peers'[i].id = peers[i].id
  <2>1. CASE UNCHANGED peers
    BY <2>1 DEF TypeOK
  <2>2. CASE Known(id) /\ ~UNCHANGED peers
    <3> DEFINE n == Cardinality(Waiting(id))
               g == peers[SlotOf(id)].ghost_count
               r == [peers[SlotOf(id)] EXCEPT !.ghost_count = IF @ < n THEN 0 ELSE @ - n]
    <3>1. SlotOf(id) \in Slots
      BY <2>2, SearchFinds, LiveSlots
    <3>2. peers' = [peers EXCEPT ![SlotOf(id)] = r]
      BY <2>2 DEF DeliverGhostMessages
    <3>3. peers[SlotOf(id)] \in Peer /\ g \in Nat
      BY <3>1 DEF TypeOK, Peer
    <3>4. n \in Nat
      BY WaitingFinite DEF TypeOK
    <3> HIDE DEF n
    <3>5. (IF g < n THEN 0 ELSE g - n) \in Nat
      BY <3>3, <3>4
    <3>6. r \in Peer /\ r.id = peers[SlotOf(id)].id
      BY <3>3, <3>5, FieldOfPeer
    <3> HIDE DEF r
    <3> QED
      BY <3>2, <3>6, SameIdRecord DEF TypeOK
  <2> QED
    BY <2>1, <2>2 DEF DeliverGhostMessages
<1>3. TypeOK'
  BY <1>1, <1>2 DEF TypeOK
<1> QED
  BY <1>2, <1>3, SameIdsUnique, SameIdsPointers

----------------------------------------------------------------------------
LEMMA NextInv == Inv /\ [Next]_vars => Inv'
<1> SUFFICES ASSUME Inv, [Next]_vars PROVE Inv'
  OBVIOUS
<1>1. ASSUME NEW t \in Threads, Calls(t) PROVE Inv'
  BY <1>1, AddInv, UpdateInv, RemoveInv, GetInv, AddGhostInv, DeliverInv DEF Calls
<1>2. ASSUME NEW t \in Threads, SetField(t) PROVE Inv'
  BY <1>2, SetInv
<1>3. CASE UNCHANGED vars
  BY <1>3 DEF vars, Inv, TypeOK, UniqueIds, OnlyRemovalInvalidates, PointerGood, Live
<1> QED
  BY <1>1, <1>2, <1>3 DEF Next

\* The operations of state_manager.c keep the invariant, whichever threads call them.
THEOREM Safety == Spec => []Inv
BY InitInv, NextInv, PTL DEF Spec

\* The table, the ghost store and the pointers keep their types; in particular
\* no setter ever writes outside g_peers, however old its pointer is.
THEOREM TypeCorrect == Spec => []TypeOK
<1>1. Inv => TypeOK
  BY DEF Inv
<1> QED
  BY <1>1, Safety, PTL

\* state_add_peer's search and state_remove_peer's shift keep one record a peer.
THEOREM OneRecordAPeer == Spec => []UniqueIds
<1>1. Inv => UniqueIds
  BY DEF Inv
<1> QED
  BY <1>1, Safety, PTL

\* A setter's pointer goes stale by state_remove_peer and by nothing else.
THEOREM PointersOutliveAllButRemoval == Spec => []OnlyRemovalInvalidates
<1>1. Inv => OnlyRemovalInvalidates
  BY DEF Inv
<1> QED
  BY <1>1, Safety, PTL

----------------------------------------------------------------------------
(* The counter of waiting messages.                                         *)

\* A step that changes no identifier, no counter and no message changes
\* nothing the counters are about.
LEMMA SameCounts ==
  ASSUME TypeOK, GhostCountSound, peer_count' = peer_count, ghosts' = ghosts,
         \A i \in Slots : /\ peers'[i].id = peers[i].id
                         /\ peers'[i].ghost_count = peers[i].ghost_count
  PROVE  GhostCountSound'
BY LiveSlots DEF GhostCountSound, Backed, Live, Waiting

LEMMA RemoveCounts ==
  ASSUME Inv, GhostCountSound, NEW id, RemovePeer(id), UNCHANGED ghosts
  PROVE  GhostCountSound'
<1> USE LiveSlots DEF Inv
<1>1. CASE UNCHANGED <<peers, peer_count, ptr>>
  BY <1>1 DEF GhostCountSound, Backed, Live, Waiting
<1>2. CASE Known(id) /\ ~UNCHANGED <<peers, peer_count, ptr>>
  <2>1. SlotOf(id) \in Live
    BY <1>2, SearchFinds
  <2>2. peers' = Compact(SlotOf(id)) /\ peer_count' = peer_count - 1
    BY <1>2 DEF RemovePeer
  <2>3. \A i \in Live' : \E j \in Live : peers'[i] = peers[j]
    <3> SUFFICES ASSUME NEW i \in Live' PROVE \E j \in Live : peers'[i] = peers[j]
      OBVIOUS
    <3>1. i \in Slots /\ i \in Live /\ i + 1 \in Live /\ i < peer_count - 1
      BY <2>2 DEF Live, Slots, TypeOK
    <3> QED
      BY <2>2, <3>1 DEF Compact
  <2> QED
    BY <2>3 DEF GhostCountSound, Backed, Waiting
<1> QED
  BY <1>1, <1>2 DEF RemovePeer

LEMMA AddPeerCounts ==
  ASSUME Inv, GhostCountSound, NEW id, AddPeer(id), UNCHANGED <<ghosts, ptr>>
  PROVE  GhostCountSound'
<1> USE LiveSlots DEF Inv, table
<1>1. CASE UNCHANGED table
  BY <1>1 DEF GhostCountSound, Backed, Live, Waiting
<1>2. CASE /\ peer_count < MaxPeers
           /\ peers' = [peers EXCEPT ![peer_count] = Record(id)]
           /\ peer_count' = peer_count + 1
  <2>1. Live' = Live \cup {peer_count} /\ peer_count \notin Live /\ peer_count \in Slots
    BY <1>2, BoundsAssumption DEF Live, Slots, TypeOK
  <2>2. /\ \A i \in Live : peers'[i] = peers[i]
        /\ peers'[peer_count].ghost_count = 0
    BY <1>2, <2>1 DEF TypeOK, Record
  <2>3. \A x : Cardinality(WaitingIn(ghosts, x)) \in Nat
    BY WaitingFinite DEF Waiting
  <2> QED
    BY <2>1, <2>2, <2>3 DEF GhostCountSound, Backed, Waiting
<1> QED
  BY <1>1, <1>2 DEF AddPeer

LEMMA UpdateCounts ==
  ASSUME Inv, GhostCountSound, NEW id, NEW s \in PeerStates, UpdatePeer(id, s),
         UNCHANGED <<ghosts, ptr>>
  PROVE  GhostCountSound'
<1>1. \A i \in Slots : /\ peers'[i].id = peers[i].id
                      /\ peers'[i].ghost_count = peers[i].ghost_count
  BY DEF Inv, TypeOK, UpdatePeer, Peer, table
<1> QED
  BY <1>1, SameCounts DEF Inv, UpdatePeer, table

LEMMA SetCounts ==
  ASSUME Inv, GhostCountSound, NEW t \in Threads, SetField(t)
  PROVE  GhostCountSound'
<1>1. \A i \in Slots : /\ peers'[i].id = peers[i].id
                      /\ peers'[i].ghost_count = peers[i].ghost_count
  BY SMTT(20) DEF Inv, TypeOK, SetField, Peer
<1> QED
  BY <1>1, SameCounts DEF Inv, SetField

LEMMA AddGhostCounts ==
  ASSUME Inv, GhostCountSound, NEW id \in Ids \cup {NoId}, AddGhostMessage(id),
         UNCHANGED <<peer_count, ptr>>
  PROVE  GhostCountSound'
<1> USE LiveSlots DEF Inv
<1>1. CASE UNCHANGED <<peers, ghosts>>
  BY <1>1 DEF GhostCountSound, Backed, Live, Waiting
<1>2. CASE /\ id # NoId /\ Len(ghosts) < MaxGhosts
           /\ ghosts' = Append(ghosts, [to_id |-> id, delivered |-> FALSE])
           /\ peers' = IF Known(id)
                       THEN [peers EXCEPT ![SlotOf(id)].ghost_count = @ + 1]
                       ELSE peers
  <2> DEFINE n == Len(ghosts)
  <2>1. /\ n \in Nat /\ DOMAIN ghosts = 1 .. n /\ DOMAIN ghosts' = 1 .. n + 1
        /\ \A k \in 1 .. n : ghosts'[k] = ghosts[k]
        /\ ghosts'[n + 1] = [to_id |-> id, delivered |-> FALSE]
    BY <1>2 DEF TypeOK
  <2> HIDE DEF n
  <2>2. WaitingIn(ghosts', id) = WaitingIn(ghosts, id) \cup {n + 1}
    BY <2>1 DEF WaitingIn
  <2>3. n + 1 \notin WaitingIn(ghosts, id)
    BY <2>1 DEF WaitingIn
  <2>4. Cardinality(WaitingIn(ghosts', id)) = Cardinality(WaitingIn(ghosts, id)) + 1
    BY <2>2, <2>3, WaitingFinite, FS_AddElement DEF Waiting
  <2>5. ASSUME NEW x, x # id PROVE WaitingIn(ghosts', x) = WaitingIn(ghosts, x)
    BY <2>1, <2>5 DEF WaitingIn
  <2>6. ASSUME NEW i \in Live
        PROVE  Backed(i)'
    <3>1. i \in Slots /\ peers[i] \in Peer /\ Live' = Live
      BY DEF TypeOK, Live
    <3>2. /\ peers[i].ghost_count \in Nat
          /\ Cardinality(WaitingIn(ghosts, peers[i].id)) \in Nat
      BY <3>1, WaitingFinite DEF Peer, Waiting
    <3>3. peers[i].ghost_count <= Cardinality(WaitingIn(ghosts, peers[i].id))
      BY DEF GhostCountSound, Backed, Waiting
    <3>4. CASE peers[i].id = id
      <4>1. Known(id) /\ SlotOf(id) = i
        BY <3>4, SearchFinds DEF Known, UniqueIds
      <4>2. peers'[i].ghost_count = peers[i].ghost_count + 1 /\ peers'[i].id = id
        BY <1>2, <3>1, <3>4, <4>1 DEF TypeOK, Peer
      <4> QED
        BY <2>4, <3>2, <3>3, <3>4, <4>2 DEF Backed, Waiting
    <3>5. CASE peers[i].id # id
      <4>1. peers'[i] = peers[i]
        <5>1. CASE ~Known(id)
          BY <1>2, <5>1
        <5>2. CASE Known(id)
          <6>1. SlotOf(id) # i
            BY <3>5, <5>2, SearchFinds
          <6> QED
            BY <1>2, <3>1, <5>2, <6>1 DEF TypeOK
        <5> QED
          BY <5>1, <5>2
      <4> QED
        BY <2>5, <3>3, <3>5, <4>1 DEF Backed, Waiting
    <3> QED
      BY <3>4, <3>5
  <2>7. Live' = Live
    BY DEF Live
  <2> QED
    BY <2>6, <2>7 DEF GhostCountSound
<1> QED
  BY <1>1, <1>2 DEF AddGhostMessage

LEMMA DeliverCounts ==
  ASSUME Inv, GhostCountSound, NEW id \in Ids \cup {NoId}, DeliverGhostMessages(id),
         UNCHANGED <<peer_count, ptr>>
  PROVE  GhostCountSound'
<1> USE LiveSlots DEF Inv
<1>1. /\ DOMAIN ghosts' = DOMAIN ghosts
      /\ \A k \in DOMAIN ghosts : ghosts[k] \in GhostMessage
      /\ \A k \in DOMAIN ghosts :
           ghosts'[k] = IF ghosts[k].to_id = id
                        THEN [ghosts[k] EXCEPT !.delivered = TRUE] ELSE ghosts[k]
  BY DEF DeliverGhostMessages, TypeOK
<1>2. WaitingIn(ghosts', id) = {}
  BY <1>1 DEF WaitingIn, GhostMessage
<1>3. ASSUME NEW x, x # id PROVE WaitingIn(ghosts', x) = WaitingIn(ghosts, x)
  BY <1>1, <1>3 DEF WaitingIn, GhostMessage
<1>4. ASSUME NEW i \in Live
      PROVE  Backed(i)'
  <2>1. i \in Slots /\ peers[i] \in Peer /\ peers[i].ghost_count \in Nat
    BY DEF TypeOK, Peer
  <2>2. peers[i].ghost_count <= Cardinality(WaitingIn(ghosts, peers[i].id))
    BY DEF GhostCountSound, Backed, Waiting
  <2>3. CASE peers[i].id = id
    <3> DEFINE n == Cardinality(Waiting(id))
    <3>1. Known(id) /\ SlotOf(id) = i
      BY <2>3, SearchFinds DEF Known, UniqueIds
    <3>2. n \in Nat /\ peers[i].ghost_count <= n
      BY <2>2, <2>3, WaitingFinite DEF Waiting
    <3>3. peers'[i] = [peers[i] EXCEPT !.ghost_count = IF @ < n THEN 0 ELSE @ - n]
      BY <2>1, <3>1 DEF DeliverGhostMessages, TypeOK
    <3> HIDE DEF n
    <3>4. peers'[i].ghost_count = 0 /\ peers'[i].id = id
      BY <2>1, <2>3, <3>2, <3>3 DEF Peer
    <3> QED
      BY <1>2, <3>4, FS_EmptySet DEF Backed, Waiting
  <2>4. CASE peers[i].id # id
    <3>1. peers'[i] = peers[i]
      <4>1. CASE ~Known(id)
        BY <4>1 DEF DeliverGhostMessages
      <4>2. CASE Known(id)
        <5>1. SlotOf(id) # i
          BY <2>4, <4>2, SearchFinds
        <5> QED
          BY <2>1, <4>2, <5>1 DEF DeliverGhostMessages, TypeOK
      <4> QED
        BY <4>1, <4>2
    <3> QED
      BY <1>3, <2>2, <2>4, <3>1 DEF Backed, Waiting
  <2> QED
    BY <2>3, <2>4
<1>5. Live' = Live
  BY DEF Live
<1> QED
  BY <1>4, <1>5 DEF GhostCountSound

\* A step keeps the counters backed.
LEMMA NextCounts == Inv /\ GhostCountSound /\ [Next]_vars => GhostCountSound'
<1> SUFFICES ASSUME Inv, GhostCountSound, [Next]_vars PROVE GhostCountSound'
  OBVIOUS
<1>1. ASSUME NEW t \in Threads, NEW id, NEW w, GetPeer(t, id, w),
             UNCHANGED <<peers, peer_count, ghosts>>
      PROVE  GhostCountSound'
  BY <1>1, SameCounts DEF Inv
<1>2. ASSUME NEW t \in Threads, Calls(t) PROVE GhostCountSound'
  BY <1>1, <1>2, AddPeerCounts, UpdateCounts, RemoveCounts, AddGhostCounts,
     DeliverCounts DEF Calls
<1>3. ASSUME NEW t \in Threads, SetField(t) PROVE GhostCountSound'
  BY <1>3, SetCounts
<1>4. CASE UNCHANGED vars
  BY <1>4, SameCounts DEF vars, Inv
<1> QED
  BY <1>2, <1>3, <1>4 DEF Next

\* Within one run of the process a peer's ghost_count is backed by messages
\* that wait for it, whatever is added, removed and delivered in between.
THEOREM GhostCountsAreBacked == Spec => []GhostCountSound
<1>1. Init => GhostCountSound
  BY DEF Init, GhostCountSound, Live
<1> QED
  BY <1>1, NextCounts, Safety, PTL DEF Spec

----------------------------------------------------------------------------
(* The refinement of PeerBook.  What a table of n records p says as a book   *)
(* is an expression of p and n alone, so that the same facts serve before    *)
(* and after a step.                                                         *)

Dense(p, n) == \A i, j \in 0 .. n - 1 : p[i].id = p[j].id => i = j
Names(p, n) == {p[i].id : i \in 0 .. n - 1}
SlotIn(p, n, id) ==
  CHOOSE i \in 0 .. n - 1 : p[i].id = id /\ \A j \in 0 .. i - 1 : p[j].id # id
EntryIn(p, i) ==
  [state |-> p[i].state, online |-> p[i].online, ip |-> p[i].ip, port |-> p[i].port]
BookOf(p, n) == [id \in Names(p, n) |-> EntryIn(p, SlotIn(p, n, id))]

\* A book with another entry for one peer, and with none.
Put(b, id, e) == [x \in DOMAIN b \cup {id} |-> IF x = id THEN e ELSE b[x]]
Without(b, id) == [x \in DOMAIN b \ {id} |-> b[x]]

\* book is the book of the table.
LEMMA BookIs == /\ book = BookOf(peers, peer_count)
                /\ book' = BookOf(peers', peer_count')
BY DEF book, BookOf, Names, Entry, EntryIn, Live, SlotOf, SlotIn

\* Every live record is the entry of its peer.
LEMMA BookEntries ==
  ASSUME NEW p, NEW n \in Nat, Dense(p, n)
  PROVE  /\ DOMAIN BookOf(p, n) = Names(p, n)
         /\ \A i \in 0 .. n - 1 : BookOf(p, n)[p[i].id] = EntryIn(p, i)
<1>1. DOMAIN BookOf(p, n) = Names(p, n)
  BY DEF BookOf
<1>2. ASSUME NEW i \in 0 .. n - 1
      PROVE  BookOf(p, n)[p[i].id] = EntryIn(p, i)
  <2>1. \A j \in 0 .. n - 1 : p[j].id = p[i].id => j = i
    BY DEF Dense
  <2>2. \A j \in 0 .. i - 1 : p[j].id # p[i].id
    BY <2>1
  <2>3. SlotIn(p, n, p[i].id) = i
    BY <2>1, <2>2 DEF SlotIn
  <2>4. p[i].id \in Names(p, n)
    BY DEF Names
  <2> QED
    BY <2>3, <2>4 DEF BookOf
<1> QED
  BY <1>1, <1>2

\* A table of n records names at most n peers.
LEMMA NamesCounted ==
  ASSUME NEW p, NEW n \in Nat
  PROVE  IsFiniteSet(Names(p, n)) /\ Cardinality(Names(p, n)) <= n
<1> DEFINE f == [i \in 0 .. n - 1 |-> p[i].id]
<1>1. f \in Surjection(0 .. n - 1, Names(p, n))
  BY DEF Surjection, Names
<1>2. IsFiniteSet(0 .. n - 1) /\ Cardinality(0 .. n - 1) = n
  BY FS_Interval
<1> HIDE DEF f
<1> QED
  BY <1>1, <1>2, FS_Surjection

LEMMA BookIsFunction ==
  ASSUME NEW p, NEW n
  PROVE  BookOf(p, n) = [id \in Names(p, n) |-> BookOf(p, n)[id]]
BY DEF BookOf

\* Identifiers that are the same in every slot, and the entries too: the same book.
LEMMA SameBook ==
  ASSUME NEW p, NEW q, NEW n \in Nat, Dense(p, n),
         \A i \in 0 .. n - 1 : q[i].id = p[i].id /\ EntryIn(q, i) = EntryIn(p, i)
  PROVE  BookOf(q, n) = BookOf(p, n)
<1>1. Dense(q, n) /\ Names(q, n) = Names(p, n)
  BY DEF Dense, Names
<1>2. ASSUME NEW id \in Names(p, n)
      PROVE  BookOf(q, n)[id] = BookOf(p, n)[id]
  <2>1. PICK i \in 0 .. n - 1 : id = p[i].id
    BY DEF Names
  <2>2. BookOf(p, n)[id] = EntryIn(p, i)
    BY <2>1, BookEntries
  <2>3. BookOf(q, n)[id] = EntryIn(q, i)
    BY <1>1, <2>1, BookEntries
  <2> QED
    BY <2>2, <2>3
<1> QED
  BY <1>1, <1>2, BookIsFunction

\* Another entry in one slot: another entry for one peer.
LEMMA ChangedBook ==
  ASSUME NEW p, NEW q, NEW n \in Nat, Dense(p, n), NEW s \in 0 .. n - 1,
         \A i \in 0 .. n - 1 : q[i].id = p[i].id,
         \A i \in 0 .. n - 1 : i # s => EntryIn(q, i) = EntryIn(p, i)
  PROVE  BookOf(q, n) = Put(BookOf(p, n), p[s].id, EntryIn(q, s))
<1>1. Dense(q, n) /\ Names(q, n) = Names(p, n) /\ p[s].id \in Names(p, n)
  BY DEF Dense, Names
<1>2. ASSUME NEW id \in Names(p, n)
      PROVE  BookOf(q, n)[id] = IF id = p[s].id THEN EntryIn(q, s) ELSE BookOf(p, n)[id]
  <2>1. PICK i \in 0 .. n - 1 : id = p[i].id
    BY DEF Names
  <2>2. BookOf(p, n)[id] = EntryIn(p, i)
    BY <2>1, BookEntries
  <2>3. BookOf(q, n)[id] = EntryIn(q, i)
    BY <1>1, <2>1, BookEntries
  <2>4. id = p[s].id <=> i = s
    BY <2>1 DEF Dense
  <2> QED
    BY <2>2, <2>3, <2>4
<1>3. Names(p, n) \cup {p[s].id} = Names(p, n)
  BY <1>1
<1>4. BookOf(q, n) = [id \in Names(q, n) |-> BookOf(q, n)[id]]
  BY BookIsFunction
<1>5. Names(q, n) = Names(p, n) \cup {p[s].id}
  BY <1>1, <1>3
<1>6. DOMAIN BookOf(p, n) = Names(p, n)
  BY BookEntries
<1> QED
  BY <1>2, <1>3, <1>4, <1>5, <1>6 DEF Put

\* One slot more, for a peer that had none: one entry more.
LEMMA AddedBook ==
  ASSUME NEW p, NEW q, NEW n \in Nat, Dense(p, n), NEW id, id \notin Names(p, n), NEW e,
         \A i \in 0 .. n - 1 : q[i] = p[i],
         q[n].id = id, EntryIn(q, n) = e
  PROVE  BookOf(q, n + 1) = Put(BookOf(p, n), id, e)
<1>1. 0 .. (n + 1) - 1 = (0 .. n - 1) \cup {n} /\ n \notin 0 .. n - 1
  OBVIOUS
<1>2. Names(q, n + 1) = Names(p, n) \cup {id}
  BY <1>1 DEF Names
<1>3. Dense(q, n + 1)
  BY <1>1 DEF Dense, Names
<1>4. ASSUME NEW x \in Names(p, n) \cup {id}
      PROVE  BookOf(q, n + 1)[x] = IF x = id THEN e ELSE BookOf(p, n)[x]
  <2>1. CASE x = id
    <3>1. BookOf(q, n + 1)[q[n].id] = EntryIn(q, n)
      BY <1>1, <1>3, BookEntries
    <3> QED
      BY <2>1, <3>1
  <2>2. CASE x # id
    <3>1. PICK i \in 0 .. n - 1 : x = p[i].id
      BY <2>2 DEF Names
    <3>2. BookOf(p, n)[x] = EntryIn(p, i)
      BY <3>1, BookEntries
    <3>3. BookOf(q, n + 1)[q[i].id] = EntryIn(q, i)
      BY <1>1, <1>3, BookEntries
    <3>4. q[i].id = x /\ EntryIn(q, i) = EntryIn(p, i)
      BY <3>1 DEF EntryIn
    <3> QED
      BY <2>2, <3>2, <3>3, <3>4
  <2> QED
    BY <2>1, <2>2
<1>5. BookOf(q, n + 1) = [x \in Names(q, n + 1) |-> BookOf(q, n + 1)[x]]
  BY BookIsFunction
<1>6. DOMAIN BookOf(p, n) = Names(p, n)
  BY BookEntries
<1> QED
  BY <1>2, <1>4, <1>5, <1>6 DEF Put

\* The shift of state_remove_peer takes out the entry of one peer and no other.
LEMMA RemovedBook ==
  ASSUME NEW p, NEW q, NEW n \in Nat, Dense(p, n), NEW at \in 0 .. n - 1,
         \A i \in 0 .. n - 2 : q[i] = IF at <= i THEN p[i + 1] ELSE p[i]
  PROVE  BookOf(q, n - 1) = Without(BookOf(p, n), p[at].id)
<1> DEFINE m == n - 1
           From(i) == IF at <= i THEN i + 1 ELSE i
<1>1. m \in Nat /\ 0 .. m - 1 = 0 .. n - 2
  OBVIOUS
<1>2. \A i \in 0 .. m - 1 : From(i) \in 0 .. n - 1 /\ From(i) # at /\ q[i] = p[From(i)]
  OBVIOUS
<1>3. \A j \in 0 .. n - 1 : j # at => \E i \in 0 .. m - 1 : From(i) = j
  <2> SUFFICES ASSUME NEW j \in 0 .. n - 1, j # at
               PROVE  \E i \in 0 .. m - 1 : From(i) = j
    OBVIOUS
  <2>1. CASE j < at
    BY <2>1
  <2>2. CASE at < j
    <3>1. j - 1 \in 0 .. m - 1 /\ From(j - 1) = j
      BY <2>2
    <3> QED
      BY <3>1
  <2> QED
    BY <2>1, <2>2
<1>4. \A i, j \in 0 .. m - 1 : From(i) = From(j) => i = j
  OBVIOUS
<1> HIDE DEF From, m
<1>5. Dense(q, m)
  BY <1>2, <1>4 DEF Dense
<1>6. Names(q, m) = Names(p, n) \ {p[at].id}
  BY <1>2, <1>3 DEF Names, Dense
<1>7. ASSUME NEW x \in Names(q, m)
      PROVE  BookOf(q, m)[x] = BookOf(p, n)[x]
  <2>1. PICK i \in 0 .. m - 1 : x = q[i].id
    BY DEF Names
  <2>2. BookOf(q, m)[x] = EntryIn(q, i)
    BY <1>1, <1>5, <2>1, BookEntries
  <2>3. BookOf(p, n)[p[From(i)].id] = EntryIn(p, From(i))
    BY <1>2, BookEntries
  <2>4. p[From(i)].id = x /\ EntryIn(q, i) = EntryIn(p, From(i))
    BY <1>2, <2>1 DEF EntryIn
  <2> QED
    BY <2>2, <2>3, <2>4
<1>8. BookOf(q, m) = [x \in Names(q, m) |-> BookOf(q, m)[x]]
  BY BookIsFunction
<1>9. DOMAIN BookOf(p, n) = Names(p, n)
  BY BookEntries
<1>10. BookOf(q, m) = Without(BookOf(p, n), p[at].id)
  BY <1>6, <1>7, <1>8, <1>9 DEF Without
<1> QED
  BY <1>10 DEF m

----------------------------------------------------------------------------
(* What each operation does to the book.                                     *)

\* Where the invariant holds, the book has an entry for every live record.
LEMMA BookOfTable ==
  ASSUME TypeOK, UniqueIds
  PROVE  /\ peer_count \in Nat /\ Live = 0 .. peer_count - 1 /\ Live \subseteq Slots
         /\ Dense(peers, peer_count)
         /\ DOMAIN book = Names(peers, peer_count)
         /\ \A id : Known(id) <=> id \in DOMAIN book
         /\ \A i \in Live : book[peers[i].id] = EntryIn(peers, i)
<1>1. peer_count \in Nat /\ Live = 0 .. peer_count - 1 /\ Live \subseteq Slots
  BY LiveSlots DEF TypeOK, Live
<1>2. Dense(peers, peer_count)
  BY DEF Dense, UniqueIds, Live
<1>3. /\ DOMAIN book = Names(peers, peer_count)
      /\ \A i \in Live : book[peers[i].id] = EntryIn(peers, i)
  BY <1>1, <1>2, BookEntries, BookIs
<1>4. \A id : Known(id) <=> id \in DOMAIN book
  BY <1>3 DEF Known, Names, Live
<1> QED
  BY <1>1, <1>2, <1>3, <1>4

\* A step that keeps the count and changes neither identifiers nor entries keeps the
\* book.
LEMMA KeptBook ==
  ASSUME TypeOK, UniqueIds, peer_count' = peer_count,
         \A i \in Live : peers'[i].id = peers[i].id /\ EntryIn(peers', i) = EntryIn(peers, i)
  PROVE  UNCHANGED book
BY BookOfTable, BookIs, SameBook

\* PeerBook counts with the same operator.
LEMMA BookCounts == \A S : Book!Cardinality(S) = Cardinality(S)
BY DEF Book!Cardinality, Cardinality

LEMMA AddBook ==
  ASSUME Inv, NEW id \in Ids, AddPeer(id)
  PROVE  Book!Add(id) \/ UNCHANGED table
<1>1. CASE /\ id # NoId /\ ~Known(id) /\ peer_count < MaxPeers
           /\ peers' = [peers EXCEPT ![peer_count] = Record(id)]
           /\ peer_count' = peer_count + 1
  <2> DEFINE e == [state |-> "UNKNOWN", online |-> FALSE, ip |-> NoIp, port |-> 0]
  <2>1. peer_count \in Slots
    BY <1>1, BoundsAssumption DEF Inv, TypeOK, Slots
  <2>2. \A i \in 0 .. peer_count - 1 : peers'[i] = peers[i]
    BY <1>1, BookOfTable DEF Inv, TypeOK
  <2>3. peers'[peer_count] = Record(id)
    BY <1>1, <2>1 DEF Inv, TypeOK
  <2>4. peers'[peer_count].id = id /\ EntryIn(peers', peer_count) = e
    BY <2>3 DEF Record, EntryIn
  <2> HIDE DEF e
  <2>5. id \notin DOMAIN book
    BY <1>1, BookOfTable DEF Inv
  <2>6. Cardinality(DOMAIN book) < MaxPeers
    <3>1. /\ IsFiniteSet(DOMAIN book)
          /\ Cardinality(DOMAIN book) <= peer_count
      BY BookOfTable, NamesCounted DEF Inv
    <3>2. Cardinality(DOMAIN book) \in Nat
      BY <3>1, FS_CardinalityType
    <3> QED
      BY <1>1, <3>1, <3>2, BoundsAssumption DEF Inv, TypeOK
  <2>7. book' = Put(book, id, e)
    <3>1. /\ book = BookOf(peers, peer_count) /\ DOMAIN book = Names(peers, peer_count)
          /\ Dense(peers, peer_count) /\ peer_count \in Nat
      BY BookIs, BookOfTable DEF Inv
    <3>2. BookOf(peers', peer_count + 1) = Put(BookOf(peers, peer_count), id, e)
      BY <2>2, <2>4, <2>5, <3>1, AddedBook
    <3> QED
      BY <1>1, <3>1, <3>2, BookIs
  <2> QED
    BY <2>5, <2>6, <2>7, BookCounts DEF e, Put, Book!Add, Book!Known, Book!With
<1> QED
  BY <1>1 DEF AddPeer

\* A step that changes one record, and not the identifier in it, changes one entry.
LEMMA OneEntry ==
  ASSUME TypeOK, UniqueIds, peer_count' = peer_count, NEW s \in Live,
         \A i \in Live : peers'[i].id = peers[i].id,
         \A i \in Live : i # s => peers'[i] = peers[i]
  PROVE  book' = Put(book, peers[s].id, EntryIn(peers', s))
<1> DEFINE p == peers
           q == peers'
           n == peer_count
<1>1. n \in Nat /\ Live = 0 .. n - 1 /\ Dense(p, n) /\ DOMAIN book = Names(p, n)
  BY BookOfTable
<1>2. /\ \A i \in 0 .. n - 1 : q[i].id = p[i].id
      /\ \A i \in 0 .. n - 1 : i # s => EntryIn(q, i) = EntryIn(p, i)
  BY <1>1 DEF EntryIn
<1>3. book = BookOf(p, n) /\ book' = BookOf(q, n)
  BY BookIs
<1> HIDE DEF p, q, n
<1>4. BookOf(q, n) = Put(BookOf(p, n), p[s].id, EntryIn(q, s))
  BY <1>1, <1>2, ChangedBook
<1> QED
  BY <1>1, <1>3, <1>4 DEF p, q

LEMMA UpdateBook ==
  ASSUME Inv, NEW id \in Ids, NEW s \in PeerStates, UpdatePeer(id, s)
  PROVE  Book!Update(id, s) \/ UNCHANGED table
<1>1. CASE /\ Known(id)
           /\ peers' = [peers EXCEPT ![SlotOf(id)].state = s]
           /\ UNCHANGED peer_count
  <2> DEFINE at == SlotOf(id)
             e == [book[id] EXCEPT !.state = s]
  <2>1. at \in 0 .. peer_count - 1 /\ at \in Slots /\ peers[at].id = id
    BY <1>1, SearchFinds, BookOfTable DEF Inv
  <2>2. book[id] = EntryIn(peers, at)
    BY <2>1, BookOfTable DEF Inv
  <2> HIDE DEF at
  <2>3. /\ \A i \in 0 .. peer_count - 1 : peers'[i].id = peers[i].id
        /\ \A i \in 0 .. peer_count - 1 : i # at => peers'[i] = peers[i]
        /\ EntryIn(peers', at) = e
    BY <1>1, <2>1, <2>2, BookOfTable, SMTT(20) DEF Inv, TypeOK, Peer, EntryIn, at
  <2> HIDE DEF e
  <2>4. book' = Put(book, id, e)
    BY <1>1, <2>1, <2>3, BookOfTable, OneEntry DEF Inv
  <2> QED
    BY <1>1, <2>4, BookOfTable DEF e, Put, Inv, Book!Update, Book!Known, Book!With
<1> QED
  BY <1>1 DEF UpdatePeer, table

LEMMA RemoveBook ==
  ASSUME Inv, NEW id \in Ids, RemovePeer(id)
  PROVE  Book!Remove(id) \/ UNCHANGED table
<1>1. CASE /\ Known(id)
           /\ peers' = Compact(SlotOf(id))
           /\ peer_count' = peer_count - 1
  <2> DEFINE at == SlotOf(id)
  <2>1. at \in 0 .. peer_count - 1 /\ peers[at].id = id
    BY <1>1, SearchFinds, BookOfTable DEF Inv
  <2> HIDE DEF at
  <2>2. \A i \in 0 .. peer_count - 2 :
          peers'[i] = IF at <= i THEN peers[i + 1] ELSE peers[i]
    <3> SUFFICES ASSUME NEW i \in 0 .. peer_count - 2
                 PROVE  peers'[i] = IF at <= i THEN peers[i + 1] ELSE peers[i]
      OBVIOUS
    <3>1. i \in Slots /\ i < peer_count - 1
      BY BookOfTable DEF Inv
    <3> QED
      BY <1>1, <3>1 DEF Compact, at
  <2>3. book' = Without(book, id)
    <3>1. /\ book = BookOf(peers, peer_count) /\ DOMAIN book = Names(peers, peer_count)
          /\ Dense(peers, peer_count) /\ peer_count \in Nat
      BY BookIs, BookOfTable DEF Inv
    <3>2. BookOf(peers', peer_count - 1) = Without(BookOf(peers, peer_count), peers[at].id)
      BY <2>1, <2>2, <3>1, RemovedBook
    <3> QED
      BY <1>1, <2>1, <3>1, <3>2, BookIs
  <2> QED
    BY <1>1, <2>3, BookOfTable DEF Inv, Without, Book!Remove, Book!Known
<1> QED
  BY <1>1 DEF RemovePeer, table

\* A setter whose pointer is good writes to the peer it was asked about.
LEMMA SetBook ==
  ASSUME Inv, NEW t \in Threads, SetField(t), ~ptr[t].moved, NEW w, w = ptr[t].write
  PROVE  /\ ptr[t].id \in Ids
         /\ w.field = "online" => w.value \in BOOLEAN /\ Book!SetOnline(ptr[t].id, w.value)
         /\ w.field = "ip" => w.value \in Ips \cup {NoIp} /\ Book!SetIp(ptr[t].id, w.value)
         /\ w.field = "port" => w.value \in Ports \cup {0} /\ Book!SetPort(ptr[t].id, w.value)
<1> DEFINE at == ptr[t].slot
           id == ptr[t].id
<1>1. w \in Write /\ id \in Ids /\ ptr[t] # NoPtr
  BY DEF SetField, Inv, TypeOK, Pointer
<1>2. at \in Live /\ peers[at].id = id /\ at \in Slots
  BY <1>1, BookOfTable DEF Inv, OnlyRemovalInvalidates, PointerGood
<1>3. id \in DOMAIN book /\ book[id] = EntryIn(peers, at)
  BY <1>2, BookOfTable DEF Inv, Known
<1>4. peers[at] \in Peer /\ peer_count' = peer_count
  BY <1>2 DEF Inv, TypeOK, SetField
<1>5. w.field = "online" => w.value \in BOOLEAN /\ Book!SetOnline(id, w.value)
  <2> SUFFICES ASSUME w.field = "online"
               PROVE  w.value \in BOOLEAN /\ Book!SetOnline(id, w.value)
    OBVIOUS
  <2>1. peers' = [peers EXCEPT ![at].online = w.value]
    BY DEF SetField
  <2>2. /\ \A i \in Live : peers'[i].id = peers[i].id
        /\ \A i \in Live : i # at => peers'[i] = peers[i]
        /\ EntryIn(peers', at) = [book[id] EXCEPT !.online = w.value]
    BY <1>2, <1>3, <1>4, <2>1, BookOfTable DEF Inv, TypeOK, Peer, EntryIn
  <2> HIDE DEF at, id
  <2>3. book' = Put(book, id, [book[id] EXCEPT !.online = w.value])
    BY <1>2, <1>4, <2>2, OneEntry DEF Inv
  <2>4. w.value \in BOOLEAN
    BY <1>1 DEF Write
  <2> QED
    BY <1>3, <2>3, <2>4 DEF Put, Book!SetOnline, Book!Known, Book!With
<1>6. w.field = "ip" => w.value \in Ips \cup {NoIp} /\ Book!SetIp(id, w.value)
  <2> SUFFICES ASSUME w.field = "ip"
               PROVE  w.value \in Ips \cup {NoIp} /\ Book!SetIp(id, w.value)
    OBVIOUS
  <2>1. peers' = [peers EXCEPT ![at].ip = w.value]
    BY DEF SetField
  <2>2. /\ \A i \in Live : peers'[i].id = peers[i].id
        /\ \A i \in Live : i # at => peers'[i] = peers[i]
        /\ EntryIn(peers', at) = [book[id] EXCEPT !.ip = w.value]
    BY <1>2, <1>3, <1>4, <2>1, BookOfTable DEF Inv, TypeOK, Peer, EntryIn
  <2> HIDE DEF at, id
  <2>3. book' = Put(book, id, [book[id] EXCEPT !.ip = w.value])
    BY <1>2, <1>4, <2>2, OneEntry DEF Inv
  <2>4. w.value \in Ips \cup {NoIp}
    BY <1>1 DEF Write
  <2> QED
    BY <1>3, <2>3, <2>4 DEF Put, Book!SetIp, Book!Known, Book!With
<1>7. w.field = "port" => w.value \in Ports \cup {0} /\ Book!SetPort(id, w.value)
  <2> SUFFICES ASSUME w.field = "port"
               PROVE  w.value \in Ports \cup {0} /\ Book!SetPort(id, w.value)
    OBVIOUS
  <2>1. peers' = [peers EXCEPT ![at].port = w.value]
    BY DEF SetField
  <2>2. /\ \A i \in Live : peers'[i].id = peers[i].id
        /\ \A i \in Live : i # at => peers'[i] = peers[i]
        /\ EntryIn(peers', at) = [book[id] EXCEPT !.port = w.value]
    BY <1>2, <1>3, <1>4, <2>1, BookOfTable DEF Inv, TypeOK, Peer, EntryIn
  <2> HIDE DEF at, id
  <2>3. book' = Put(book, id, [book[id] EXCEPT !.port = w.value])
    BY <1>2, <1>4, <2>2, OneEntry DEF Inv
  <2>4. w.value \in Ports \cup {0}
    BY <1>1 DEF Write
  <2> QED
    BY <1>3, <2>3, <2>4 DEF Put, Book!SetPort, Book!Known, Book!With
<1> QED
  BY <1>1, <1>5, <1>6, <1>7 DEF id

\* Ghost messages change the counter of a record, which is no part of the book.
LEMMA GhostBook ==
  ASSUME Inv, NEW id, AddGhostMessage(id) \/ DeliverGhostMessages(id), UNCHANGED peer_count
  PROVE  UNCHANGED book
<1> DEFINE Counted(v) == peers' = [peers EXCEPT ![SlotOf(id)].ghost_count = v]
           n == peers[SlotOf(id)].ghost_count
           d == Cardinality(Waiting(id))
<1>1. UNCHANGED peers \/ Counted(n + 1) \/ Counted(IF n < d THEN 0 ELSE n - d)
  BY Zenon DEF AddGhostMessage, DeliverGhostMessages
<1>2. UNCHANGED peers \/ \E v : Counted(v)
  BY <1>1
<1>3. \A i \in Slots : peers'[i].id = peers[i].id /\ EntryIn(peers', i) = EntryIn(peers, i)
  <2>1. CASE UNCHANGED peers
    BY <2>1 DEF EntryIn
  <2>2. ASSUME NEW v, Counted(v)
        PROVE  \A i \in Slots : peers'[i].id = peers[i].id /\ EntryIn(peers', i) = EntryIn(peers, i)
    BY <2>2 DEF Inv, TypeOK, Peer, EntryIn
  <2> QED
    BY <1>2, <2>1, <2>2
<1> QED
  BY <1>3, KeptBook, BookOfTable DEF Inv

\* Every step is a step of the book, but for the stale write.
LEMMA NextBook ==
  ASSUME Inv, Next, ~StaleWrite
  PROVE  Book!Next \/ UNCHANGED book
<1>1. ASSUME UNCHANGED table PROVE UNCHANGED book
  BY <1>1, KeptBook DEF Inv, table
<1>2. ASSUME NEW t \in Threads, Calls(t)
      PROVE  Book!Next \/ UNCHANGED book
  <2>1. PICK id \in Ids \cup {NoId} :
          \/ AddPeer(id)
          \/ \E s \in PeerStates : UpdatePeer(id, s)
          \/ RemovePeer(id)
          \/ UNCHANGED table
          \/ (AddGhostMessage(id) \/ DeliverGhostMessages(id)) /\ UNCHANGED peer_count
    BY <1>2 DEF Calls, table
  <2>2. CASE id \in Ids
    <3>1. CASE AddPeer(id)
      BY <1>1, <2>2, <3>1, AddBook DEF Book!Next
    <3>2. CASE \E s \in PeerStates : UpdatePeer(id, s)
      BY <1>1, <2>2, <3>2, UpdateBook DEF Book!Next
    <3>3. CASE RemovePeer(id)
      BY <1>1, <2>2, <3>3, RemoveBook DEF Book!Next
    <3> QED
      BY <1>1, <2>1, <3>1, <3>2, <3>3, GhostBook
  <2>3. CASE id = NoId
    <3>1. ~Known(id)
      BY <2>3 DEF Known, Inv, UniqueIds
    <3> QED
      BY <1>1, <2>1, <2>3, <3>1, GhostBook DEF AddPeer, UpdatePeer, RemovePeer, table
  <2> QED
    BY <2>2, <2>3
<1>3. ASSUME NEW t \in Threads, SetField(t)
      PROVE  Book!Next
  <2>1. ~ptr[t].moved
    BY <1>3 DEF StaleWrite, SetField
  <2>2. ptr[t].write.field \in {"online", "ip", "port"}
    BY <1>3 DEF SetField
  <2> QED
    BY <1>3, <2>1, <2>2, SetBook DEF Book!Next
<1> QED
  BY <1>2, <1>3 DEF Next

\* It does to the book what the operation is asked to do.
LEMMA NextBookStep == Inv /\ [Next]_vars => [BookStep]_vars
<1> SUFFICES ASSUME Inv, Next, ~StaleWrite
             PROVE  BookStep
  BY DEF BookStep
<1>1. ASSUME NEW t \in Threads, SetField(t)
      PROVE  LET w == ptr[t].write
             IN  /\ w.field = "online" => Book!SetOnline(ptr[t].id, w.value)
                 /\ w.field = "ip" => Book!SetIp(ptr[t].id, w.value)
                 /\ w.field = "port" => Book!SetPort(ptr[t].id, w.value)
  <2>1. ~ptr[t].moved
    BY <1>1 DEF StaleWrite, SetField
  <2> QED
    BY <1>1, <2>1, SetBook
<1> QED
  BY <1>1, NextBook, AddBook, RemoveBook, UpdateBook DEF BookStep

\* The array implements the book, for any number of threads, peers and slots: every
\* operation does to the book what it is asked to do, or nothing; only a write through a
\* pointer that a removal made stale does not.
THEOREM ImplementsBook == Spec => BookSpec
<1>1. Init => Book!Init
  BY BookIs DEF Init, Book!Init, BookOf, Names
<1> QED
  BY <1>1, NextBookStep, Safety, PTL DEF Spec, BookSpec
==============================================================================
