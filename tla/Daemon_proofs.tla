---------------------------- MODULE Daemon_proofs ----------------------------
(***************************************************************************)
(* Proofs about the daemon.  The ring of its event loop is a bounded FIFO, *)
(* for every size and any number of consumers.  There is one daemon, and   *)
(* its files find it, for any number of commands that overlap and any      *)
(* number of crashes, until one is started while another is on its way up  *)
(* or down.  Its threads share the peer table as the state manager allows, whose invariants hold *)
(* therefore of what they make of any peers the daemon has loaded.         *)
(***************************************************************************)
EXTENDS EventQueue, Lifecycle, DaemonFriends, FiniteSetTheorems, SequenceTheorems, TLAPS

\* The ring's arithmetic never needs more than one lap.
LEMMA SlotOf ==
  ASSUME NEW i \in Index, NEW k \in 0 .. Size
  PROVE  /\ i + k < Size => Slot(i, k) = i + k
         /\ i + k >= Size => Slot(i, k) = i + k - Size
         /\ Slot(i, k) \in Index
BY SizeAssumption DEF Slot, Index

\* Going k places and then one is going k + 1, in either order.
LEMMA SlotStep ==
  ASSUME NEW i \in Index, NEW k \in 0 .. Size - 1
  PROVE  /\ Slot(Slot(i, k), 1) = Slot(i, k + 1)
         /\ Slot(Slot(i, 1), k) = Slot(i, k + 1)
<1> USE SizeAssumption
<1>1. k \in 0 .. Size /\ k + 1 \in 0 .. Size /\ 1 \in 0 .. Size
  OBVIOUS
<1>2. /\ Slot(i, k) \in Index
      /\ Slot(i, 1) \in Index
  BY <1>1, SlotOf
<1>3. /\ i + k < Size => Slot(i, k) = i + k
      /\ i + k >= Size => Slot(i, k) = i + k - Size
  BY <1>1, SlotOf
<1>4. /\ i + 1 < Size => Slot(i, 1) = i + 1
      /\ i + 1 >= Size => Slot(i, 1) = i + 1 - Size
  BY <1>1, SlotOf
<1>5. /\ i + (k + 1) < Size => Slot(i, k + 1) = i + (k + 1)
      /\ i + (k + 1) >= Size => Slot(i, k + 1) = i + (k + 1) - Size
  BY <1>1, SlotOf
<1>6. /\ Slot(i, k) + 1 < Size => Slot(Slot(i, k), 1) = Slot(i, k) + 1
      /\ Slot(i, k) + 1 >= Size => Slot(Slot(i, k), 1) = Slot(i, k) + 1 - Size
  BY <1>1, <1>2, SlotOf
<1>7. /\ Slot(i, 1) + k < Size => Slot(Slot(i, 1), k) = Slot(i, 1) + k
      /\ Slot(i, 1) + k >= Size => Slot(Slot(i, 1), k) = Slot(i, 1) + k - Size
  BY <1>1, <1>2, SlotOf
<1>8. Slot(Slot(i, k), 1) = Slot(i, k + 1)
  BY <1>2, <1>3, <1>5, <1>6 DEF Index
<1>9. Slot(Slot(i, 1), k) = Slot(i, k + 1)
  BY <1>2, <1>4, <1>5, <1>7 DEF Index
<1> QED
  BY <1>8, <1>9

----------------------------------------------------------------------------
(* Type correctness and the agreement of the indices.                       *)

RingInv == TypeOK /\ RingConsistent

LEMMA InitRing == Init => RingInv
<1> SUFFICES ASSUME Init PROVE RingInv
  OBVIOUS
<1> USE SizeAssumption DEF Init, Index
<1>1. TypeOK
  <2>1. 0 \in Index /\ 0 \in 0 .. Size
    OBVIOUS
  <2>2. pc \in [Consumers -> Control]
    BY DEF Control
  <2> QED
    BY <2>1, <2>2 DEF TypeOK
<1>2. Slot(0, 0) = 0
  BY SlotOf
<1>3. RingConsistent
  BY <1>2 DEF RingConsistent
<1> QED
  BY <1>1, <1>3 DEF RingInv

\* A step that moves no index and keeps the types keeps the agreement.
LEMMA StillRing ==
  ASSUME RingInv, UNCHANGED <<slots, head, tail, count>>
  PROVE  RingConsistent'
BY DEF RingInv, RingConsistent

LEMMA NextRing == RingInv /\ [Next]_vars => RingInv'
<1> SUFFICES ASSUME RingInv, [Next]_vars PROVE RingInv'
  OBVIOUS
<1> USE SizeAssumption DEF RingInv, TypeOK, ring, Goto, Control
<1>1. ASSUME NEW e \in Events, PushAccept(e) PROVE RingInv'
  <2>1. /\ tail' = Slot(tail, 1) /\ tail' \in Index
        /\ head' = head /\ count' = count + 1 /\ count' \in 0 .. Size
    BY <1>1, SlotOf DEF PushAccept, Advance
  <2>2. TypeOK'
    BY <1>1, <2>1 DEF PushAccept, Signal, Waiting
  <2>3. Slot(Slot(head, count), 1) = Slot(head, count')
    BY <1>1, SlotStep DEF PushAccept
  <2> QED
    BY <2>1, <2>2, <2>3 DEF RingConsistent
<1>2. CASE PushDrop
  BY <1>2, StillRing DEF PushDrop
<1>3. ASSUME NEW c \in Consumers, Take(c) PROVE RingInv'
  <2>1. /\ head' = Slot(head, 1) /\ head' \in Index
        /\ count' = count - 1 /\ count' \in 0 .. Size /\ tail' = tail
    BY <1>3, SlotOf DEF Take, Advance
  <2>2. TypeOK'
    BY <1>3, <2>1 DEF Take
  <2>3. Slot(Slot(head, 1), count') = Slot(head, count)
    <3>1. count - 1 \in 0 .. Size - 1 /\ (count - 1) + 1 = count
      BY <1>3 DEF Take
    <3> QED
      BY <2>1, <3>1, SlotStep
  <2> QED
    BY <2>1, <2>2, <2>3 DEF RingConsistent
<1>4. ASSUME NEW c \in Consumers, LoopTest(c) \/ Handle(c) PROVE RingInv'
  BY <1>4, StillRing DEF LoopTest, Handle
<1>5. ASSUME NEW c \in Consumers, Acquire(c) \/ Park(c) \/ Wait(c) \/ Spurious(c)
      PROVE  RingInv'
  BY <1>5, StillRing DEF Acquire, Park, Wait, Spurious
<1>6. ASSUME NEW c \in Consumers, Expire(c) \/ GiveUp(c) \/ ReturnEmpty(c)
      PROVE  RingInv'
  BY <1>6, StillRing DEF Expire, GiveUp, ReturnEmpty
<1>7. CASE Stop \/ Broadcast
  BY <1>7, StillRing DEF Stop, Broadcast
<1>8. CASE UNCHANGED vars
  BY <1>8, StillRing DEF vars
<1> QED
  BY <1>1, <1>2, <1>3, <1>4, <1>5, <1>6, <1>7, <1>8 DEF Next, Push, Consumer

\* The indices stay in the ring and agree with the count: event_queue_push and
\* event_queue_pop never touch a slot outside g_event_queue, and never count
\* more events than there are slots between head and tail.
THEOREM RingSafe == Spec => []RingInv
<1>1. RingInv /\ [Next]_vars => RingInv'
  BY NextRing
<1> QED
  BY InitRing, <1>1, PTL DEF Spec

\* The slots, the indices, the mutex and the waiters of event_loop.c keep their types.
THEOREM TypeCorrect == Spec => []TypeOK
<1>1. RingInv => TypeOK
  BY DEF RingInv
<1> QED
  BY <1>1, RingSafe, PTL

\* tail is count slots after head, around the ring: event_queue_push and event_queue_pop
\* move them together.
THEOREM IndicesAgree == Spec => []RingConsistent
<1>1. RingInv => RingConsistent
  BY DEF RingInv
<1> QED
  BY <1>1, RingSafe, PTL

----------------------------------------------------------------------------
(* The ring implements the bounded FIFO.                                    *)

Held == Events \cup {NoEvent}

\* No two of the places 0 .. Size - 1 after a slot are the same slot.
LEMMA SlotApart ==
  ASSUME NEW i \in Index, NEW j \in 0 .. Size - 1, NEW k \in 0 .. Size - 1,
         Slot(i, j) = Slot(i, k)
  PROVE  j = k
<1> USE SizeAssumption
<1>1. /\ i + j < Size => Slot(i, j) = i + j
      /\ i + j >= Size => Slot(i, j) = i + j - Size
  BY SlotOf
<1>2. /\ i + k < Size => Slot(i, k) = i + k
      /\ i + k >= Size => Slot(i, k) = i + k - Size
  BY SlotOf
<1> QED
  BY <1>1, <1>2 DEF Index

\* What the callers see is a sequence of count events.
QueuedOK ==
  /\ Queued \in Seq(Held)
  /\ Len(Queued) = count
  /\ \A i \in 1 .. count : Queued[i] = slots[Slot(head, i - 1)]

LEMMA QueuedSeq == TypeOK => QueuedOK
<1> SUFFICES ASSUME TypeOK PROVE QueuedOK
  OBVIOUS
<1>1. count \in Nat /\ head \in Index
  BY SizeAssumption DEF TypeOK
<1>2. ASSUME NEW i \in 1 .. count PROVE slots[Slot(head, i - 1)] \in Held
  <2>1. i - 1 \in 0 .. Size
    BY SizeAssumption DEF TypeOK
  <2> QED
    BY <1>1, <2>1, SlotOf DEF TypeOK, Held
<1>3. Queued \in [1 .. count -> Held]
  BY <1>2 DEF Queued
<1> QED
  BY <1>1, <1>3 DEF Queued, QueuedOK

LEMMA QueuedSeqNext == TypeOK' => QueuedOK'
BY QueuedSeq, PTL

\* An accepted push is a Put.
LEMMA PushIsPut ==
  ASSUME RingInv, RingInv', NEW e \in Events, PushAccept(e)
  PROVE  Fifo!Put(e)
<1> USE SizeAssumption DEF RingInv
<1>1. /\ count \in 0 .. Size /\ count < Size /\ count' = count + 1
      /\ head \in Index /\ head' = head
      /\ slots \in [Index -> Held] /\ slots' = [slots EXCEPT ![tail] = e]
      /\ tail = Slot(head, count) /\ tail \in Index
  BY DEF TypeOK, RingConsistent, PushAccept, Held
<1>2. /\ Queued \in Seq(Held) /\ Len(Queued) = count
      /\ \A i \in 1 .. count : Queued[i] = slots[Slot(head, i - 1)]
  BY QueuedSeq DEF QueuedOK
<1>3. /\ Queued' \in Seq(Held) /\ Len(Queued') = count + 1
      /\ \A i \in 1 .. count + 1 : Queued'[i] = slots'[Slot(head, i - 1)]
  <2>1. /\ Queued' \in Seq(Held) /\ Len(Queued') = count'
        /\ \A i \in 1 .. count' : Queued'[i] = slots'[Slot(head', i - 1)]
    BY QueuedSeqNext DEF QueuedOK
  <2> QED
    BY <1>1, <2>1
<1>4. ASSUME NEW i \in 1 .. count + 1
      PROVE  Queued'[i] = Append(Queued, e)[i]
  <2>1. CASE i = count + 1
    <3>1. Slot(head, i - 1) = tail
      BY <1>1, <2>1
    <3>2. Queued'[i] = e
      BY <1>1, <1>3, <3>1
    <3> QED
      BY <1>1, <1>2, <2>1, <3>2
  <2>2. CASE i # count + 1
    <3>1. i \in 1 .. count /\ i - 1 \in 0 .. Size - 1 /\ i - 1 # count
      BY <1>1, <2>2
    <3>2. Slot(head, i - 1) # tail /\ Slot(head, i - 1) \in Index
      BY <1>1, <3>1, SlotApart, SlotOf
    <3>3. Queued'[i] = Queued[i]
      BY <1>1, <1>2, <1>3, <3>1, <3>2
    <3> QED
      BY <1>1, <1>2, <3>1, <3>3
  <2> QED
    BY <2>1, <2>2
<1>5. /\ Append(Queued, e) \in Seq(Held)
      /\ Len(Append(Queued, e)) = count + 1
  BY <1>1, <1>2 DEF Held
<1>6. Queued' = Append(Queued, e)
  BY <1>3, <1>4, <1>5, SeqEqual
<1> QED
  BY <1>1, <1>2, <1>6 DEF Fifo!Put, PushAccept

\* A pop that returns an event is a Get.
LEMMA TakeIsGet ==
  ASSUME RingInv, RingInv', NEW c \in Consumers, Take(c)
  PROVE  Fifo!Get(c)
<1> USE SizeAssumption DEF RingInv
<1>1. /\ count \in 1 .. Size /\ count' = count - 1
      /\ head \in Index /\ head' = Slot(head, 1)
      /\ slots' = slots
      /\ got' = [got EXCEPT ![c] = slots[head]]
  BY DEF TypeOK, Take, Advance
<1>2. /\ Queued \in Seq(Held) /\ Len(Queued) = count
      /\ \A i \in 1 .. count : Queued[i] = slots[Slot(head, i - 1)]
  BY QueuedSeq DEF QueuedOK
<1>3. /\ Queued' \in Seq(Held) /\ Len(Queued') = count - 1
      /\ \A i \in 1 .. count - 1 : Queued'[i] = slots[Slot(Slot(head, 1), i - 1)]
  <2>1. /\ Queued' \in Seq(Held) /\ Len(Queued') = count'
        /\ \A i \in 1 .. count' : Queued'[i] = slots'[Slot(head', i - 1)]
    BY QueuedSeqNext DEF QueuedOK
  <2> QED
    BY <1>1, <2>1
<1>4. Queued # << >> /\ Head(Queued) = slots[head]
  <2>1. Slot(head, 0) = head
    BY <1>1, SlotOf DEF Index
  <2> QED
    BY <1>1, <1>2, <2>1
<1>5. /\ Tail(Queued) \in Seq(Held)
      /\ Len(Tail(Queued)) = count - 1
      /\ \A i \in 1 .. count - 1 : Tail(Queued)[i] = Queued[i + 1]
  BY <1>1, <1>2, <1>4, HeadTailProperties
<1>6. ASSUME NEW i \in 1 .. count - 1
      PROVE  Queued'[i] = Tail(Queued)[i]
  <2>1. i - 1 \in 0 .. Size - 1 /\ i \in 0 .. Size /\ i + 1 \in 1 .. count
    BY <1>1
  <2>2. Slot(Slot(head, 1), i - 1) = Slot(head, (i - 1) + 1)
    BY <1>1, <2>1, SlotStep
  <2>3. (i - 1) + 1 = i /\ (i + 1) - 1 = i
    OBVIOUS
  <2>4. Queued'[i] = slots[Slot(head, i)]
    BY <1>3, <2>2, <2>3
  <2>5. Tail(Queued)[i] = slots[Slot(head, (i + 1) - 1)]
    BY <1>2, <1>5, <2>1
  <2> QED
    BY <2>3, <2>4, <2>5
<1>7. Queued' = Tail(Queued)
  BY <1>3, <1>5, <1>6, SeqEqual
<1> QED
  BY <1>1, <1>4, <1>7 DEF Fifo!Get, Take

\* A step that touches neither the ring nor a result is a stutter.
LEMMA StillFifo ==
  ASSUME UNCHANGED <<slots, head, count, got, accepted>>
  PROVE  UNCHANGED Fifo!vars
BY DEF Fifo!vars, Queued

\* The ring, its two indices and its count implement the bounded FIFO that
\* the callers of event_queue_push and event_queue_pop rely on.
THEOREM RingIsFifo == Spec => FifoSpec
<1>1. Init => Fifo!Init
  <2> SUFFICES ASSUME Init PROVE Fifo!Init
    OBVIOUS
  <2>1. RingInv
    BY InitRing
  <2>2. Queued \in Seq(Held) /\ Len(Queued) = 0
    BY <2>1, QueuedSeq DEF RingInv, Init, QueuedOK
  <2> QED
    BY <2>2 DEF Init, Fifo!Init
<1>2. RingInv /\ RingInv' /\ [Next]_vars => [Fifo!Next]_(Fifo!vars)
  <2> SUFFICES ASSUME RingInv, RingInv', [Next]_vars
               PROVE  Fifo!Next \/ UNCHANGED Fifo!vars
    OBVIOUS
  <2> USE DEF ring
  <2>1. ASSUME NEW e \in Events, PushAccept(e) PROVE Fifo!Next
    BY <2>1, PushIsPut DEF Fifo!Next
  <2>2. CASE PushDrop
    <3>1. count = Size
      BY <2>2, SizeAssumption DEF PushDrop, RingInv, TypeOK
    <3>2. Len(Queued) = count
      BY QueuedSeq DEF RingInv, QueuedOK
    <3> QED
      BY <2>2, <3>1, <3>2 DEF PushDrop, Fifo!Refuse, Fifo!Next, Queued
  <2>3. ASSUME NEW c \in Consumers, Take(c) PROVE Fifo!Next
    BY <2>3, TakeIsGet DEF Fifo!Next
  <2>4. ASSUME NEW c \in Consumers, Consumer(c) \/ Spurious(c), ~Take(c)
        PROVE  UNCHANGED Fifo!vars
    BY <2>4, StillFifo DEF Consumer, LoopTest, Handle, Acquire, Park, Wait,
         Spurious, Expire, GiveUp, ReturnEmpty
  <2>5. CASE Stop \/ Broadcast \/ UNCHANGED vars
    BY <2>5, StillFifo DEF Stop, Broadcast, vars
  <2> QED
    BY <2>1, <2>2, <2>3, <2>4, <2>5 DEF Next, Push
<1> QED
  BY <1>1, <1>2, RingSafe, PTL DEF Spec, FifoSpec, Fifo!Spec

----------------------------------------------------------------------------
(* Lifecycle.  Its inductive invariant says what commands may know of the  *)
(* daemon that lives, and of each other, while none has raced.             *)

Starting(d) == daemon[d] \in {"init", "bind", "bound"}
Meddles(c) == place[c] \in {"fork", "connect", "asked", "kill", "poll"}

OneLives == \A d, e \in Clients : Alive(d) /\ Alive(e) => d = e

\* A client forks once, and its daemon is in no pid file, and told nothing, before it runs.
ForksOnce ==
  \A c \in Clients :
    /\ daemon[c] # "none" => place[c] \in {"save", "interrupted", "poll", "done"}
    /\ daemon[c] \in {"none", "init", "bind", "bound"} => pidFile # c /\ ~told[c]

\* Who is about to fork a daemon sees none, and nobody who forks or stops one.
ForksAlone ==
  \A c \in Clients : place[c] = "fork" =>
    /\ \A d \in Clients : ~Alive(d)
    /\ \A b \in Clients \ {c} : ~Meddles(b)

\* While a daemon starts nobody forks or stops one; the socket is gone until the daemon
\* has bound it.
StartsAlone ==
  \A d \in Clients : Starting(d) =>
    /\ \A c \in Clients : ~Meddles(c)
    /\ daemon[d] = "bind" => sockFile = Nobody
    /\ daemon[d] = "bound" => sockFile = d

\* The files are a daemon's own until it is told to stop.
OwnsFiles ==
  \A d \in Clients : daemon[d] = "running" /\ ~told[d] => pidFile = d /\ sockFile = d

\* Who is stopping a daemon stops the one that lives.
Knows ==
  \A c, d \in Clients : Alive(d) =>
    /\ place[c] \in {"connect", "asked", "kill"} => target[c] = d
    /\ place[c] = "poll" => told[d]

Unraced == OneLives /\ ForksOnce /\ ForksAlone /\ StartsAlone /\ OwnsFiles /\ Knows

\* Who has found a daemon to stop knows its name.
Found ==
  \A c \in Clients : place[c] \in {"connect", "asked", "kill"} => target[c] \in Clients

----------------------------------------------------------------------------
(* Types *)

LEMMA LifeInitTypes == LifeInit => LifeTypeOK
<1> SUFFICES ASSUME LifeInit  PROVE LifeTypeOK
  OBVIOUS
<1>1. file \in Books /\ changes \in 0 .. MaxBook /\ crashes \in 0 .. MaxCrash /\ 0 \in Books
  BY BoundsAssumption DEF LifeInit, Books
<1>2. /\ writing \in [Processes -> {"no", "alone", "mixed"}]
      /\ command \in [Clients -> Commands]
      /\ told \in [Clients -> BOOLEAN]
      /\ stuck \in [Clients -> {"no", "listener", "ipc"}]
      /\ raced \in BOOLEAN
  BY DEF LifeInit, Commands
<1> QED
  BY <1>1, <1>2 DEF LifeInit, LifeTypeOK

\* A save changes the file and who writes it.
LEMMA SaveBeginTypes ==
  ASSUME LifeTypeOK, NEW p, SaveBegin(p)
  PROVE  file' \in Books /\ writing' \in [Processes -> {"no", "alone", "mixed"}]
BY DEF SaveBegin, LifeTypeOK, Books

LEMMA SaveEndTypes ==
  ASSUME LifeTypeOK, NEW p, NEW b \in Books, SaveEnd(p, b)
  PROVE  file' \in Books /\ writing' \in [Processes -> {"no", "alone", "mixed"}]
BY DEF SaveEnd, LifeTypeOK, Books

\* The variables a client changes keep their types.
LEMMA ClientTypes ==
  ASSUME NEW c \in Clients
  PROVE  LifeTypeOK /\ Found /\ (Load(c) \/ Interrupt(c) \/ ClientStep(c)) => LifeTypeOK'
<1> SUFFICES ASSUME LifeTypeOK, Found, Load(c) \/ Interrupt(c) \/ ClientStep(c)
             PROVE  LifeTypeOK'
  OBVIOUS
<1>1. CASE Load(c)
  BY <1>1 DEF Load, Go, Loaded, LifeTypeOK, files, server
<1>2. CASE Interrupt(c)
  BY <1>2 DEF Interrupt, Go, LifeTypeOK, files, server
<1>3. CASE Listen(c)
  BY <1>3 DEF Listen, Go, LifeTypeOK, files, server
<1>4. CASE StartCheck(c)
  BY <1>4 DEF StartCheck, Go, LifeTypeOK, server
<1>5. CASE Fork(c)
  BY <1>5 DEF Fork, Go, Become, LifeTypeOK, files
<1>6. CASE StopCommand(c)
  BY <1>6 DEF StopCommand, Go, IsRunning, LifeTypeOK, files, server
<1>7. CASE Connect(c)
  BY <1>7 DEF Connect, Go, LifeTypeOK, files, server
<1>8. CASE StopAnswered(c)
  BY <1>8 DEF StopAnswered, Go, LifeTypeOK, files
<1>9. CASE StopUnanswered(c)
  BY <1>9 DEF StopUnanswered, Go, LifeTypeOK, files, server
<1>10. CASE Kill(c)
  <2>1. target[c] \in Clients
    BY <1>10 DEF Kill, Found
  <2>2. told' \in [Clients -> BOOLEAN]
    <3>1. (told[target[c]] \/ Alive(target[c])) \in BOOLEAN
      OBVIOUS
    <3> QED
      BY <1>10, <3>1 DEF Kill, LifeTypeOK
  <2> QED
    BY <1>10, <2>2 DEF Kill, Go, LifeTypeOK
<1>11. CASE Other(c)
  BY <1>11 DEF Other, Go, LifeTypeOK, files, server
<1>12. CASE ClientSave(c)
  <2>1. CASE SaveBegin(<<c, "client">>) /\ UNCHANGED place
    BY <1>12, <2>1, SaveBeginTypes DEF ClientSave, LifeTypeOK, files, server
  <2>2. CASE SaveEnd(<<c, "client">>, book[c]) /\ Go(c, "done")
    <3>1. file' \in Books /\ writing' \in [Processes -> {"no", "alone", "mixed"}]
      BY <2>2, SaveEndTypes DEF LifeTypeOK
    <3> QED
      BY <1>12, <2>2, <3>1 DEF ClientSave, Go, LifeTypeOK, files, server
  <2> QED
    BY <1>12, <2>1, <2>2 DEF ClientSave
<1>13. CASE InterruptStops(c)
  BY <1>13 DEF InterruptStops, Go, IsRunning, LifeTypeOK
<1>14. CASE InterruptEnds(c)
  BY <1>14 DEF InterruptEnds, Go, LifeTypeOK, server
<1> QED
  BY <1>1, <1>2, <1>3, <1>4, <1>5, <1>6, <1>7, <1>8, <1>9, <1>10, <1>11, <1>12, <1>13, <1>14
     DEF ClientStep

\* What a daemon does, or has done to it.
DaemonDoes(d) == DaemonStep(d) \/ Change(d) \/ Crash(d) \/ LockOut(d) \/ BlockIpc(d)

\* The variables a daemon changes keep their types.
LEMMA DaemonTypes ==
  ASSUME NEW d \in Clients
  PROVE  LifeTypeOK /\ DaemonDoes(d) => LifeTypeOK'
<1> SUFFICES ASSUME LifeTypeOK, DaemonDoes(d)
             PROVE  LifeTypeOK'
  OBVIOUS
<1>1. CASE UnlinkSocket(d)
  BY <1>1 DEF UnlinkSocket, Become, LifeTypeOK, client
<1>2. CASE BindSocket(d)
  BY <1>2 DEF BindSocket, Become, LifeTypeOK, client
<1>3. CASE WritePid(d)
  BY <1>3 DEF WritePid, Become, LifeTypeOK, client
<1>4. CASE EventSave(d)
  BY <1>4, SMTT(20) DEF EventSave, SaveBegin, SaveEnd, LifeTypeOK, Processes, Books, files,
                     client, server
<1>5. CASE Close(d)
  BY <1>5 DEF Close, Become, LifeTypeOK, files, client
<1>6. CASE LastSave(d)
  BY <1>6, SMTT(20) DEF LastSave, SaveBegin, SaveEnd, Become, LifeTypeOK, Processes,
                     Books, files, client
<1>7. CASE RemoveFiles(d)
  BY <1>7 DEF RemoveFiles, Become, LifeTypeOK, client
<1>8. CASE Change(d)
  BY <1>8, BoundsAssumption DEF Change, LifeTypeOK, Books, files, client
<1>9. CASE Crash(d)
  BY <1>9, BoundsAssumption DEF Crash, Become, LifeTypeOK, Processes, files, client
<1>10. CASE LockOut(d) \/ BlockIpc(d)
  BY <1>10 DEF LockOut, BlockIpc, LifeTypeOK, files, client
<1> QED
  BY <1>1, <1>2, <1>3, <1>4, <1>5, <1>6, <1>7, <1>8, <1>9, <1>10 DEF DaemonStep, DaemonDoes

LEMMA InitFound == LifeInit => Found
BY DEF LifeInit, Found

\* Whom a command wants to stop it read in a file of a process that lives.
LEMMA StepFound == LifeTypeOK /\ Found /\ LifeNext => Found'
<1> SUFFICES ASSUME LifeTypeOK, Found, NEW c \in Clients,
                    \/ Load(c) \/ Interrupt(c) \/ ClientStep(c)
                    \/ DaemonDoes(c)
             PROVE  Found'
  BY DEF LifeNext, DaemonDoes
<1> USE DEF Found, LifeTypeOK, Go, Become
<1>1. CASE DaemonStep(c)
  BY <1>1 DEF DaemonStep, UnlinkSocket, BindSocket, WritePid, EventSave, Close, LastSave,
       RemoveFiles, client
<1>2. CASE Load(c) \/ Interrupt(c) \/ Change(c) \/ Crash(c) \/ LockOut(c) \/ BlockIpc(c)
  BY <1>2 DEF Load, Interrupt, Change, Crash, LockOut, BlockIpc, client
<1>3. CASE StopCommand(c)
  BY <1>3 DEF StopCommand, IsRunning
<1>4. CASE Connect(c)
  BY <1>4 DEF Connect
<1>5. CASE StopAnswered(c) \/ StopUnanswered(c) \/ Kill(c)
  BY <1>5 DEF StopAnswered, StopUnanswered, Kill
<1>6. CASE Listen(c) \/ StartCheck(c) \/ Fork(c) \/ Other(c)
  BY <1>6 DEF Listen, StartCheck, Fork, Other
<1>7. CASE ClientSave(c)
  BY <1>7 DEF ClientSave
<1>8. CASE InterruptStops(c) \/ InterruptEnds(c)
  BY <1>8 DEF InterruptStops, InterruptEnds, IsRunning
<1> QED
  BY <1>1, <1>2, <1>3, <1>4, <1>5, <1>6, <1>7, <1>8 DEF ClientStep, DaemonDoes

\* Every variable keeps its type, however the commands race.
THEOREM LifeTypeCorrect == LifeSpec => []LifeTypeOK
<1> DEFINE Typed == LifeTypeOK /\ Found
<1>1. LifeInit => Typed
  BY LifeInitTypes, InitFound
<1>2. Typed /\ [LifeNext]_lifeVars => Typed'
  <2>1. Typed /\ UNCHANGED lifeVars => Typed'
    BY DEF lifeVars, files, client, server, LifeTypeOK, Found
  <2>2. Typed /\ LifeNext => Typed'
    BY ClientTypes, DaemonTypes, StepFound DEF LifeNext, DaemonDoes
  <2> QED
    BY <2>1, <2>2
<1> QED
  BY <1>1, <1>2, PTL DEF LifeSpec

----------------------------------------------------------------------------
(* The invariant *)

LifeInv == LifeTypeOK /\ Found /\ (~raced => Unraced)

\* A step of a command keeps the invariant: one that forks has seen nobody start or stop a
\* daemon, and one that stops a daemon stops the only one.
LEMMA ClientUnraced ==
  ASSUME NEW c \in Clients
  PROVE  LifeInv /\ ~raced' /\ (Load(c) \/ Interrupt(c) \/ ClientStep(c)) => Unraced'
<1> SUFFICES ASSUME LifeInv, ~raced', Load(c) \/ Interrupt(c) \/ ClientStep(c)
             PROVE  Unraced'
  OBVIOUS
<1>0. ~raced
  BY DEF LifeInv, LifeTypeOK, ClientStep, Load, Interrupt, Listen, StartCheck, Fork, StopCommand,
       Connect, StopAnswered, StopUnanswered, Kill, Other, ClientSave, InterruptStops, InterruptEnds
<1> USE <1>0, NobodyAssumption DEF LifeInv, Unraced, LifeTypeOK, OneLives, ForksOnce, ForksAlone,
          Found, StartsAlone, OwnsFiles, Knows, Meddles, Alive, Starting, Go, Become
<1>1. CASE Load(c)
  <2>1. OneLives' /\ ForksOnce' /\ ForksAlone'
    BY <1>1 DEF Load, files, server
  <2>2. StartsAlone' /\ OwnsFiles'
    BY <1>1 DEF Load, files, server
  <2>3. Knows'
    BY <1>1 DEF Load, files, server
  <2> QED
    BY <2>1, <2>2, <2>3
<1>2. CASE Interrupt(c)
  <2>1. OneLives' /\ ForksOnce' /\ ForksAlone'
    BY <1>2 DEF Interrupt, files, server
  <2>2. StartsAlone' /\ OwnsFiles'
    BY <1>2 DEF Interrupt, files, server
  <2>3. Knows'
    BY <1>2 DEF Interrupt, files, server
  <2> QED
    BY <2>1, <2>2, <2>3
<1>3. CASE Listen(c)
  <2>1. OneLives' /\ ForksOnce' /\ ForksAlone'
    BY <1>3 DEF Listen, IsRunning, files, server
  <2>2. StartsAlone' /\ OwnsFiles'
    BY <1>3 DEF Listen, IsRunning, files, server
  <2>3. Knows'
    BY <1>3 DEF Listen, IsRunning, files, server
  <2> QED
    BY <2>1, <2>2, <2>3
<1>4. CASE StartCheck(c)
  \* A daemon that lives and is not found is on its way up or down, which is a race.
  <2>1. ~IsRunning => ~Racing(c)
    BY <1>4 DEF StartCheck
  <2>2. ~IsRunning => \A d \in Clients : ~Alive(d)
    BY <2>1 DEF Racing, IsRunning
  <2>3. ~IsRunning => \A b \in Clients \ {c} : ~Meddles(b)
    BY <2>1 DEF Racing
  <2>4. OneLives' /\ ForksOnce'
    BY <1>4, <2>2 DEF StartCheck, IsRunning, server
  <2>5. ForksAlone'
    BY <1>4, <2>2, <2>3 DEF StartCheck, server
  <2>6. StartsAlone' /\ OwnsFiles' /\ Knows'
    BY <1>4, <2>2 DEF StartCheck, server
  <2> QED
    BY <2>4, <2>5, <2>6
<1>5. CASE Fork(c)
  <2>1. OneLives' /\ ForksOnce' /\ ForksAlone'
    BY <1>5 DEF Fork, files
  <2>2. StartsAlone' /\ OwnsFiles'
    BY <1>5 DEF Fork, files
  <2>3. Knows'
    BY <1>5 DEF Fork, files
  <2> QED
    BY <2>1, <2>2, <2>3
<1>6. CASE StopCommand(c)
  <2>1. OneLives' /\ ForksOnce' /\ ForksAlone'
    BY <1>6 DEF StopCommand, IsRunning, files, server
  <2>2. StartsAlone' /\ OwnsFiles'
    BY <1>6 DEF StopCommand, IsRunning, files, server
  <2>3. Knows'
    BY <1>6 DEF StopCommand, IsRunning, files, server
  <2> QED
    BY <2>1, <2>2, <2>3
<1>7. CASE Connect(c)
  <2>1. OneLives' /\ ForksOnce' /\ ForksAlone'
    BY <1>7 DEF Connect, files, server
  <2>2. StartsAlone' /\ OwnsFiles'
    BY <1>7 DEF Connect, files, server
  <2>3. Knows'
    BY <1>7 DEF Connect, files, server
  <2> QED
    BY <2>1, <2>2, <2>3
<1>8. CASE StopAnswered(c)
  <2>1. OneLives' /\ ForksOnce' /\ ForksAlone'
    BY <1>8 DEF StopAnswered, files
  <2>2. StartsAlone' /\ OwnsFiles'
    BY <1>8 DEF StopAnswered, files
  <2>3. Knows'
    BY <1>8 DEF StopAnswered, files
  <2> QED
    BY <2>1, <2>2, <2>3
<1>9. CASE StopUnanswered(c)
  <2>1. OneLives' /\ ForksOnce' /\ ForksAlone'
    BY <1>9 DEF StopUnanswered, files, server
  <2>2. StartsAlone' /\ OwnsFiles'
    BY <1>9 DEF StopUnanswered, files, server
  <2>3. Knows'
    BY <1>9 DEF StopUnanswered, files, server
  <2> QED
    BY <2>1, <2>2, <2>3
<1>10. CASE Kill(c)
  \* The daemon that lives, if one does, is the one that is told.
  <2> DEFINE tells == told[target[c]] \/ Alive(target[c])
  <2> HIDE DEF tells
  <2>1. told' = [told EXCEPT ![target[c]] = tells]
    BY <1>10 DEF Kill, tells
  <2>2. tells \in BOOLEAN
    BY DEF tells
  <2>3. \A d \in Clients : Alive(d) => target[c] = d /\ tells = TRUE
    BY <1>10 DEF Kill, tells
  <2>4. daemon[target[c]] = "none" => tells = told[target[c]]
    BY <1>10 DEF Kill, tells
  <2>5. OneLives' /\ ForksAlone'
    BY <1>10 DEF Kill
  <2>6. ForksOnce'
    BY <1>10, <2>1, <2>2, <2>4 DEF Kill
  <2>7. StartsAlone' /\ OwnsFiles' /\ Knows'
    BY <1>10, <2>1, <2>2, <2>3 DEF Kill
  <2> QED
    BY <2>5, <2>6, <2>7
<1>11. CASE Other(c)
  <2>1. OneLives' /\ ForksOnce' /\ ForksAlone'
    BY <1>11 DEF Other, files, server
  <2>2. StartsAlone' /\ OwnsFiles'
    BY <1>11 DEF Other, files, server
  <2>3. Knows'
    BY <1>11 DEF Other, files, server
  <2> QED
    BY <2>1, <2>2, <2>3
<1>12. CASE ClientSave(c)
  <2>1. OneLives' /\ ForksOnce' /\ ForksAlone'
    BY <1>12 DEF ClientSave, SaveBegin, SaveEnd, files, server
  <2>2. StartsAlone' /\ OwnsFiles'
    BY <1>12 DEF ClientSave, SaveBegin, SaveEnd, files, server
  <2>3. Knows'
    BY <1>12 DEF ClientSave, SaveBegin, SaveEnd, files, server
  <2> QED
    BY <2>1, <2>2, <2>3
<1>13. CASE InterruptStops(c)
  <2>1. CASE IsRunning
    <3>1. OneLives' /\ ForksOnce'
      BY <1>13, <2>1, SMTT(20) DEF InterruptStops, IsRunning
    <3>2. ForksAlone' /\ StartsAlone'
      BY <1>13, <2>1, SMTT(20) DEF InterruptStops, IsRunning
    <3>3. OwnsFiles' /\ Knows'
      BY <1>13, <2>1, SMTT(20) DEF InterruptStops, IsRunning
    <3> QED
      BY <3>1, <3>2, <3>3
  <2>2. CASE ~IsRunning
    BY <1>13, <2>2, SMTT(20) DEF InterruptStops, IsRunning
  <2> QED
    BY <2>1, <2>2
<1>14. CASE InterruptEnds(c)
  <2>1. OneLives' /\ ForksOnce' /\ ForksAlone'
    BY <1>14 DEF InterruptEnds, server
  <2>2. StartsAlone' /\ OwnsFiles'
    BY <1>14 DEF InterruptEnds, server
  <2>3. Knows'
    BY <1>14 DEF InterruptEnds, server
  <2> QED
    BY <2>1, <2>2, <2>3
<1> QED
  BY <1>1, <1>2, <1>3, <1>4, <1>5, <1>6, <1>7, <1>8, <1>9, <1>10, <1>11, <1>12, <1>13, <1>14
     DEF ClientStep

\* A step of a daemon keeps the invariant: nobody else binds or removes its files before
\* it is told to stop.
LEMMA DaemonUnraced ==
  ASSUME NEW d \in Clients
  PROVE  LifeInv /\ ~raced' /\ DaemonDoes(d) => Unraced'
<1> SUFFICES ASSUME LifeInv, ~raced', DaemonDoes(d)
             PROVE  Unraced'
  OBVIOUS
<1>0. ~raced
  BY DEF DaemonDoes, DaemonStep, UnlinkSocket, BindSocket, WritePid, EventSave, Close, LastSave,
       RemoveFiles, Change, Crash, LockOut, BlockIpc
<1> USE <1>0, NobodyAssumption DEF LifeInv, Unraced, LifeTypeOK, OneLives, ForksOnce, ForksAlone,
          Found, StartsAlone, OwnsFiles, Knows, Meddles, Alive, Starting, Go, Become
<1>1. CASE UnlinkSocket(d)
  BY <1>1 DEF UnlinkSocket, client
<1>2. CASE BindSocket(d)
  BY <1>2 DEF BindSocket, client
<1>3. CASE WritePid(d)
  BY <1>3 DEF WritePid, client
<1>4. CASE Change(d)
  BY <1>4 DEF Change, files, client
<1>5. CASE EventSave(d)
  <2>1. OneLives' /\ ForksOnce' /\ ForksAlone'
    BY <1>5 DEF EventSave, SaveBegin, SaveEnd, files, client, server
  <2>2. StartsAlone' /\ OwnsFiles'
    BY <1>5 DEF EventSave, SaveBegin, SaveEnd, files, client, server
  <2>3. Knows'
    BY <1>5 DEF EventSave, SaveBegin, SaveEnd, files, client, server
  <2> QED
    BY <2>1, <2>2, <2>3
<1>6. CASE Close(d)
  BY <1>6 DEF Close, files, client
<1>7. CASE LastSave(d)
  BY <1>7 DEF LastSave, SaveBegin, SaveEnd, files, client
<1>8. CASE RemoveFiles(d)
  BY <1>8 DEF RemoveFiles, client
<1>9. CASE Crash(d)
  BY <1>9 DEF Crash, files, client
<1>10. CASE LockOut(d) \/ BlockIpc(d)
  BY <1>10 DEF LockOut, BlockIpc, files, client
<1> QED
  BY <1>1, <1>2, <1>3, <1>4, <1>5, <1>6, <1>7, <1>8, <1>9, <1>10 DEF DaemonStep, DaemonDoes

\* At first nothing runs.
LEMMA InitUnraced == LifeInit => Unraced
BY NobodyAssumption DEF LifeInit, Unraced, OneLives, ForksOnce, ForksAlone, StartsAlone, OwnsFiles,
     Knows, Meddles, Alive, Starting

\* The invariant is inductive.
LEMMA StepInv == LifeInv /\ [LifeNext]_lifeVars => LifeInv'
<1> SUFFICES ASSUME LifeInv, [LifeNext]_lifeVars  PROVE LifeInv'
  OBVIOUS
<1>1. CASE UNCHANGED lifeVars
  BY <1>1 DEF lifeVars, files, client, server, LifeInv, LifeTypeOK, Unraced, OneLives, ForksOnce,
       ForksAlone, Found, StartsAlone, OwnsFiles, Knows, Meddles, Alive, Starting
<1>2. CASE LifeNext
  <2>1. PICK c \in Clients : Load(c) \/ Interrupt(c) \/ ClientStep(c) \/ DaemonDoes(c)
    BY <1>2 DEF LifeNext, DaemonDoes
  <2> QED
    BY <1>2, <2>1, ClientTypes, DaemonTypes, StepFound, ClientUnraced, DaemonUnraced DEF LifeInv
<1> QED
  BY <1>1, <1>2

\* The invariant holds.
THEOREM UntilARace == LifeSpec => []LifeInv
<1>1. LifeInit => LifeInv
  BY LifeInitTypes, InitFound, InitUnraced DEF LifeInv
<1>2. LifeInv /\ [LifeNext]_lifeVars => LifeInv'
  BY StepInv
<1> QED
  BY <1>1, <1>2, PTL DEF LifeSpec

----------------------------------------------------------------------------
(* Theorems *)

\* There is one daemon, for any number of commands that overlap and any number of crashes,
\* until daemon_start forks one while another start or a stop is under way.
THEOREM OneUntilARace == LifeSpec => []OneUnlessRaced
<1>1. LifeInv => OneUnlessRaced
  <2> SUFFICES ASSUME LifeInv, ~raced  PROVE OneDaemon
    BY DEF OneUnlessRaced
  <2> DEFINE living == {d \in Clients : Alive(d)}
  <2>1. CASE living = {}
    BY <2>1, FS_EmptySet DEF OneDaemon
  <2>2. CASE living # {}
    <3>1. PICK d \in living : TRUE
      BY <2>2
    <3>2. living = {d}
      BY <3>1 DEF LifeInv, Unraced, OneLives
    <3> HIDE DEF living
    <3>3. Cardinality(living) = 1
      BY <3>2, FS_Singleton
    <3> QED
      BY <3>3 DEF OneDaemon, living
  <2> QED
    BY <2>1, <2>2
<1> QED
  BY <1>1, UntilARace, PTL

\* Until then, once nothing is starting or stopping, pid file and socket are those of the
\* daemon that runs: the next command finds it.
THEOREM ReachableUntilARace == LifeSpec => []ReachableUnlessRaced
<1>1. LifeInv => ReachableUnlessRaced
  BY DEF LifeInv, Unraced, OwnsFiles, ReachableUnlessRaced, Reachable, Quiet, Alive
<1> QED
  BY <1>1, UntilARace, PTL

----------------------------------------------------------------------------
(* DaemonFriends.  A thread holds a pointer only between the halves of a   *)
(* setter, and what it has still to do are calls with arguments of their   *)
(* types: so every step is one of the state manager, or leaves its state   *)
(* alone.                                                                  *)

\* The proofs about the state manager, with the daemon's threads for its callers.
Proved == INSTANCE StateManager_proofs

\* What StateManager assumes holds of the daemon's constants.
LEMMA TableAssumed ==
  SM!BoundsAssumption /\ SM!IdsAssumption /\ SM!PortsAssumption /\ SM!StatesAssumption
BY TableAssumption DEF SM!BoundsAssumption, SM!IdsAssumption, SM!PortsAssumption,
   SM!StatesAssumption, PeerStates

TableInv == SM!TypeOK /\ SM!UniqueIds /\ SM!OnlyRemovalInvalidates

\* The state manager of the model and that of the proofs are one.
LEMMA SameNext == SM!Next = Proved!Next
BY DEF SM!Next, Proved!Next, SM!Calls, Proved!Calls, SM!SetField, Proved!SetField,
   SM!AddPeer, Proved!AddPeer, SM!UpdatePeer, Proved!UpdatePeer, SM!RemovePeer,
   Proved!RemovePeer, SM!GetPeer, Proved!GetPeer, SM!AddGhostMessage,
   Proved!AddGhostMessage, SM!DeliverGhostMessages, Proved!DeliverGhostMessages,
   SM!table, Proved!table, SM!Known, Proved!Known, SM!SlotOf, Proved!SlotOf, SM!Live,
   Proved!Live, SM!Record, Proved!Record, SM!Compact, Proved!Compact, SM!Slots,
   Proved!Slots, SM!Waiting, Proved!Waiting, SM!WaitingIn, Proved!WaitingIn, SM!Write,
   Proved!Write, SM!Cardinality, Proved!Cardinality

\* So are their invariants, before and after a step.
LEMMA SameTypes == SM!TypeOK = Proved!TypeOK /\ SM!TypeOK' = Proved!TypeOK'
BY DEF SM!TypeOK, Proved!TypeOK, SM!Peer, Proved!Peer, SM!Slots, Proved!Slots,
   SM!GhostMessage, Proved!GhostMessage, SM!Pointer, Proved!Pointer, SM!Write, Proved!Write

LEMMA SameTable ==
  /\ SM!UniqueIds = Proved!UniqueIds /\ SM!UniqueIds' = Proved!UniqueIds'
  /\ SM!OnlyRemovalInvalidates = Proved!OnlyRemovalInvalidates
  /\ SM!OnlyRemovalInvalidates' = Proved!OnlyRemovalInvalidates'
BY DEF SM!UniqueIds, Proved!UniqueIds, SM!OnlyRemovalInvalidates,
   Proved!OnlyRemovalInvalidates, SM!Live, Proved!Live, SM!PointerGood, Proved!PointerGood

\* Each operation of the state manager keeps its invariant.
LEMMA TableStep == TableInv /\ [SM!Next]_state => TableInv'
<1>1. Proved!Inv /\ [Proved!Next]_(Proved!vars) => Proved!Inv'
  BY Proved!NextInv, TableAssumed
<1>2. TableInv = Proved!Inv /\ TableInv' = Proved!Inv'
  BY SameTypes, SameTable DEF TableInv, Proved!Inv
<1>3. Proved!vars = state /\ Proved!vars' = state'
  BY DEF Proved!vars, state
<1> QED
  BY <1>1, <1>2, <1>3, SameNext

\* What an operation looks up is a slot of the table.
LEMMA SlotFound ==
  ASSUME TableInv, NEW id, SM!Known(id)
  PROVE  SM!SlotOf(id) \in SM!Slots
<1>1. Proved!TypeOK /\ Proved!UniqueIds
  BY SameTypes, SameTable DEF TableInv
<1>2. Proved!Known(id)
  BY DEF SM!Known, Proved!Known, SM!Live, Proved!Live
<1>3. Proved!SlotOf(id) \in Proved!Live
  BY <1>1, <1>2, Proved!SearchFinds, TableAssumed
<1>4. Proved!Live \subseteq Proved!Slots
  BY <1>1, Proved!LiveSlots, TableAssumed
<1> QED
  BY <1>3, <1>4 DEF SM!SlotOf, Proved!SlotOf, SM!Live, Proved!Live, SM!Slots, Proved!Slots

\* The ghost messages that wait for a peer are finitely many.
LEMMA WaitingCounted ==
  ASSUME TableInv, NEW id
  PROVE  Cardinality(SM!Waiting(id)) \in Nat
<1>1. Proved!TypeOK
  BY SameTypes DEF TableInv
<1>2. Proved!Cardinality(Proved!Waiting(id)) \in Nat
  BY <1>1, Proved!WaitingFinite, TableAssumed
<1>3. Proved!Waiting(id) = SM!Waiting(id)
  BY DEF Proved!Waiting, SM!Waiting, Proved!WaitingIn, SM!WaitingIn
<1>4. \A S : Proved!Cardinality(S) = Cardinality(S)
  BY DEF Proved!Cardinality, Cardinality
<1> QED
  BY <1>2, <1>3, <1>4

----------------------------------------------------------------------------
(* The calls a thread has still to make *)

\* A thread holds a pointer only while it is between the halves of a setter.
SettersHold == \A t \in Threads : ptr[t] # NoPtr => At(t, "set")

FriendsInv == FriendsTypeOK /\ SM!UniqueIds /\ SM!OnlyRemovalInvalidates /\ SettersHold

\* What the state manager does not keep.
FriendsTypes ==
  /\ queue \in Seq(Event) /\ Len(queue) <= QueueSize
  /\ conn \in [Ids -> ConnState]
  /\ {p2pLock, stateLock, queueLock} \subseteq Threads \cup {"free"}
  /\ todo \in [Threads -> Seq(Call)]
  /\ inputs \in Inputs

\* A call has the arguments that are read of it.
LEMMA CallIs ==
  ASSUME NEW c \in Call
  PROVE  /\ c.id \in Ids \cup {NoId}
         /\ c.op = "update" => c.state \in PeerStates
         /\ c.op = "set" => c.write \in SM!Write
         /\ c.op = "push" => c.event \in Event
         /\ c.op \in {"add_check", "add_connect", "accept_check", "accept_connect", "reject_check"}
            => c.slot \in SM!Slots
BY DEF Call, Messages

\* The head of what a thread has to do is a call.
LEMMA HeadIs ==
  ASSUME FriendsTypes, NEW t \in Threads, NEW op, At(t, op)
  PROVE  Arg(t) \in Call /\ Arg(t).op = op /\ todo[t] # << >> /\ todo[t] \in Seq(Call)
BY DEF FriendsTypes, At, Arg

\* The calls the threads make of one another's results are calls.
LEMMA MakesCalls ==
  ASSUME NEW id \in Ids \cup {NoId}
  PROVE  /\ \A op \in {"remove", "state_add", "store_ghost", "deliver", "state_unlock",
                       "queue_unlock", "lock", "unlock", "find_peer", "connect", "dial",
                       "handshake", "accept_peer", "visit", "add", "add_again", "accept",
                       "reject", "search"} \cup Messages :
              Op(op, id) \in Call
         /\ \A s \in PeerStates : Update(id, s) \in Call
         /\ \A v \in BOOLEAN : Set(id, "online", v) \in Call
         /\ SetAddress(id) \in Seq(Call)
         /\ \A type \in {"ADD_REQUEST", "ACCEPT_CONFIRM", "REJECT_CONFIRM", "MESSAGE_RECEIVED",
                         "PEER_OFFLINE", "GHOST_DELIVERED"} :
              PushCall(type, id) \in Call
         /\ \A op \in {"add_check", "add_connect", "accept_check", "accept_connect",
                       "reject_check"}, slot \in SM!Slots : Read(op, id, slot) \in Call
<1>1. \A op \in {"remove", "state_add", "store_ghost", "deliver", "state_unlock",
                 "queue_unlock", "lock", "unlock", "find_peer", "connect", "dial",
                 "handshake", "accept_peer", "visit", "add", "add_again", "accept",
                 "reject", "search"} \cup Messages :
        Op(op, id) \in Call
  BY DEF Op, Call
<1>2. \A s \in PeerStates : Update(id, s) \in Call
  BY DEF Update, Call
<1>3. \A w \in SM!Write : [op |-> "set", id |-> id, write |-> w] \in Call
  BY DEF Call
<1>4. \A v \in BOOLEAN : Set(id, "online", v) \in Call
  BY <1>3 DEF Set, SM!Write
<1>5. Set(id, "ip", PeerIp) \in Call /\ Set(id, "port", PeerPort) \in Call
  <2>1. PeerIp \in Ips /\ PeerPort \in Ports
    BY TableAssumption DEF PeerIp, PeerPort
  <2>2. [field |-> "ip", value |-> PeerIp] \in SM!Write
        /\ [field |-> "port", value |-> PeerPort] \in SM!Write
    BY <2>1 DEF SM!Write
  <2> QED
    BY <1>3, <2>2 DEF Set
<1>6. SetAddress(id) \in Seq(Call)
  BY <1>5 DEF SetAddress
<1>7. \A type \in {"ADD_REQUEST", "ACCEPT_CONFIRM", "REJECT_CONFIRM", "MESSAGE_RECEIVED",
                   "PEER_OFFLINE", "GHOST_DELIVERED"} :
        PushCall(type, id) \in Call
  BY DEF PushCall, Event, Call
<1>8. \A op \in {"add_check", "add_connect", "accept_check", "accept_connect", "reject_check"},
         slot \in SM!Slots : Read(op, id, slot) \in Call
  BY DEF Read, Call
<1> QED
  BY <1>1, <1>2, <1>4, <1>6, <1>7, <1>8

\* Short lists of calls, and what is put before and behind a list, are lists of calls.
LEMMA ListsAre ==
  ASSUME NEW S, NEW a \in S, NEW b \in S, NEW c \in S, NEW d \in S, NEW q \in Seq(S)
  PROVE  /\ <<a>> \in Seq(S) /\ <<a, b>> \in Seq(S) /\ <<a, b, c>> \in Seq(S)
         /\ <<a>> \o q \in Seq(S) /\ q \o <<a>> \in Seq(S) /\ <<a, b>> \o q \in Seq(S)
         /\ <<a>> \o q \o <<b>> \in Seq(S)
         /\ <<a, b>> \o q \o <<c>> \in Seq(S)
         /\ <<a, b>> \o q \o <<c, d>> \in Seq(S)
<1>1. <<a>> \in Seq(S) /\ <<b>> \in Seq(S) /\ <<c>> \in Seq(S) /\ <<a, b>> \in Seq(S)
      /\ <<c, d>> \in Seq(S) /\ <<a, b, c>> \in Seq(S)
  OBVIOUS
<1>2. \A p, r \in Seq(S) : p \o r \in Seq(S)
  OBVIOUS
<1>3. <<a>> \o q \in Seq(S) /\ q \o <<a>> \in Seq(S) /\ <<a, b>> \o q \in Seq(S)
  BY <1>1, <1>2
<1> QED
  BY <1>1, <1>2, <1>3

\* An input that is counted stays within its bound.
LEMMA Counted ==
  ASSUME FriendsTypes
  PROVE  /\ inputs.commands < MaxCommands => [inputs EXCEPT !.commands = @ + 1] \in Inputs
         /\ inputs.datagrams < MaxDatagrams => [inputs EXCEPT !.datagrams = @ + 1] \in Inputs
         /\ inputs.ticks < MaxTicks => [inputs EXCEPT !.ticks = @ + 1] \in Inputs
<1>1. inputs \in Inputs
  BY DEF FriendsTypes
<1>2. inputs.commands < MaxCommands => [inputs EXCEPT !.commands = @ + 1] \in Inputs
  BY <1>1, InputsAssumption DEF Inputs
<1>3. inputs.datagrams < MaxDatagrams => [inputs EXCEPT !.datagrams = @ + 1] \in Inputs
  BY <1>1, InputsAssumption DEF Inputs
<1>4. inputs.ticks < MaxTicks => [inputs EXCEPT !.ticks = @ + 1] \in Inputs
  BY <1>1, InputsAssumption DEF Inputs
<1> QED
  BY <1>2, <1>3, <1>4

\* Of the calls only those of one thread change.
Turns(t) ==
  /\ todo' \in [Threads -> Seq(Call)]
  /\ \A u \in Threads \ {t} : todo'[u] = todo[u]

LEMMA ThenTurns ==
  ASSUME FriendsTypes, NEW t \in Threads, todo[t] # << >>, NEW calls \in Seq(Call), Then(t, calls)
  PROVE  Turns(t)
<1>1. todo[t] \in Seq(Call) /\ Tail(todo[t]) \in Seq(Call)
  BY DEF FriendsTypes
<1>2. calls \o Tail(todo[t]) \in Seq(Call)
  BY <1>1
<1> QED
  BY <1>2 DEF Then, Turns, FriendsTypes

LEMMA ReturnTurns ==
  ASSUME FriendsTypes, NEW t \in Threads, todo[t] # << >>, Return(t)
  PROVE  Turns(t)
<1>1. << >> \in Seq(Call)
  OBVIOUS
<1> QED
  BY <1>1, ThenTurns DEF Return

LEMMA BeginsTurns ==
  ASSUME FriendsTypes, NEW t \in Threads, NEW calls \in Seq(Call),
         todo' = [todo EXCEPT ![t] = calls]
  PROVE  Turns(t)
BY DEF Turns, FriendsTypes

\* Who is not in a setter holds no pointer.
LEMMA NoneHeld ==
  ASSUME SettersHold, NEW t \in Threads, todo[t] = << >> \/ \E op : At(t, op) /\ op # "set"
  PROVE  ptr[t] = NoPtr
BY DEF SettersHold, At

\* A thread's step leaves the others where they were: they hold what they held.
LEMMA TurnsHeld ==
  ASSUME SettersHold, NEW t \in Threads, Turns(t), ptr'[t] = NoPtr,
         \A u \in Threads : ptr'[u] # NoPtr => u = t \/ ptr[u] # NoPtr
  PROVE  SettersHold'
BY DEF SettersHold, Turns, At

----------------------------------------------------------------------------
(* Calls into the state manager *)

LEMMA Parts == FriendsInv => FriendsTypes /\ TableInv /\ SettersHold
BY DEF FriendsInv, FriendsTypeOK, FriendsTypes, TableInv

\* What every step must see to.
Kept == FriendsTypes' /\ SettersHold' /\ [SM!Next]_state

\* An operation of the state manager that takes the place of a call.
LEMMA OperationKeeps ==
  ASSUME FriendsInv, NEW t \in Threads, Turns(t), SM!Calls(t), ptr'[t] = NoPtr,
         \A u \in Threads : ptr'[u] # NoPtr => ptr[u] # NoPtr,
         UNCHANGED <<p2p, inputs>>, {stateLock', queueLock'} \subseteq Threads \cup {"free"},
         queue' \in Seq(Event) /\ Len(queue') <= QueueSize
  PROVE  Kept
<1>1. FriendsTypes'
  BY Parts DEF Turns, FriendsTypes, p2p, locks
<1>2. SettersHold'
  BY Parts, TurnsHeld
<1> QED
  BY <1>1, <1>2 DEF Kept, SM!Next

LEMMA UpdateKeeps ==
  ASSUME FriendsInv, NEW t \in Threads, CallUpdate(t)
  PROVE  Kept
<1>1. FriendsTypes /\ SettersHold /\ At(t, "update")
  BY Parts DEF CallUpdate
<1>2. ptr[t] = NoPtr /\ Turns(t)
  BY <1>1, HeadIs, NoneHeld, ReturnTurns DEF CallUpdate
<1>3. Arg(t).id \in Ids \cup {NoId} /\ Arg(t).state \in PeerStates
  BY <1>1, HeadIs, CallIs
<1>4. SM!UpdatePeer(Arg(t).id, Arg(t).state) /\ UNCHANGED <<ghosts, ptr, queue, p2p, locks, inputs>>
  BY DEF CallUpdate
<1>5. SM!Calls(t)
  BY <1>2, <1>3, <1>4 DEF SM!Calls
<1> QED
  BY <1>1, <1>2, <1>4, <1>5, OperationKeeps DEF FriendsTypes, locks

LEMMA RemoveKeeps ==
  ASSUME FriendsInv, NEW t \in Threads, CallRemove(t)
  PROVE  Kept
<1>1. FriendsTypes /\ SettersHold /\ At(t, "remove")
  BY Parts DEF CallRemove
<1>2. ptr[t] = NoPtr /\ Turns(t)
  BY <1>1, HeadIs, NoneHeld, ReturnTurns DEF CallRemove
<1>3. Arg(t).id \in Ids \cup {NoId}
  BY <1>1, HeadIs, CallIs
<1>4. SM!RemovePeer(Arg(t).id) /\ UNCHANGED <<ghosts, queue, p2p, locks, inputs>>
  BY DEF CallRemove
<1>5. SM!Calls(t)
  BY <1>2, <1>3, <1>4 DEF SM!Calls
<1>6. \A u \in Threads : ptr[u] = NoPtr => ptr'[u] = NoPtr
  BY <1>4 DEF SM!RemovePeer
<1> QED
  BY <1>1, <1>2, <1>4, <1>5, <1>6, OperationKeeps DEF FriendsTypes, locks

LEMMA AddKeeps ==
  ASSUME FriendsInv, NEW t \in Threads, CallAdd(t)
  PROVE  Kept
<1>1. FriendsTypes /\ SettersHold /\ At(t, "state_add")
  BY Parts DEF CallAdd
<1>2. ptr[t] = NoPtr /\ Turns(t)
  BY <1>1, HeadIs, NoneHeld, ReturnTurns DEF CallAdd
<1>3. Arg(t).id \in Ids \cup {NoId}
  BY <1>1, HeadIs, CallIs
<1>4. SM!AddPeer(Arg(t).id) /\ UNCHANGED <<ghosts, ptr, queue, p2p, locks, inputs>>
  BY DEF CallAdd
<1>5. SM!Calls(t)
  BY <1>2, <1>3, <1>4 DEF SM!Calls
<1> QED
  BY <1>1, <1>2, <1>4, <1>5, OperationKeeps DEF FriendsTypes, locks

LEMMA StoreGhostKeeps ==
  ASSUME FriendsInv, NEW t \in Threads, CallStoreGhost(t)
  PROVE  Kept
<1>1. FriendsTypes /\ SettersHold /\ At(t, "store_ghost")
  BY Parts DEF CallStoreGhost
<1>2. ptr[t] = NoPtr /\ Turns(t)
  BY <1>1, HeadIs, NoneHeld, ReturnTurns DEF CallStoreGhost
<1>3. Arg(t).id \in Ids \cup {NoId}
  BY <1>1, HeadIs, CallIs
<1>4. SM!AddGhostMessage(Arg(t).id) /\ UNCHANGED <<peer_count, ptr, queue, p2p, locks, inputs>>
  BY DEF CallStoreGhost
<1>5. SM!Calls(t)
  BY <1>2, <1>3, <1>4 DEF SM!Calls
<1> QED
  BY <1>1, <1>2, <1>4, <1>5, OperationKeeps DEF FriendsTypes, locks

\* A delivery goes on to push the events of what is delivered.
LEMMA DeliverKeeps ==
  ASSUME FriendsInv, NEW t \in Threads, CallDeliver(t)
  PROVE  Kept
<1> DEFINE id == Arg(t).id
           n == Cardinality(SM!Waiting(id))
           pushes == [k \in 1 .. n |-> PushCall("GHOST_DELIVERED", id)]
           calls == pushes \o <<Op("state_unlock", NoId)>>
<1>1. FriendsTypes /\ SettersHold /\ At(t, "deliver") /\ TableInv
  BY Parts DEF CallDeliver
<1>2. ptr[t] = NoPtr /\ todo[t] # << >>
  BY <1>1, HeadIs, NoneHeld
<1>3. id \in Ids \cup {NoId}
  BY <1>1, HeadIs, CallIs
<1>4. /\ SM!DeliverGhostMessages(id)
      /\ UNCHANGED <<peer_count, ptr, queue, queueLock, p2p, inputs>>
      /\ stateLock' = t /\ Then(t, calls)
  BY DEF CallDeliver
<1>5. SM!Calls(t)
  BY <1>2, <1>3, <1>4 DEF SM!Calls
<1>6. calls \in Seq(Call)
  <2>1. n \in Nat
    BY <1>1, WaitingCounted
  <2>2. PushCall("GHOST_DELIVERED", id) \in Call /\ Op("state_unlock", NoId) \in Call
    BY <1>3, MakesCalls
  <2> HIDE DEF n
  <2>3. pushes \in Seq(Call)
    BY <2>1, <2>2
  <2> HIDE DEF pushes
  <2> QED
    BY <2>2, <2>3
<1> HIDE DEF calls
<1>7. Turns(t)
  BY <1>1, <1>2, <1>4, <1>6, ThenTurns
<1> QED
  BY <1>1, <1>2, <1>4, <1>5, <1>7, OperationKeeps DEF FriendsTypes

\* The first half of a setter leaves the call at the head for the second, or has found no peer.
LEMMA SetLookupKeeps ==
  ASSUME FriendsInv, NEW t \in Threads, CallSetLookup(t)
  PROVE  Kept
<1>1. FriendsTypes /\ SettersHold /\ At(t, "set") /\ ptr[t] = NoPtr
  BY Parts DEF CallSetLookup
<1>2. Arg(t).id \in Ids \cup {NoId} /\ Arg(t).write \in SM!Write
  BY <1>1, HeadIs, CallIs
<1>3. /\ SM!GetPeer(t, Arg(t).id, Arg(t).write)
      /\ UNCHANGED <<peers, peer_count, ghosts, queue, p2p, locks, inputs>>
  BY DEF CallSetLookup
<1>4. SM!Calls(t)
  BY <1>1, <1>2, <1>3 DEF SM!Calls
<1>5. CASE SM!Known(Arg(t).id)
  <2>1. UNCHANGED todo
    BY <1>5 DEF CallSetLookup
  <2>2. \A u \in Threads : ptr'[u] # NoPtr => u = t \/ ptr[u] # NoPtr
    <3>1. DOMAIN ptr = Threads
      BY Parts DEF TableInv, SM!TypeOK
    <3>2. ptr' = ptr \/ \E p : ptr' = [ptr EXCEPT ![t] = p]
      BY <1>3 DEF SM!GetPeer
    <3> QED
      BY <3>1, <3>2
  <2>3. SettersHold'
    BY <1>1, <2>1, <2>2 DEF SettersHold, At
  <2>4. FriendsTypes'
    BY <1>1, <1>3, <2>1 DEF FriendsTypes, p2p, locks
  <2> QED
    BY <1>4, <2>3, <2>4 DEF Kept, SM!Next
<1>6. CASE ~SM!Known(Arg(t).id)
  <2>1. UNCHANGED ptr
    BY <1>3, <1>6 DEF SM!GetPeer
  <2>2. Turns(t)
    BY <1>1, <1>6, HeadIs, ReturnTurns DEF CallSetLookup
  <2> QED
    BY <1>1, <1>3, <1>4, <2>1, <2>2, OperationKeeps DEF FriendsTypes, locks
<1> QED
  BY <1>5, <1>6

LEMMA SetWriteKeeps ==
  ASSUME FriendsInv, NEW t \in Threads, CallSetWrite(t)
  PROVE  Kept
<1>1. FriendsTypes /\ SettersHold /\ At(t, "set") /\ SM!TypeOK
  BY Parts DEF CallSetWrite, TableInv
<1>2. Turns(t) /\ SM!SetField(t) /\ UNCHANGED <<queue, p2p, locks, inputs>>
  BY <1>1, HeadIs, ReturnTurns DEF CallSetWrite
<1>3. ptr' = [ptr EXCEPT ![t] = NoPtr] /\ ptr \in [Threads -> SM!Pointer \cup {NoPtr}]
  BY <1>1, <1>2 DEF SM!SetField, SM!TypeOK
<1>4. SettersHold'
  BY <1>1, <1>2, <1>3, TurnsHeld
<1>5. FriendsTypes'
  BY <1>1, <1>2 DEF Turns, FriendsTypes, p2p, locks
<1> QED
  BY <1>2, <1>4, <1>5 DEF Kept, SM!Next

----------------------------------------------------------------------------
(* The steps that leave the state manager alone *)

\* The step of a thread that holds no pointer.
LEMMA ElsewhereKeeps ==
  ASSUME FriendsInv, NEW t \in Threads, Turns(t), UNCHANGED state, ptr[t] = NoPtr,
         queue' \in Seq(Event) /\ Len(queue') <= QueueSize, conn' \in [Ids -> ConnState],
         {p2pLock', stateLock', queueLock'} \subseteq Threads \cup {"free"},
         inputs' \in Inputs
  PROVE  Kept
<1>1. ptr' = ptr
  BY DEF state
<1>2. SettersHold'
  BY <1>1, Parts, TurnsHeld
<1>3. FriendsTypes'
  BY DEF Turns, FriendsTypes
<1> QED
  BY <1>2, <1>3 DEF Kept

LEMMA PushKeeps ==
  ASSUME FriendsInv, NEW t \in Threads, CallPush(t)
  PROVE  Kept
<1>1. FriendsTypes /\ SettersHold /\ At(t, "push")
  BY Parts DEF CallPush
<1>2. ptr[t] = NoPtr /\ Turns(t)
  BY <1>1, HeadIs, NoneHeld, ReturnTurns DEF CallPush
<1>3. Arg(t).event \in Event
  BY <1>1, HeadIs, CallIs
<1>4. queue' \in Seq(Event) /\ Len(queue') <= QueueSize
  BY <1>1, <1>3, TableAssumption DEF CallPush, Pushed, FriendsTypes
<1> QED
  BY <1>1, <1>2, <1>4, ElsewhereKeeps DEF CallPush, FriendsTypes, p2p, locks

\* The mutexes of the state manager and of the queue are let go.
LEMMA UnlockKeeps ==
  ASSUME FriendsInv, NEW t \in Threads, CallStateUnlock(t) \/ CallQueueUnlock(t)
  PROVE  Kept
<1>1. FriendsTypes /\ SettersHold /\ (At(t, "state_unlock") \/ At(t, "queue_unlock"))
  BY Parts DEF CallStateUnlock, CallQueueUnlock
<1>2. ptr[t] = NoPtr /\ Turns(t)
  BY <1>1, HeadIs, NoneHeld, ReturnTurns DEF CallStateUnlock, CallQueueUnlock
<1>3. /\ UNCHANGED <<state, queue, p2p, inputs>>
      /\ {stateLock', queueLock'} \subseteq Threads \cup {"free"}
  BY <1>1 DEF CallStateUnlock, CallQueueUnlock, FriendsTypes
<1> QED
  BY <1>1, <1>2, <1>3, ElsewhereKeeps DEF FriendsTypes, p2p, locks

\* The calls that concern the P2P table and its mutex.
P2pCalls(t) ==
  \/ CallLock(t) \/ CallUnlock(t) \/ CallFindPeer(t)
  \/ CallConnect(t) \/ CallDial(t) \/ CallHandshake(t) \/ CallAcceptPeer(t)

LEMMA P2pKeeps ==
  ASSUME FriendsInv, NEW t \in Threads, P2pCalls(t)
  PROVE  Kept
<1>1. PICK op \in {"lock", "unlock", "find_peer", "connect", "dial", "handshake", "accept_peer"} :
        At(t, op)
  BY DEF P2pCalls, CallLock, CallUnlock, CallFindPeer, CallConnect, CallDial, CallHandshake,
     CallAcceptPeer
<1>2. FriendsTypes /\ SettersHold /\ todo[t] # << >> /\ Arg(t).id \in Ids \cup {NoId}
  BY <1>1, Parts, HeadIs, CallIs
<1>3. ptr[t] = NoPtr
  BY <1>1, <1>2, NoneHeld
<1>4. Turns(t)
  <2>1. CASE Return(t)
    BY <1>2, <2>1, ReturnTurns
  <2>2. CASE \E o \in {"dial", "handshake"} : Then(t, <<Op(o, Arg(t).id)>>)
    <3>1. PICK o \in {"dial", "handshake"} : Then(t, <<Op(o, Arg(t).id)>>)
      BY <2>2
    <3>2. <<Op(o, Arg(t).id)>> \in Seq(Call)
      BY <1>2, MakesCalls
    <3> QED
      BY <1>2, <3>1, <3>2, ThenTurns
  <2> QED
    BY <2>1, <2>2 DEF P2pCalls, CallLock, CallUnlock, CallFindPeer, CallConnect, CallDial,
       CallHandshake, CallAcceptPeer
<1>5. UNCHANGED <<state, queue, locks, inputs>>
  BY DEF P2pCalls, CallLock, CallUnlock, CallFindPeer, CallConnect, CallDial, CallHandshake,
     CallAcceptPeer, p2p
<1>6. conn' \in [Ids -> ConnState]
  BY <1>2 DEF P2pCalls, CallLock, CallUnlock, CallFindPeer, CallConnect, CallDial, CallHandshake,
     CallAcceptPeer, p2p, FriendsTypes, ConnState
<1>7. p2pLock' \in Threads \cup {"free"}
  BY <1>2 DEF P2pCalls, CallLock, CallUnlock, CallFindPeer, CallConnect, CallDial, CallHandshake,
     CallAcceptPeer, p2p, FriendsTypes
<1> QED
  BY <1>2, <1>3, <1>4, <1>5, <1>6, <1>7, ElsewhereKeeps DEF FriendsTypes, locks

LEMMA CallKeeps ==
  ASSUME FriendsInv, NEW t \in Threads, Calls(t)
  PROVE  Kept
BY UpdateKeeps, RemoveKeeps, AddKeeps, SetLookupKeeps, SetWriteKeeps, StoreGhostKeeps,
   DeliverKeeps, PushKeeps, UnlockKeeps, P2pKeeps DEF Calls, P2pCalls

----------------------------------------------------------------------------
(* The event thread, the listener and the keepalive *)

\* event_process makes calls.
LEMMA HandlerCalls ==
  ASSUME NEW e \in Event
  PROVE  Handler(e) \in Seq(Call)
<1>1. e.id \in Ids \cup {NoId}
  BY DEF Event
<1> DEFINE id == e.id
<1>2. /\ SetAddress(id) \in Seq(Call)
      /\ Update(id, "REQUEST_RECEIVED") \in Call /\ Update(id, "FRIEND") \in Call
      /\ Set(id, "online", TRUE) \in Call /\ Set(id, "online", FALSE) \in Call
      /\ Op("deliver", id) \in Call /\ Op("remove", id) \in Call
  BY <1>1, MakesCalls DEF PeerStates
<1>3. /\ <<Update(id, "REQUEST_RECEIVED")>> \o SetAddress(id) \in Seq(Call)
      /\ <<Update(id, "FRIEND"), Set(id, "online", TRUE)>> \o SetAddress(id)
           \o <<Op("deliver", id)>> \in Seq(Call)
      /\ <<Op("remove", id)>> \in Seq(Call)
      /\ <<Set(id, "online", TRUE)>> \in Seq(Call)
      /\ <<Set(id, "online", FALSE)>> \in Seq(Call)
  BY <1>2, ListsAre
<1>4. << >> \in Seq(Call)
  OBVIOUS
<1>5. CASE e.type = "ADD_REQUEST"
  BY <1>3, <1>5 DEF Handler
<1>6. CASE e.type = "ACCEPT_CONFIRM"
  BY <1>3, <1>6 DEF Handler
<1>7. CASE e.type = "REJECT_CONFIRM"
  BY <1>3, <1>7 DEF Handler
<1>8. CASE e.type = "MESSAGE_RECEIVED"
  BY <1>3, <1>8 DEF Handler
<1>9. CASE e.type = "PEER_OFFLINE"
  BY <1>3, <1>9 DEF Handler
<1>10. CASE e.type = "GHOST_DELIVERED"
  BY <1>4, <1>10 DEF Handler
<1> QED
  BY <1>5, <1>6, <1>7, <1>8, <1>9, <1>10 DEF Event

LEMMA PopEventKeeps ==
  ASSUME FriendsInv, PopEvent
  PROVE  Kept
<1> DEFINE calls == <<Op("queue_unlock", NoId)>> \o Handled(Head(queue))
<1>1. /\ FriendsTypes /\ SettersHold /\ todo["event"] = << >> /\ queue # << >>
      /\ "event" \in Threads
  BY Parts DEF PopEvent, Threads
<1>2. ptr["event"] = NoPtr
  BY <1>1, NoneHeld
<1>3. Head(queue) \in Event /\ Tail(queue) \in Seq(Event) /\ Len(Tail(queue)) <= QueueSize
  BY <1>1, TableAssumption DEF FriendsTypes
<1>4. calls \in Seq(Call)
  <2>1. Handled(Head(queue)) \in Seq(Call)
    BY <1>3, HandlerCalls DEF Handled
  <2>2. Op("queue_unlock", NoId) \in Call
    BY MakesCalls
  <2> QED
    BY <2>1, <2>2
<1>5. /\ todo' = [todo EXCEPT !["event"] = calls] /\ queue' = Tail(queue)
      /\ UNCHANGED <<state, p2p, stateLock, inputs>> /\ queueLock' = "event"
  BY DEF PopEvent
<1> HIDE DEF calls
<1>6. Turns("event")
  BY <1>1, <1>4, <1>5, BeginsTurns
<1> QED
  BY <1>1, <1>2, <1>3, <1>5, <1>6, ElsewhereKeeps DEF FriendsTypes, p2p, locks

LEMMA ReceiveKeeps ==
  ASSUME FriendsInv, Receive
  PROVE  Kept
<1>1. /\ FriendsTypes /\ SettersHold /\ todo["listener"] = << >>
      /\ "listener" \in Threads
  BY Parts DEF Receive, Threads
<1>2. ptr["listener"] = NoPtr
  BY <1>1, NoneHeld
<1>3. PICK id \in Ids, m \in Messages :
        todo' = [todo EXCEPT !["listener"] = <<Op("lock", id), Op(m, id), Op("unlock", id)>>]
  BY DEF Receive
<1>4. <<Op("lock", id), Op(m, id), Op("unlock", id)>> \in Seq(Call)
  <2>1. Op("lock", id) \in Call /\ Op(m, id) \in Call /\ Op("unlock", id) \in Call
    BY MakesCalls
  <2> QED
    BY <2>1
<1>5. Turns("listener")
  BY <1>1, <1>3, <1>4, BeginsTurns
<1>6. inputs' \in Inputs
  BY <1>1, Counted DEF Receive
<1>7. UNCHANGED <<state, queue, p2p, locks>>
  BY DEF Receive
<1> QED
  BY <1>1, <1>2, <1>5, <1>6, <1>7, ElsewhereKeeps DEF FriendsTypes, p2p, locks

\* A call is done and others take its place.
LEMMA HandledKeeps ==
  ASSUME FriendsInv, NEW t \in Threads, NEW op, At(t, op), op # "set",
         NEW calls \in Seq(Call), Then(t, calls), UNCHANGED <<state, queue, p2pLock, locks, inputs>>,
         conn' \in [Ids -> ConnState]
  PROVE  Kept
<1>1. FriendsTypes /\ SettersHold /\ todo[t] # << >>
  BY Parts, HeadIs
<1>2. ptr[t] = NoPtr /\ Turns(t)
  BY <1>1, NoneHeld, ThenTurns
<1> QED
  BY <1>1, <1>2, ElsewhereKeeps DEF FriendsTypes, locks

LEMMA ProcessKeeps ==
  ASSUME FriendsInv, NEW m \in {"DATA", "ADD_REQUEST", "ACCEPT_CONFIRM", "REJECT_CONFIRM"},
         Process(m)
  PROVE  Kept
<1> DEFINE id == Arg("listener").id
<1>1. At("listener", m) /\ "listener" \in Threads /\ FriendsTypes
  BY Parts DEF Process, Threads
<1>2. id \in Ids \cup {NoId}
  BY <1>1, HeadIs, CallIs
<1>3. \E calls \in Seq(Call) : Then("listener", calls)
  <2> SUFFICES ASSUME NEW from \in Ids
               PROVE  /\ <<PushCall("MESSAGE_RECEIVED", id)>> \in Seq(Call)
                      /\ <<Update(from, "REQUEST_RECEIVED")>> \o SetAddress(from)
                           \o <<PushCall("ADD_REQUEST", from)>> \in Seq(Call)
                      /\ <<Update(from, "FRIEND"), Set(from, "online", TRUE)>> \o SetAddress(from)
                           \o <<Op("deliver", from), PushCall("ACCEPT_CONFIRM", NoId)>>
                         \in Seq(Call)
                      /\ <<Op("remove", from), PushCall("REJECT_CONFIRM", NoId)>> \in Seq(Call)
    BY DEF Process
  <2>1. /\ SetAddress(from) \in Seq(Call)
        /\ Update(from, "REQUEST_RECEIVED") \in Call /\ Update(from, "FRIEND") \in Call
        /\ Set(from, "online", TRUE) \in Call
        /\ Op("deliver", from) \in Call /\ Op("remove", from) \in Call
        /\ PushCall("ADD_REQUEST", from) \in Call
    BY MakesCalls DEF PeerStates
  <2>2. /\ PushCall("MESSAGE_RECEIVED", id) \in Call
        /\ PushCall("ACCEPT_CONFIRM", NoId) \in Call /\ PushCall("REJECT_CONFIRM", NoId) \in Call
    BY <1>2, MakesCalls
  <2> QED
    BY <2>1, <2>2, ListsAre
<1>4. UNCHANGED <<state, queue, p2p, locks, inputs>>
  BY DEF Process
<1> QED
  BY <1>1, <1>3, <1>4, HandledKeeps DEF FriendsTypes, p2p

LEMMA ProcessStateKeeps ==
  ASSUME FriendsInv, NEW m \in {"HANDSHAKE_RESPONSE", "CLOSE"}, ProcessState(m)
  PROVE  Kept
<1>1. At("listener", m) /\ "listener" \in Threads /\ FriendsTypes
  BY Parts DEF ProcessState, Threads
<1>2. Then("listener", << >>) /\ << >> \in Seq(Call)
  BY DEF ProcessState, Return
<1>3. conn' \in [Ids -> ConnState]
  BY <1>1 DEF ProcessState, FriendsTypes, ConnState
<1>4. UNCHANGED <<state, queue, p2pLock, locks, inputs>>
  BY DEF ProcessState
<1> QED
  BY <1>1, <1>2, <1>3, <1>4, HandledKeeps

\* A message is refused, or the listener locks itself out.
LEMMA HandshakeKeeps ==
  ASSUME FriendsInv, ProcessRefused \/ ProcessStranger
  PROVE  Kept
<1> DEFINE id == Arg("listener").id
<1>1. PICK m \in Messages : At("listener", m)
  BY DEF ProcessRefused, ProcessStranger, Messages
<1>2. "listener" \in Threads /\ FriendsTypes /\ m # "set"
  BY Parts DEF Threads, Messages
<1>3. id \in Ids \cup {NoId}
  BY <1>1, <1>2, HeadIs, CallIs
<1>4. << >> \in Seq(Call) /\ <<Op("lock", id), Op("unlock", id)>> \in Seq(Call)
  BY <1>3, MakesCalls
<1>5. \E calls \in Seq(Call) : Then("listener", calls)
  BY <1>4 DEF ProcessRefused, ProcessStranger, Return
<1>6. UNCHANGED <<state, queue, p2p, locks, inputs>>
  BY DEF ProcessRefused, ProcessStranger
<1> QED
  BY <1>1, <1>2, <1>5, <1>6, HandledKeeps DEF FriendsTypes, p2p, locks

\* A round of the keepalive visits every peer, and there are finitely many.
LEMMA TickKeeps ==
  ASSUME FriendsInv, Tick
  PROVE  Kept
<1> DEFINE order == SetToSeq(Ids)
           visits == [k \in DOMAIN order |-> Op("visit", order[k])]
           calls == <<Op("lock", NoId)>> \o visits \o <<Op("unlock", NoId)>>
<1>1. /\ FriendsTypes /\ SettersHold /\ todo["keepalive"] = << >>
      /\ "keepalive" \in Threads
  BY Parts DEF Tick, Threads
<1>2. ptr["keepalive"] = NoPtr
  BY <1>1, NoneHeld
<1>3. Cardinality(Ids) \in Nat /\ order \in [1 .. Cardinality(Ids) -> Ids]
  <2>1. Cardinality(Ids) \in Nat /\ ExistsBijection(1 .. Cardinality(Ids), Ids)
    BY TableAssumption, FS_CardinalityType
  <2>2. \E f \in [1 .. Cardinality(Ids) -> Ids] : IsInjective(f)
    BY <2>1 DEF ExistsBijection, Bijection, Injection, IsInjective
  <2> QED
    BY <2>1, <2>2 DEF SetToSeq
<1> HIDE DEF order
<1>4. visits \in Seq(Call)
  <2>1. \A k \in 1 .. Cardinality(Ids) : Op("visit", order[k]) \in Call
    BY <1>3, MakesCalls
  <2> QED
    BY <1>3, <2>1
<1> HIDE DEF visits
<1>5. calls \in Seq(Call)
  <2>1. Op("lock", NoId) \in Call /\ Op("unlock", NoId) \in Call
    BY MakesCalls
  <2> QED
    BY <1>4, <2>1
<1>6. todo' = [todo EXCEPT !["keepalive"] = calls] /\ UNCHANGED <<state, queue, p2p, locks>>
  BY DEF Tick, visits, order
<1> HIDE DEF calls
<1>7. Turns("keepalive")
  BY <1>1, <1>5, <1>6, BeginsTurns
<1>8. inputs' \in Inputs
  BY <1>1, Counted DEF Tick
<1> QED
  BY <1>1, <1>2, <1>6, <1>7, <1>8, ElsewhereKeeps DEF FriendsTypes, p2p, locks

LEMMA VisitKeeps ==
  ASSUME FriendsInv, Visit
  PROVE  Kept
<1> DEFINE id == Arg("keepalive").id
<1>1. At("keepalive", "visit") /\ "keepalive" \in Threads /\ FriendsTypes
  BY Parts DEF Visit, Threads
<1>2. id \in Ids \cup {NoId}
  BY <1>1, HeadIs, CallIs
<1>3. << >> \in Seq(Call)
      /\ <<Set(id, "online", FALSE), PushCall("PEER_OFFLINE", id)>> \in Seq(Call)
  <2>1. Set(id, "online", FALSE) \in Call /\ PushCall("PEER_OFFLINE", id) \in Call
    BY <1>2, MakesCalls
  <2>2. << >> \in Seq(Call)
    OBVIOUS
  <2> QED
    BY <2>1, <2>2, ListsAre
<1>4. \E calls \in Seq(Call) : Then("keepalive", calls)
  BY <1>3 DEF Visit, Return
<1>5. conn' \in [Ids -> ConnState]
  BY <1>1 DEF Visit, FriendsTypes, ConnState
<1>6. UNCHANGED <<state, queue, p2pLock, locks, inputs>>
  BY DEF Visit
<1> QED
  BY <1>1, <1>4, <1>5, <1>6, HandledKeeps

LEMMA StealKeeps ==
  ASSUME FriendsInv, Steal
  PROVE  Kept
<1>1. FriendsTypes /\ SettersHold
  BY Parts
<1>2. [type |-> "MESSAGE_RECEIVED", id |-> NoId] \in Event
  BY DEF Event
<1>3. queue' \in Seq(Event) /\ Len(queue') <= QueueSize
  BY <1>1, <1>2, TableAssumption DEF Steal, Pushed, FriendsTypes
<1>4. inputs' \in Inputs
  BY <1>1, Counted DEF Steal
<1>5. UNCHANGED <<state, p2p, locks, todo>>
  BY DEF Steal
<1>6. SettersHold'
  BY <1>1, <1>5 DEF SettersHold, At, state
<1>7. FriendsTypes'
  BY <1>1, <1>3, <1>4, <1>5 DEF FriendsTypes, p2p, locks
<1> QED
  BY <1>5, <1>6, <1>7 DEF Kept

----------------------------------------------------------------------------
(* The commands *)

\* A command begins.
LEMMA CommandKeeps ==
  ASSUME FriendsInv, NEW c \in UserCommands, NEW id \in Ids, Command(c, id)
  PROVE  Kept
<1> DEFINE calls == CASE c = "add" -> <<Op("add", id)>>
                      [] c = "accept" -> <<Op("accept", id)>>
                      [] c = "reject" -> <<Op("reject", id)>>
                      [] c = "search" -> <<Op("search", id)>>
                      [] c = "ghost" -> <<Op("store_ghost", id)>>
                      [] c = "chat_send" ->
                           <<Op("find_peer", id), Op("find_peer", id), Op("find_peer", id)>>
<1>1. /\ FriendsTypes /\ SettersHold /\ todo["ipc"] = << >>
      /\ "ipc" \in Threads
  BY Parts DEF Command, Threads
<1>2. ptr["ipc"] = NoPtr
  BY <1>1, NoneHeld
<1>3. \A o \in {"add", "accept", "reject", "search", "store_ghost", "find_peer"} :
        Op(o, id) \in Call
  BY MakesCalls
<1>4. calls \in Seq(Call)
  <2>1. /\ \A o \in {"add", "accept", "reject", "search", "store_ghost"} :
              <<Op(o, id)>> \in Seq(Call)
        /\ <<Op("find_peer", id), Op("find_peer", id), Op("find_peer", id)>> \in Seq(Call)
    BY <1>3
  <2> QED
    BY <2>1 DEF UserCommands
<1>5. todo' = [todo EXCEPT !["ipc"] = calls] /\ UNCHANGED <<state, queue, p2p, locks>>
  BY DEF Command
<1> HIDE DEF calls
<1>6. Turns("ipc")
  BY <1>1, <1>4, <1>5, BeginsTurns
<1>7. inputs' \in Inputs
  BY <1>1, Counted DEF Command
<1> QED
  BY <1>1, <1>2, <1>5, <1>6, <1>7, ElsewhereKeeps DEF FriendsTypes, p2p, locks

\* The steps of a command look something up, and may read through the slot they kept.
Handlers ==
  \/ CmdAdd \/ CmdAddAgain \/ CmdAddCheck \/ CmdAddConnect
  \/ CmdDecide("accept") \/ CmdDecide("reject")
  \/ CmdAcceptCheck \/ CmdAcceptConnect \/ CmdRejectCheck
  \/ CmdSearch

LEMMA HandlersKeep ==
  ASSUME FriendsInv, Handlers
  PROVE  Kept
<1> DEFINE c == Arg("ipc")
           id == c.id
<1> USE DEF Handlers
<1>1. PICK op \in {"add", "add_again", "add_check", "add_connect", "accept", "reject",
                   "accept_check", "accept_connect", "reject_check", "search"} : At("ipc", op)
  BY DEF CmdAdd, CmdAddAgain, CmdAddCheck, CmdAddConnect, CmdDecide, CmdAcceptCheck,
     CmdAcceptConnect, CmdRejectCheck, CmdSearch
<1>2. "ipc" \in Threads /\ FriendsTypes /\ TableInv
  BY Parts DEF Threads
<1>3. c \in Call /\ c.op = op
  BY <1>1, <1>2, HeadIs
<1>4. /\ id \in Ids \cup {NoId}
      /\ op \in {"add_check", "add_connect", "accept_check", "accept_connect", "reject_check"}
         => c.slot \in SM!Slots
  BY <1>3, CallIs
<1>5. UNCHANGED <<state, queue, p2p, locks, inputs>>
  BY DEF CmdAdd, CmdAddAgain, CmdAddCheck, CmdAddConnect, CmdDecide, CmdAcceptCheck,
     CmdAcceptConnect, CmdRejectCheck, CmdSearch
<1>6. << >> \in Seq(Call)
  OBVIOUS
<1>7. \E calls \in Seq(Call) : Then("ipc", calls)
  <2>1. ASSUME SM!Known(id)
        PROVE  /\ <<Read("add_check", id, SM!SlotOf(id))>> \in Seq(Call)
               /\ <<Read("accept_check", id, SM!SlotOf(id))>> \in Seq(Call)
               /\ <<Read("reject_check", id, SM!SlotOf(id))>> \in Seq(Call)
    BY <1>2, <1>4, <2>1, SlotFound, MakesCalls
  <2>2. CASE CmdAdd
    <3>1. <<Op("state_add", id), Op("add_again", id)>> \in Seq(Call)
      BY <1>4, MakesCalls
    <3> QED
      BY <2>1, <2>2, <3>1 DEF CmdAdd
  <2>3. CASE CmdAddAgain
    BY <1>6, <2>1, <2>3 DEF CmdAddAgain, Return
  <2>4. CASE CmdAddCheck
    <3>1. At("ipc", "add_check") /\ op = "add_check"
      BY <1>1, <2>4 DEF CmdAddCheck, At
    <3>2. <<Update(c.id, "REQUEST_SENT"), Read("add_connect", c.id, c.slot)>> \in Seq(Call)
      BY <1>4, <3>1, MakesCalls DEF PeerStates
    <3> QED
      BY <1>6, <2>4, <3>2 DEF CmdAddCheck, Return
  <2>5. CASE CmdAddConnect
    <3>1. <<Op("find_peer", c.id), Op("connect", c.id)>> \in Seq(Call)
      BY <1>4, MakesCalls
    <3> QED
      BY <1>6, <2>5, <3>1 DEF CmdAddConnect, Return
  <2>6. CASE CmdDecide("accept")
    BY <1>6, <2>1, <2>6 DEF CmdDecide, Return
  <2>7. CASE CmdDecide("reject")
    BY <1>6, <2>1, <2>7 DEF CmdDecide, Return
  <2>8. CASE CmdAcceptCheck
    <3>1. op = "accept_check"
      BY <1>1, <2>8 DEF CmdAcceptCheck, At
    <3>2. <<Update(c.id, "FRIEND"), Read("accept_connect", c.id, c.slot), Op("deliver", c.id)>>
          \in Seq(Call)
      BY <1>4, <3>1, MakesCalls DEF PeerStates
    <3> QED
      BY <1>6, <2>8, <3>2 DEF CmdAcceptCheck, Return
  <2>9. CASE CmdAcceptConnect
    <3>1. <<Op("find_peer", c.id), Op("accept_peer", c.id)>> \in Seq(Call)
      BY <1>4, MakesCalls
    <3> QED
      BY <1>6, <2>9, <3>1 DEF CmdAcceptConnect, Return
  <2>10. CASE CmdRejectCheck
    <3>1. <<Op("remove", c.id)>> \in Seq(Call)
      BY <1>4, MakesCalls
    <3> QED
      BY <1>6, <2>10, <3>1 DEF CmdRejectCheck, Return
  <2>11. CASE CmdSearch
    <3>1. SetAddress(id) \in Seq(Call) /\ Set(id, "online", TRUE) \in Call
          /\ Set(id, "online", FALSE) \in Call
      BY <1>4, MakesCalls
    <3>2. SetAddress(id) \o <<Set(id, "online", TRUE)>> \in Seq(Call)
          /\ <<Set(id, "online", FALSE)>> \in Seq(Call)
      BY <3>1, ListsAre
    <3> QED
      BY <1>6, <2>11, <3>2 DEF CmdSearch, Return
  <2> QED
    BY <2>2, <2>3, <2>4, <2>5, <2>6, <2>7, <2>8, <2>9, <2>10, <2>11
<1> QED
  BY <1>1, <1>2, <1>5, <1>7, HandledKeeps DEF FriendsTypes, p2p, locks

----------------------------------------------------------------------------
(* The invariant *)

\* state_load leaves a table in which every peer of the file has a record, and one.
LEMMA InitFriends == FriendsInit => FriendsInv
<1> SUFFICES ASSUME FriendsInit PROVE FriendsInv
  OBVIOUS
<1>1. /\ Len(Saved) \in 0 .. MaxPeers /\ MaxPeers \in Nat /\ QueueSize \in Nat
      /\ DOMAIN Saved = 1 .. Len(Saved)
  BY SavedAssumption, TableAssumption
<1>2. \A m \in 0 .. Len(Saved) - 1 :
        /\ SavedPeer(m) \in SM!Peer /\ SavedPeer(m).id # NoId
        /\ \A n \in 0 .. Len(Saved) - 1 : SavedPeer(m).id = SavedPeer(n).id => m = n
  <2> SUFFICES ASSUME NEW m \in 0 .. Len(Saved) - 1
               PROVE  /\ SavedPeer(m) \in SM!Peer /\ SavedPeer(m).id # NoId
                      /\ \A n \in 0 .. Len(Saved) - 1 : SavedPeer(m).id = SavedPeer(n).id => m = n
    OBVIOUS
  <2>1. m + 1 \in DOMAIN Saved /\ \A n \in 0 .. Len(Saved) - 1 : n + 1 \in DOMAIN Saved
    BY <1>1
  <2>2. Saved[m + 1] \in SM!Peer
    BY <2>1, SavedAssumption
  <2>3. Saved[m + 1].id # NoId
    BY <2>1, SavedAssumption
  <2>4. \A n \in 0 .. Len(Saved) - 1 : Saved[m + 1].id = Saved[n + 1].id => m + 1 = n + 1
    BY <2>1, SavedAssumption
  <2> QED
    BY <1>1, <2>2, <2>3, <2>4 DEF SavedPeer
<1>3. SM!Record(NoId) \in SM!Peer
  BY DEF SM!Record, SM!Peer, PeerStates
<1>4. /\ peers \in [SM!Slots -> SM!Peer] /\ SM!Live = 0 .. Len(Saved) - 1
      /\ \A m \in SM!Live : peers[m] = SavedPeer(m)
  BY <1>1, <1>2, <1>3 DEF FriendsInit, SM!Slots, SM!Live
<1>5. SM!TypeOK
  BY <1>1, <1>4, TableAssumption DEF FriendsInit, SM!TypeOK
<1>6. SM!UniqueIds
  BY <1>2, <1>4 DEF SM!UniqueIds
<1>7. SM!OnlyRemovalInvalidates /\ SettersHold
  BY DEF FriendsInit, SM!OnlyRemovalInvalidates, SettersHold
<1>8. FriendsTypes
  BY <1>1, InputsAssumption DEF FriendsInit, FriendsTypes, ConnState, Inputs
<1> QED
  BY <1>5, <1>6, <1>7, <1>8 DEF FriendsInv, FriendsTypeOK, FriendsTypes

LEMMA StepKeeps == FriendsInv /\ [FriendsNext]_friendsVars => Kept
<1> SUFFICES ASSUME FriendsInv, [FriendsNext]_friendsVars PROVE Kept
  OBVIOUS
<1>1. CASE \E t \in Threads : Calls(t)
  BY <1>1, CallKeeps
<1>2. CASE Ipc
  BY <1>2, CommandKeeps, HandlersKeep DEF Ipc, Handlers
<1>3. CASE Listener
  BY <1>3, ReceiveKeeps, ProcessKeeps, ProcessStateKeeps, HandshakeKeeps DEF Listener
<1>4. CASE Keepalive
  BY <1>4, TickKeeps, VisitKeeps DEF Keepalive
<1>5. CASE UNCHANGED friendsVars
  <2>1. UNCHANGED <<state, queue, p2p, locks, todo, inputs>>
    BY <1>5 DEF friendsVars
  <2>2. FriendsTypes' /\ SettersHold'
    BY <2>1, Parts DEF FriendsTypes, SettersHold, At, p2p, locks, state
  <2> QED
    BY <2>1, <2>2 DEF Kept
<1> QED
  BY <1>1, <1>2, <1>3, <1>4, <1>5, PopEventKeeps, StealKeeps DEF FriendsNext

LEMMA NextFriends == FriendsInv /\ [FriendsNext]_friendsVars => FriendsInv'
<1> SUFFICES ASSUME FriendsInv, [FriendsNext]_friendsVars PROVE FriendsInv'
  OBVIOUS
<1>1. FriendsTypes' /\ SettersHold' /\ TableInv'
  BY StepKeeps, TableStep, Parts DEF Kept
<1> QED
  BY <1>1 DEF FriendsInv, FriendsTypeOK, FriendsTypes, TableInv

LEMMA FriendsHolds == FriendsSpec => []FriendsInv
BY InitFriends, NextFriends, PTL DEF FriendsSpec

\* The queue of events, the P2P table, its mutex and the calls the threads have to make keep
\* their types; the queue is never longer than EVENT_QUEUE_SIZE.
THEOREM FriendsTypeCorrect == FriendsSpec => []FriendsTypeOK
<1>1. FriendsInv => FriendsTypeOK
  BY DEF FriendsInv
<1> QED
  BY <1>1, FriendsHolds, PTL

\* What the threads do with the peer table are operations of state_manager.c, each thread
\* one call at a time, so the state manager's theorems hold of the running daemon, on the
\* peers it has loaded: no two records of one peer, and no pointer of a setter gone astray
\* but by a removal.
THEOREM FriendsKept == FriendsSpec => [](SM!UniqueIds /\ SM!OnlyRemovalInvalidates)
<1>1. FriendsInv => SM!UniqueIds /\ SM!OnlyRemovalInvalidates
  BY DEF FriendsInv
<1> QED
  BY <1>1, FriendsHolds, PTL

\* Its theorem about the book of peers holds of the daemon too: whatever its threads do adds,
\* removes or changes the one peer it is about, or writes through a pointer a removal made
\* stale.
THEOREM FriendsBook == FriendsSpec => [][Proved!BookStep]_state
<1>1. Proved!Inv /\ [Proved!Next]_(Proved!vars) => [Proved!BookStep]_(Proved!vars)
  BY Proved!NextBookStep, TableAssumed
<1>2. Proved!vars = state /\ Proved!vars' = state'
  BY DEF Proved!vars, state
<1>3. FriendsInv => Proved!Inv
  BY Parts, SameTypes, SameTable DEF TableInv, Proved!Inv
<1>4. FriendsInv /\ [FriendsNext]_friendsVars => [Proved!BookStep]_state
  BY <1>1, <1>2, <1>3, StepKeeps, SameNext DEF Kept
<1> QED
  BY <1>4, FriendsHolds, PTL DEF FriendsSpec

\* And so do its ghost counters, if the state file has none above zero: state_save writes the
\* counters and not the messages.
THEOREM FriendsCounts ==
  ASSUME \A k \in DOMAIN Saved : Saved[k].ghost_count = 0
  PROVE  FriendsSpec => []SM!GhostCountSound
<1>1. FriendsInit => SM!GhostCountSound
  <2> SUFFICES ASSUME FriendsInit, NEW m \in SM!Live
               PROVE  SM!Backed(m)
    BY DEF SM!GhostCountSound
  <2>1. /\ m \in 0 .. Len(Saved) - 1 /\ Len(Saved) \in 0 .. MaxPeers /\ MaxPeers \in Nat
        /\ DOMAIN Saved = 1 .. Len(Saved)
    BY SavedAssumption, TableAssumption DEF FriendsInit, SM!Live
  <2>2. peers[m] = Saved[m + 1] /\ m + 1 \in DOMAIN Saved
    BY <2>1 DEF FriendsInit, SM!Slots, SavedPeer
  <2>3. peers[m].ghost_count = 0
    BY <2>2
  <2>4. Cardinality(SM!Waiting(peers[m].id)) \in Nat
    BY InitFriends, Parts, WaitingCounted
  <2> QED
    BY <2>3, <2>4 DEF SM!Backed, SM!Cardinality, Cardinality
<1>2. FriendsInv /\ SM!GhostCountSound /\ [FriendsNext]_friendsVars => SM!GhostCountSound'
  <2>1. Proved!Inv /\ Proved!GhostCountSound /\ [Proved!Next]_(Proved!vars)
        => Proved!GhostCountSound'
    BY Proved!NextCounts, TableAssumed
  <2>2. Proved!vars = state /\ Proved!vars' = state'
    BY DEF Proved!vars, state
  <2>3. SM!GhostCountSound = Proved!GhostCountSound
        /\ SM!GhostCountSound' = Proved!GhostCountSound'
    BY DEF SM!GhostCountSound, Proved!GhostCountSound, SM!Live, Proved!Live, SM!Backed,
       Proved!Backed, SM!Waiting, Proved!Waiting, SM!WaitingIn, Proved!WaitingIn,
       SM!Cardinality, Proved!Cardinality
  <2>4. FriendsInv => Proved!Inv
    BY Parts, SameTypes, SameTable DEF TableInv, Proved!Inv
  <2> QED
    BY <2>1, <2>2, <2>3, <2>4, StepKeeps, SameNext DEF Kept
<1> QED
  BY <1>1, <1>2, FriendsHolds, PTL DEF FriendsSpec
==============================================================================
