----------------------------- MODULE EventQueue ------------------------------
(***************************************************************************)
(* The event queue of event_loop.c and the loop that drains it.            *)
(*                                                                         *)
(* g_event_queue is a ring of EVENT_QUEUE_SIZE slots with a head, a tail   *)
(* and a count, guarded by g_queue_mutex; g_queue_cond wakes the threads   *)
(* that wait in event_queue_pop.  A push runs wholly under the mutex and   *)
(* is one action.  A pop is not: it releases the mutex while it waits, and *)
(* event_loop_stop clears g_running and broadcasts WITHOUT the mutex, so   *)
(* the test of g_running and the wait that follows are separate actions.   *)
(* Any thread may push at any time (the network threads, the IPC thread,   *)
(* and the consumer itself while it handles an event).                     *)
(***************************************************************************)
EXTENDS Integers, Sequences

CONSTANTS
  Size,       \* EVENT_QUEUE_SIZE
  Consumers,  \* the threads that run event_loop_run
  Events,     \* the events that are pushed
  NoEvent,    \* the content of a slot never written
  Free        \* the owner of a mutex that is not held

ASSUME SizeAssumption == Size \in Nat \ {0}
ASSUME EventAssumption == NoEvent \notin Events
ASSUME FreeAssumption == Free \notin Consumers

VARIABLES
  slots,      \* g_event_queue
  head,       \* g_queue_head
  tail,       \* g_queue_tail
  count,      \* g_queue_count
  running,    \* g_running
  stopped,    \* event_loop_stop has done its broadcast
  lock,       \* the consumer that holds g_queue_mutex, or Free
  pc,         \* where each consumer is
  got,        \* the event each consumer popped last
  accepted    \* what the last event_queue_push returned

ring == <<slots, head, tail, count>>
vars == <<slots, head, tail, count, running, stopped, lock, pc, got, accepted>>

Index == 0 .. Size - 1
Control == {"loop", "call", "test", "park", "wait", "woken", "expired",
            "handle", "done"}

\* The slot k places after slot i.
Slot(i, k) == (i + k) % Size
Advance(i) == Slot(i, 1)
Goto(c, where) == pc' = [pc EXCEPT ![c] = where]

Init ==
  /\ slots = [i \in Index |-> NoEvent]
  /\ head = 0
  /\ tail = 0
  /\ count = 0
  /\ running = TRUE
  /\ stopped = FALSE
  /\ lock = Free
  /\ pc = [c \in Consumers |-> "loop"]
  /\ got = [c \in Consumers |-> NoEvent]
  /\ accepted = TRUE

----------------------------------------------------------------------------
(* event_queue_push.  pthread_cond_signal wakes one waiter, if there is one. *)

Waiting == {c \in Consumers : pc[c] = "wait"}

Signal ==
  \/ /\ Waiting = {}
     /\ UNCHANGED pc
  \/ \E c \in Waiting : Goto(c, "woken")

PushAccept(e) ==
  /\ lock = Free
  /\ count < Size
  /\ slots' = [slots EXCEPT ![tail] = e]
  /\ tail' = Advance(tail)
  /\ count' = count + 1
  /\ Signal
  /\ accepted' = TRUE
  /\ UNCHANGED <<head, running, stopped, lock, got>>

PushDrop ==
  /\ lock = Free
  /\ count >= Size
  /\ accepted' = FALSE
  /\ UNCHANGED <<ring, running, stopped, lock, pc, got>>

Push == PushDrop \/ \E e \in Events : PushAccept(e)

----------------------------------------------------------------------------
(* event_loop_run: one pop per turn of the loop, until g_running is false.  *)

LoopTest(c) ==
  /\ pc[c] = "loop"
  /\ Goto(c, IF running THEN "call" ELSE "done")
  /\ UNCHANGED <<ring, running, stopped, lock, got, accepted>>

\* The handler runs without the queue's mutex.
Handle(c) ==
  /\ pc[c] = "handle"
  /\ Goto(c, "loop")
  /\ UNCHANGED <<ring, running, stopped, lock, got, accepted>>

----------------------------------------------------------------------------
(* event_queue_pop with a positive timeout, as every caller uses it.        *)

\* pthread_mutex_lock, on entry and when a signalled wait returns.
Acquire(c) ==
  /\ pc[c] \in {"call", "woken"}
  /\ lock = Free
  /\ lock' = c
  /\ Goto(c, "test")
  /\ UNCHANGED <<ring, running, stopped, got, accepted>>

\* A slip: a single event is left where it is.
MustWaitOnOne == count <= 1 /\ running

\* while (g_queue_count == 0 && g_running)
MustWait == count = 0 /\ running

\* The condition holds: the thread is about to wait, the mutex still held.
Park(c) ==
  /\ pc[c] = "test"
  /\ MustWait
  /\ Goto(c, "park")
  /\ UNCHANGED <<ring, running, stopped, lock, got, accepted>>

\* pthread_cond_timedwait releases the mutex and waits, in one step.
Wait(c) ==
  /\ pc[c] = "park"
  /\ lock' = Free
  /\ Goto(c, "wait")
  /\ UNCHANGED <<ring, running, stopped, got, accepted>>

\* A wait may end with no signal at all.
Spurious(c) ==
  /\ pc[c] = "wait"
  /\ Goto(c, "woken")
  /\ UNCHANGED <<ring, running, stopped, lock, got, accepted>>

\* A slip: the wait has no timeout.
ExpireNever(c) ==
  /\ FALSE
  /\ Goto(c, "expired")
  /\ UNCHANGED <<ring, running, stopped, lock, got, accepted>>

\* ETIMEDOUT: the thread leaves the wait, takes the mutex back, and returns
\* -1 without looking at the count again.
Expire(c) ==
  /\ pc[c] = "wait"
  /\ Goto(c, "expired")
  /\ UNCHANGED <<ring, running, stopped, lock, got, accepted>>

GiveUp(c) ==
  /\ pc[c] = "expired"
  /\ lock = Free
  /\ Goto(c, "loop")
  /\ UNCHANGED <<ring, running, stopped, lock, got, accepted>>

\* The loop ended on an empty queue: return -1.
ReturnEmpty(c) ==
  /\ pc[c] = "test"
  /\ ~MustWait
  /\ count = 0
  /\ lock' = Free
  /\ Goto(c, "loop")
  /\ UNCHANGED <<ring, running, stopped, got, accepted>>

\* A slip: the tail is read for the head.
TakeAtTail(c) ==
  /\ pc[c] = "test"
  /\ ~MustWait
  /\ count # 0
  /\ got' = [got EXCEPT ![c] = slots[tail]]
  /\ head' = Advance(head)
  /\ count' = count - 1
  /\ lock' = Free
  /\ Goto(c, "handle")
  /\ UNCHANGED <<slots, tail, running, stopped, accepted>>

Take(c) ==
  /\ pc[c] = "test"
  /\ ~MustWait
  /\ count # 0
  /\ got' = [got EXCEPT ![c] = slots[head]]
  /\ head' = Advance(head)
  /\ count' = count - 1
  /\ lock' = Free
  /\ Goto(c, "handle")
  /\ UNCHANGED <<slots, tail, running, stopped, accepted>>

----------------------------------------------------------------------------
(* event_loop_stop: neither step takes the mutex.                           *)

Stop ==
  /\ running
  /\ running' = FALSE
  /\ UNCHANGED <<ring, stopped, lock, pc, got, accepted>>

Broadcast ==
  /\ ~running
  /\ ~stopped
  /\ stopped' = TRUE
  /\ pc' = [c \in Consumers |-> IF pc[c] = "wait" THEN "woken" ELSE pc[c]]
  /\ UNCHANGED <<ring, running, lock, got, accepted>>

----------------------------------------------------------------------------
\* What a consumer does of itself: everything but the spurious wakeup.
Consumer(c) ==
  \/ LoopTest(c) \/ Handle(c)
  \/ Acquire(c) \/ Park(c) \/ Wait(c) \/ Expire(c) \/ GiveUp(c)
  \/ ReturnEmpty(c) \/ Take(c)

Next ==
  \/ Push
  \/ \E c \in Consumers : Consumer(c) \/ Spurious(c)
  \/ Stop
  \/ Broadcast

\* The scheduler runs every consumer; nothing obliges anyone to push or stop.
\* A thread that has begun event_loop_stop finishes it.
Fairness ==
  /\ \A c \in Consumers : WF_vars(Consumer(c))
  /\ WF_vars(Broadcast)

Spec == Init /\ [][Next]_vars
FairSpec == Spec /\ Fairness

----------------------------------------------------------------------------
(* Properties.                                                              *)

TypeOK ==
  /\ slots \in [Index -> Events \cup {NoEvent}]
  /\ head \in Index
  /\ tail \in Index
  /\ count \in 0 .. Size
  /\ running \in BOOLEAN
  /\ stopped \in BOOLEAN
  /\ lock \in Consumers \cup {Free}
  /\ pc \in [Consumers -> Control]
  /\ got \in [Consumers -> Events \cup {NoEvent}]
  /\ accepted \in BOOLEAN

\* The three indices of the ring agree: the count is the distance from head
\* to tail around the ring, so no live slot is ever written over.
RingConsistent == tail = Slot(head, count)

\* The queue as its callers see it, the oldest event first.
Queued == [i \in 1 .. count |-> slots[Slot(head, i - 1)]]

\* The ring behaves as a bounded FIFO: events leave in the order they came,
\* each once, none is lost but those push refused, and push refuses only when
\* EVENT_QUEUE_SIZE events are queued.
Fifo == INSTANCE BoundedFifo WITH Capacity <- Size, q <- Queued
FifoSpec == Fifo!Spec

Live(i) == \E k \in 1 .. count : i = Slot(head, k - 1)

\* An event in the ring is handed to a consumer, or the loop is stopped: a
\* wakeup that goes to a thread which times out loses nobody's event.
EveryEventTaken == \A i \in Index : Live(i) ~> (~Live(i) \/ ~running)

\* After event_loop_stop every consumer leaves its loop, though the flag and
\* the broadcast are not under the mutex and a consumer may begin to wait
\* after the broadcast.
StopEndsTheLoop == ~running ~> (\A c \in Consumers : pc[c] = "done")
==============================================================================
