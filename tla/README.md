# Orcashi in TLA+

Orcashi is a peer-to-peer messenger in C: a daemon keeps a list of friends, finds
peers in a DHT, opens a path to them through NATs and exchanges messages; a command
line talks to the daemon over a Unix socket. This directory holds TLA+ modules of the
parts whose correctness depends on the order in which threads, messages and users act,
the TLC configurations that check them, and proofs for any number of peers, events,
threads, strategies, TURN sessions, DHT nodes, and programs that share an identity.

All line numbers are those of `src/`.

## The system

| Component | State | Operations | Works with |
|---|---|---|---|
| `state_manager.c` | `g_peers` (dense array), `g_peer_count`, `g_ghost_messages`, under `g_state_mutex`; `state.json` | add, update, remove, get a peer; `state_set_*`; ghost add, deliver, count; save, load | everybody; pushes `GHOST_DELIVERED` events |
| `event_loop.c` | ring of 1024 events, head, tail, count, condition variable, `g_running` | push, pop with timeout, run, stop; one handler per event type | handlers call the state manager |
| `daemon.c` | pid file, Unix socket, `g_running`; no peer state of its own | one handler per user command; IPC, DHT, P2P and event threads | state manager, P2P, DHT |
| `p2p_manager.c` | table of connections and their states under `g_p2p_mutex`, one UDP socket | connect, accept, send; listener thread, keepalive thread | state manager, event queue, daemon's P2P thread reads the same socket |
| `parallel_runner.c` | one task with a result per strategy | `parallel_run`, cancel | strategy executors |
| `strategy_selector.c` | table of strategies | applicable, filter, sort | parallel runner |
| `simultaneous_open.c` | a session: state, token, TCP socket | connect, accept, punch, send, receive, close | the same code at the peer |
| `punch.c`, `ttl_punch.c` | a UDP socket for each technique | send, listen, try several techniques | the same code at the peer, over NATs |
| `friend_relay.c`, `turn_client.c` | tables of relay sessions | request, accept, refresh, expire | relays and peers |
| `dht_node.c`, `bootstrap.c` | a DHT node: its thread, and the result of the current lookup | start, announce, lookup, stop | `dht.c`; daemon, P2P and relay make nodes |
| `dht.c`, `dht_impl.c` | one library for the process: socket, buckets, searches, what others have announced | search, a datagram or a second has come, close | `dht_node.c`; the other nodes |
| `orca_identity.c` | six files of an identity | create, load, verify, save, reset | command line, daemon |
| `mixed_id.c` | none | encode, decode an id with an address, guess what a text is | command line, daemon |
| `nat_classifier.c`, `port_prediction.c` | the answers to the probes of one call | what kind of NAT, which port comes next | P2P, `punch.c` |
| `commands.c`, `orcashi.c` | none; edit `state.json` when no daemon answers | the commands | daemon, state manager |

What is hard here: the daemon runs seven threads, and most of what they do is a
*sequence* of short critical sections. The state manager hands out pointers into an
array that another thread compacts. An event carries what was true when it was queued,
and is applied later. The listener holds a mutex while it calls code that takes it.
Results of connection attempts are polled without a lock. `PROJECT.json` lists each such
hazard at its line, with the property about it.

What makes each component correct:

- *state manager*: one record a peer, no write outside the table or into another peer's
  record, counters that agree with the messages they count; after a restart the same.
- *event queue*: a bounded FIFO; nobody sleeps while an event waits; stop ends it.
- *daemon*: a friendship comes only from a request and a decision, a decision stays
  decided, every command is answered, messages stored for a peer reach it.
- *P2P*: a connection is established only after a handshake; a lock is never awaited by
  its holder.
- *parallel runner*: returns; a success is a real one, a failure is everybody's; no
  result is freed while a thread may write it.
- *identity*: a crash in a registration or a reset leaves nothing that is later taken for part of
  another identity, and a complete identity stays.
- *state file*: it ends up with what the running daemon knows.
- *punching*: two attempts that overlap do not both fail; all techniques together succeed when one has.
- *pure algorithms*: what is encoded comes back; both ends choose the same strategies; the port the NAT
  uses next is tried; a verdict depends on the answers and not on their order.
- *relay and TURN sessions*: one session a peer, released once, refreshed in time.
- *DHT*: a search ends, whoever does not answer, and not without the closest node that does; an announcement
  that counts as received was; a lookup returns nothing an earlier one left behind.

## The modules

| Module | Models | Extends or instantiates |
|---|---|---|
| `BoundedFifo` | what the event queue promises | |
| `EventQueue` | the ring, its mutex and condition variable, the consumers, stop | refines `BoundedFifo` |
| `PeerBook` | what the state manager promises | |
| `StateManager` | peer table, ghost store, the two-step setters, any number of callers | refines `PeerBook`, but for a write through a stale pointer |
| `DaemonFriends` | the daemon's threads over the peer table, the event queue and the connections | instantiates `StateManager` |
| `ParallelRunner` | `parallel_run`, its tasks, and cancel | |
| `Rendezvous` | what two programs are promised that open a connection to each other | |
| `SimOpen` | `simultaneous_open.c`: both ends and the TCP stream between them | refines `Rendezvous` |
| `FriendRelay` | `friend_relay.c`: nodes, their session tables, callers and listeners, and the network | |
| `TurnClient` | `turn_client.c`: the session table, the callers, one socket and the servers' answers | |
| `Lifecycle` | the runs of the command line, the daemon they start and stop, and the three files between them | |
| `NatPunch` | `punch.c`: two ends, their NATs and what is under way between them | |
| `IdentityStore` | the files of an identity, and the programs that register, log in and reset | |
| `DhtSearch` | the searches of `dht.c`, and the DHT nodes of `dht_node.c` that announce and look up with them | |
| `MixedId`, `Strategies`, `PortPrediction`, `NatClassifier` | pure algorithms, as operators | |
| `MC…` | constants for TLC; `MCParallelRunner` calls the four pure ones too, at the point where the strategies run | each the module of its name |
| `Daemon_proofs` | theorems | `EventQueue`, `Lifecycle`, `DaemonFriends`; instantiates `StateManager_proofs` |
| `Traversal_proofs` | theorems | `MCParallelRunner`, and with it `ParallelRunner` and the four pure ones; `NatPunch` |
| the other `…_proofs` | theorems | each the module of its name |

### EventQueue

`slots`, `head`, `tail`, `count` are the ring of `event_loop.c:34-41`. A push runs under
the mutex from end to end, so it is one action (`PushAccept`, `PushDrop`), and its
`pthread_cond_signal` wakes one waiter, any one. A pop is several: `Acquire` takes the
mutex, `Park` is the test at line 73 that decides to wait, `Wait` releases the mutex and
waits in one step, as POSIX promises; then a signal, a spurious wake-up (`Spurious`) or the
timeout (`Expire`) ends the wait. A timed-out pop returns without another look at the
count (84-87) — `GiveUp` — even when an event has come meanwhile. `Stop` and `Broadcast`
are separate and take no lock, as in `event_loop_stop`. Time is not modelled: a timed
wait may expire at any moment.

### StateManager

Every operation holds `g_state_mutex` throughout and is one action, but for the setters:
`state_get_peer` unlocks and returns a pointer (`GetPeer`), and the write comes under a
second lock (`SetField`). A pointer is a slot; `moved` is history and says that a removal
came since. Slots behind `peer_count` keep their old contents, as in the array. Records
keep the fields some code reads back: id, state, online, ip, port, ghost count.
Timestamps, names and the flags nobody reads are left out, and so is the text of a ghost
message. Identifiers are what `normalize_id` leaves, `NoId` the empty one.

### DaemonFriends

A thread runs a command, a datagram or an event as a list of calls, `todo[t]`. One step
does the first of them — a state-manager operation, a push, a lock, a piece of
`p2p_connect` — and the steps of different threads interleave. That is exactly what the
three mutexes allow. The listener and the keepalive hold `g_p2p_mutex` for a whole datagram
or round (`p2pLock`). A delivery holds `g_state_mutex` while it pushes an event for each ghost message
(`stateLock`, `state_manager.c:672`), and `event_queue_pop` holds the queue's while it takes an event out, and
lets it go before the event is handled (`queueLock`). Every other call takes its mutex and lets it go, and needs it to be
free. The commands that decide on a record they have a pointer to keep the
slot (`Read`) and look at the slot again later, whatever it holds by then.

- The IPC thread serves one client at a time, so there is one command at a time.
- The listener (`Receive`, `Process…`) locks, looks up the sender by its address, handles, unlocks. Whom a
  request or its answer is from, the payload says, and it may say anybody (`Process`). A message may also be refused
  (`ProcessRefused`). A handshake with a key in it, from an address outside the table, makes the listener lock again
  (`ProcessStranger`).
- The P2P thread of the daemon reads the same socket (`Steal`): what it gets becomes a
  message event without a sender, for which every handler returns at once.
- The keepalive may find a peer silent (`Visit`). Each keepalive that is sent refreshes
  `last_activity`, so in the code this needs sends that fail; the model lets it happen.
- The event thread pops and handles (`PopEvent`, `CallQueueUnlock`, and then the calls of the handler). `event_create` fills in `peer_id` only,
  so the confirmations pushed by the P2P code carry an empty sender, `NoId`.

Facts about the code that shape the model. `handle_handshake` verifies a signature over the receiver's own
name, with a key that would have to be 64 hexadecimal digits and PEM at once, so it always fails; only the
answer to a handshake establishes a connection. No code under `src/` sends the message types 6 to 8 (add
request, accept, reject), although the listener handles them: they come from other implementations of the
protocol, and are inputs. `search` looks a peer up only after some client has sent `listen` over the socket, which no
command of the shipped client does; the model has all three outcomes (`CmdSearch`).

`Saved` is what `state_load` finds. It reads each peer offline, because `state_save` writes
`true` and `false` and the loader scans a number.

### ParallelRunner

The caller is a sequence of steps — launch, poll, scan, join, finish — between which the
tasks run. A task writes `success` or `error_code` (`Succeed`, `Fail`) before its thread ends
(`End`), and the caller reads them with no lock. The scan stops at the first task that has a
result, and starts again from the first in the next turn, so it counts a failed task
again; that is the code's loop and the model's. `task_cancel` sets a flag that no executor reads, so it
is only named in a comment. Nothing in `src/` calls `parallel_run` yet. One call is modelled. Left out is `g_tasks`, the list that
`task_start` writes and nobody reads; its count is never reset (`parallel_runner.c:362`), so the calls of one process together
overrun it after 16 tasks.

### SimOpen

Two ends, each one thread with one `SimOpenSession`. `Process` is
`simultaneous_open_process_packet`: what a packet does to state and token, and what is answered. A round of the
retry loop is one step: either something is read (`Heard`) or nothing (`HeardNothing`: timeout, reset
or end of stream), and then the call returns, goes round again — a connecting end sends another SYNC — or
gives up and closes. TCP is a reliable stream without message boundaries: a `recv` takes any
number of packets from the front of `wire[e]`, and the code looks at the first only; what lies
behind it is gone. Before the connection is up a non-blocking send fails and the packet is lost. `close` is
seen by the peer as the end of the stream, or as a reset if packets were left unread, which may take
what was still under way with it (`CloseSocket`).
`Rendezvous` is what the two calls add up to. `Heard` is the read, the answer and the return in one: the code sends its
SYNC_ACK before it marks the session (`simultaneous_open.c:190-192`) and returns later (366-368), but nothing in between can fail, so a call
counts as having succeeded from its answer on.

Assumed: the random tokens of the two ends differ, and a packet of 16 bytes is not split by the stream.
When both ends connect — `simultaneous_open_punch` always does — each adopts the other's token, and
they need not agree; `TokensAgree` is about a connecting and an accepting end.

### FriendRelay

A node has one session table and one UDP socket. Its listener (`Listen…`) and its callers both
wait with `select` and then call `recvfrom`, which has no timeout: two threads may see one datagram,
and the second stays in `recvfrom` until another comes (`Robbed`). `relay_connect` is
several steps — `ConnectAtOnce` if it has nothing to wait for (the session is established already, 283-286, or
the table is full), else `Connect` up to the first unlock, `SendHandshake`, `AnswerReadable`, `ReceiveAnswer`,
`GenerateKeys` — because it keeps a pointer to its session, `slot[t]`, while it sends and waits without the
mutex. The listener adds a session for each handshake it accepts, without looking whether there is one,
under the `peer_id` the handshake names (788), which is the accepting node's own. `opened` is history: the peers with
whom a node has a session without having asked for it, by `relay_accept`, such a handshake or a response. When the cleanup begins,
the listener may still be in its `select`, and takes one datagram more (`ListenReadable`, `ListenReceive`). The
session id in an answer is read by nobody, so a datagram has none in the model. Packets with a header
(handshake, response, data, close) are sent by no code that works: `relay_send` dereferences `g_relay_mgr`,
which nothing sets (64, 444), and the process dies (`Send`). Such packets are inputs, from
other implementations.

The network loses (a datagram need never arrive), duplicates and reorders.

### TurnClient

All calls of a manager wait on one UDP socket, and nothing in an answer is compared with the request, so
`inbox` is one queue and `ReceiveAnswer` takes its head, whosever it is. `turn_connect` keeps a pointer
(`mine`) over its unlock and calls `turn_allocate`, which looks the session up again (`slot`), unlocks, sends and
waits with `select`; the answer is parsed into the session without the mutex, and the outcome is written
through the first pointer. A relay address is the number of the allocation the server made; an answer may
come without one, and then one that the session has from an earlier answer counts. `moved` is history: a
`turn_disconnect` compacted the array while a pointer to that slot or a later one was held. `turn_connect` to
a server nobody added leaves an IDLE session behind (`ConnectNowhere`). The code never expires a session, and
its listener thread is never started. The cleanup is modelled when no call is under way.

### Lifecycle

A client is one run of the program: `main` loads `state.json`, does a command and saves what it has
loaded, whether it changed anything or not. `listen` forks the daemon, which keeps the client's copy of the
peers (`state_init` in it returns at once). The steps are those between which another process
can act: reading the pid file, the second look in `daemon_start`, the fork, `unlink` and `bind` of the
socket, the writing of the pid file, which comes last; and the ending: threads joined, a last save, both files
removed. `fopen(…, "w")` empties the state file (`SaveBegin`) and `fclose` fills it (`SaveEnd`); who reads in
between, or dies in between, finds or leaves it `Torn`, and two who save at once may mix. A
book is the number of changes made to the peers, since only its age matters. The daemon dies (`Crash`) at any step and
leaves its files behind. `daemon_is_running` reads the file, probes the process and removes the file of a dead one (93-99) in
one step. `LockOut` is the listener's deadlock with itself (`ProcessStranger` of `DaemonFriends`), which may
befall any daemon: its end then hangs in the join of that thread (`Close` needs it not to have; `daemon.c:791`, `p2p_manager.c:251`), and
once a command has looked a peer up, so does its IPC thread (`BlockIpc`), so that `stop` gets no answer (`StopAnswered`).
`Interrupt` is Ctrl-C at a client, whose handler stops the daemon, whatever the
command was.

`raced` is history: a daemon was started (`StartCheck` found none) while another command was about to fork or stop one, or while a
daemon was on its way up or down (`Racing`). The code does nothing against that, and it is the only way to a second daemon or to one that
its files do not find: `OneUnlessRaced`, `ReachableUnlessRaced`. Two `listen` commands given at once do start two daemons, which both
find no pid file in `StartCheck`; `OneDaemon` alone is false. The liveness properties, too, hold up to a race. A command of a client in `Hasty` may be given at any time,
those of the others when nothing is starting or stopping, which only keeps the number of states down: the theorems are for any `Hasty`. Assumed: a process id is
not used again, a client does not crash and is not interrupted in the middle of a save.

### NatPunch

An end is a call with the list of techniques it still tries (`todo`), each with a socket on a port of its own.
`Send` and `HearNothing` are the two loops of `punch_try_connect` and `punch_punch`: punches first, then as
many waits of two seconds as there are retries, with another punch in every third (`SendsAgain`). `punch_listen` takes
one datagram, and any of four texts is a success whoever sent it. `punch_multi_strategy` goes through its techniques one
after the other — `punch.h:81` says *in parallel* — and goes on after a success. A NAT lets in what comes
from where its own port has sent to (`holes`); a datagram comes at once, or later, or never (`wire`).

Facts of the code that shape the model: the end that hears first returns and stops sending, so the other may fail, and no
answer is sent to a punch. A punch with a TTL is sent from a socket opened for it alone (`punch.c:134`), so it opens the NAT for a
port nobody listens on. `p2p_connect` looks for the peer at the port the DHT knows (`daemon.c:322-325`), at
which no socket of `punch.c` listens; therefore a target may be a port without a socket. A `sendto` that fails is taken for a punch that is held
up for ever, of which `NotBothFail` says nothing. `simultaneous_open_punch` and
`port_predictor_punch` have modules of their own, and here they just succeed or fail (`Elsewhere`).

### IdentityStore

A program is one run of the command line that registers, logs in or resets; two may run at once, and
one may die at any step. Files are written one after the other, each emptied by `fopen` and filled by
`fclose` (an identity is smaller than the buffer, so in one write); a reset deletes them one after the other. `Accepted` is
what `cmd_register` takes for a confirmed passcode: both are read into one static buffer (`commands.c:24`), so it compares the
second with itself, and a mistyped confirmation goes through. `Verifies` is what a login compares:
that salt, keys and passcode belong together; the id and its signature are not looked at.
`cmd_reset` loads the identity without a passcode (`commands.c:398`), which fails for each SECURE one; so a reset works only on an
*empty* `identity.json`, as a crash leaves it, although `commands.c:232` recommends it. `clash` is history: two
programs that change files overlapped. Two registrations at once do mix their files; the properties are for those
that do not overlap, while logins overlap with everything. Left out are identities in directories of their own, which
`load_by_id` and `change_passcode` look for and nothing creates.

### DhtSearch

`dht.c` keeps one search for an id, however often the id is searched for. Its node list is sorted by
distance and cut off at `SEARCH_NODES`, so the model has the set of its nodes and computes an order when one is
needed (`Closest`, `Farthest`). What is known of a node — how often it was asked in vain, whether it
replied, gave a token, acknowledged — goes with its place on the list (`Keep`), as
`insert_search_node` clears a place that it fills. `SearchStep` ends the search, announces or asks; `DhtSearch`
makes a search or makes an old one new (`Renewed`); `ReceiveNodes` and `ReceiveAnnounced` are the two
answers, and what they call: a node that has answered anything is offered to every search (`Added`).
The answers say which search they are for, but not which time that search was made, so late ones count.

`Listen`, `SearchCommand` and `ConnectCommand` are the calls of the daemon and of P2P, and `Announce`, `BeginLookup` and
`EndLookup` those of the node, in which the thread of the library runs. Only one node at a time can have the library: while the
daemon's has it, the nodes that `p2p_connect`, `p2p_get_peer_capability` and the relay make for
themselves cannot start (`ConnectRefused`). `running` and `open` tell the two apart. `lookup.fresh` is history.

Time passes in steps of the retransmission interval (`Tick`): every request under way is then old enough to be repeated and every search
that is not done is due, while the code counts the seconds for each of them apart (`dht.c:1885`). A datagram that is lost stays in `net`
for ever; one that arrives twice is not modelled, since an answer is to a request and requests are repeated.
The other nodes answer as this one does (`Answer`).

Facts of the code: `bootstrap_init` is called by nobody, so a library that is opened knows no node until one asks it something
(`ReceiveRequest`); the announcement comes at once, finds an empty list, is done, and is not repeated, although
`daemon.c:333` says it was made. A lookup of the same id takes the announcement's port away
(`dht.c:1128`). The callback does not look at the id an answer is for (`dht_node.c:191`), so the answer to an earlier lookup
that comes late ends a later one: what is promised, and checked, is `FreshAnswer`, that the answer *came* since the call.
The library takes no lock, and its calls from two threads are taken as not overlapping.

### MixedId, Strategies, PortPrediction, NatClassifier

Pure functions. A loop that carries a result from turn to turn (the received datagrams, the sum and the probes of a prediction, the filter,
the bubble sort's rounds) is a recursive function of its turns. A text is the sequence of its dotted numbers, and texts with other characters are left
out. A prediction is the set of ports the code may come to, since one branch calls `rand` and another
computes with floats. What a probe meets is a parameter, and each call of a probe has its own, as the
gateway may answer once and not the next time. `nat_classify_via_stun` is called by nobody; the firewall test stands
alone, and is left out.

`NextPortIsTried` is about a NAT whose next port is a little above the last. It is proved for steps up to 7
(`StridesAssumption`); with
steps of 9 the slope of the fitted line may be just below its bound while the next step is beyond the range scanned.

## What TLC checks

| Run | Instance | Shows |
|---|---|---|
| `queue` | 2 slots, 2 events, 2 consumers | the ring implements `BoundedFifo` (`FifoSpec`), an event in the ring is taken, `event_loop_stop` ends every loop |
| `peer_table` | 2 slots, 3 ids, 2 ghosts, 2 threads | `GhostCountSound`, `OnlyRemovalInvalidates`; but for a write through a stale pointer, the array implements `PeerBook` (`BookSpec`) |
| `daemon` | 2 peers, one of them in the state file with a request sent; 2 commands, 2 datagrams, 1 keepalive round | `AcceptedHadAsked`: `accept` befriends only a peer that waits for an answer, unless a removal has moved the record; `CommandsAnswered`: only the listener's deadlock with itself can hang a command; `EventsHandled`: and not even that, nor the mutexes of state and queue, keeps an event from being handled |
| `ghosts_wait` | 1 peer | violated: ghost messages wait for ever for a peer that is online |
| `sim_open` | 3 rounds, 1 data packet each, every pair of roles | `MeetingSpec`: it implements `Rendezvous`; `TokensAgree`; `CallsReturn`; `HalfOpenEnds`: nobody keeps a connection its peer has left |
| `relay` | 2 nodes, a caller each with 2 and 1 calls, 2 slots, 1 duplicate or foreign packet | `SuccessWasAnswered`: a success is an answered handshake, or a session opened from elsewhere; `WritesOwnSession`: the pointer kept without the mutex; `CallsReturn`, but for the one race |
| `turn` | 3 peers, 2 slots, 2 callers with 2 and 1 calls, 2 allocations, 1 duplicate or foreign datagram | `EstablishedHasRelay`, `OneSessionAnAllocation`: what mixed-up answers cannot do; `CallsReturn`, but for the one race |
| `lifecycle` | 3 commands, the second of them at any time (`Hasty`), 1 crash, 1 change; up to the first race (`UpToARace`) | `OneUnlessRaced`, `ReachableUnlessRaced`; `ListenWorks`; `StopStops`, unless the daemon's listener has locked itself out; `FileCatchesUp`: the state file ends up with the running daemon's book |
| `parallel` | 3 strategies, the last a stub; and for the algorithms, ids, octets and ports about their limits, all profiles, 3 to 6 observed ports, up to 4 datagrams | nothing freed too early, `SuccessIsReal`, `Returns`; `MixedIdsRoundTrip`, `StrategiesAgree`, `NextPortIsTried`, `VerdictsAreEarned` |
| `punch` | 4 turns, 2 first punches, 1 TTL, 1 foreign datagram; four calls | `NotBothFail` unless a datagram is held up; `CallsReturn` |
| `identity` | 2 programs, 2 registrations, 4 commands, 1 crash | `NeverMixed`, `LoadedWhole`, `IdentityKept` |
| `dht` | 3 nodes, one of which never answers and another asks of its own; a list of 2, 3 commands | `FreshAnswer`, `AckedIsStored`; `EndsAtClosest`: no search ends without the closest node that answers; `EverySearchEnds` |

The violated property says what a message of the code says: "Will be delivered when peer comes online"
(`daemon.c:594`). The finding in `PROJECT.json` has the line at fault.

*Bounds.* A ring of two slots wraps, fills and empties, and two consumers are enough for one
to sleep while the other takes its event. Two slots and three ids make the table full
with a peer outside; removing the first shifts the second; the stale copy behind the
end is there. Two threads are enough for a removal between the halves of a setter: the model has that write into another peer's record. In the
daemon, two commands, two datagrams and a keepalive round put all four threads to work at
once and let each overtake every other; the confirmation of a friend with a ghost message
fills the queue of two, and the keepalive's event finds it full. Three rounds let an end resend twice, so that an answer can meet a later SYNC. Two relay nodes with two slots can fill a table, and let a handshake cross a
connect, an answer come late for the next call, and a duplicate be taken by the wrong thread; one datagram in a receive buffer is enough for two threads to see it. With three TURN peers and two slots the table
fills, a caller's answer can be taken by the other, and a disconnect can move the table under a call. Three commands are a start, a stop and a start again over what
a crash left, and the one in `Hasty` overlaps with either of the others. The states after a race are not explored further, which loses nothing: `raced` is never
reset, and every property of the run is true once it is set. Three strategies give a winner, a loser and one that is still running. Four turns of listening let an end punch again
twice, and one noise datagram can be in front of a punch. Two programs, one crash and two registrations let a second registration
or a login meet what a dead one left, and four commands let a reset come between.
Three DHT nodes and a list of two let a list overflow and a node come back to it with nothing known of it; two requests are enough for a silent one
to be given up; three commands let an announcement be looked up, or a search be made new while answers are under way. One id is enough for that,
as searches for different ones meet only in `lookup`; the same run with two ids and one request a node (446,772 states) finds nothing either.

*Deadlock* is checked for the queue and the peer table. `DaemonFriends`, `ParallelRunner`, `SimOpen`, `FriendRelay`, `TurnClient`, `Lifecycle`, `NatPunch`, `IdentityStore` and `DhtSearch`
end: the first when the bounded inputs are used up, or when the listener waits for itself; the
second when it has returned; the third when both ends have closed or failed; the others when the bounded calls or commands are used up and nothing runs.

*Fairness.* Each thread that can take a step of its own takes one: the operating system
schedules it. A command or a datagram need never come (`Receive` and `Command` are fair only
in the middle of their work), events need not be pushed, and nobody need stop the loop.
Every executor ends, because its sockets have timeouts and the stubs return at once.
In `SimOpen` a call that has begun goes on, since all its waits are bounded, and a program with an open
session reads from it; nobody need call, send or close, and the link need not come up.
In `FriendRelay` and `TurnClient` a thread that can take its next step does, so a `select` ends by its timeout; nothing need arrive, and nobody
need call. In `NatPunch` a call that has begun goes on, since every wait in it has a timeout; no datagram need arrive.
In `Lifecycle` every process runs on, but for the threads of a daemon that wait for `g_p2p_mutex` after its listener has locked itself out; commands,
interrupts, changes, crashes and lock-outs need not come.
In `DhtSearch` the library's thread runs, so time passes and a search whose time has come does its step; no datagram need arrive, no node answer, nobody call.
Only weak fairness is assumed. `CommandsAnswered` makes one exception,
`SelfDeadlock`: the listener waiting for the mutex it holds. It says that this is the *only* way a
command can hang on `g_p2p_mutex`; and `EventsHandled` says that events are handled even then. The steps that take a mutex are
fair only while it is free: weak fairness is enough, since each holder lets go and the inputs are bounded. With the bounded inputs, that every event is handled comes
to this: the queue is empty and its thread idle again.

*Mutants.* Each passing property has a slip of the code it refutes, written beside the operator
it replaces ("A slip: …"); no specification uses them.

## What is proved

`Daemon_proofs` is about three modules. The first is `EventQueue`, for every `Size > 0`, any set of consumers and of events:
`RingSafe` is the inductive invariant: types, the indices' relation, and who holds the
mutex — a consumer between its test and its wait or take is its holder, so the count it tested
is the count it takes from. From it follow `TypeCorrect`, `IndicesAgree` and `RingIsFifo`, the refinement of
`BoundedFifo`: a push appends to `Queued`, a take removes its head, and no other step changes it.
The arithmetic of the ring is in a few lemmas about `Slot`.

The second is `Lifecycle`, for any number of clients, daemons, crashes, lock-outs and changes, however the commands overlap. `UntilARace` proves the invariant `LifeInv`: the types;
that what a stopping client has found is a process that was (`Found`); and, while nothing has raced, `Unraced`. Its parts: one daemon lives (`OneLives`); a client
forks once, and its daemon is in no pid file before it runs (`ForksOnce`); who is about to fork sees no daemon alive and nobody else forking or stopping one (`ForksAlone`);
while a daemon starts, nobody forks or stops one, and the socket is gone or its own (`StartsAlone`); a daemon that has started, and was told nothing, owns both files (`OwnsFiles`); who
is stopping a daemon stops the one that lives (`Knows`). The parts need each other: the daemon owns the files because no
stop that is still at work can remove them, and none is, because who starts a daemon while one is has raced. A start that finds no daemon and does not race is what gives
`ForksAlone`: it needs that a daemon which lives, runs and was told nothing is in the pid file, which is `OwnsFiles`. From it follow `OneUntilARace` and
`ReachableUntilARace`; `LifeTypeCorrect` holds after a race, too.

The third is `DaemonFriends`, for any peers, loaded or not, any size of the table and the queue and any number of inputs. The invariant, `FriendsInv`, needs that what a thread has still to do are calls with arguments of
their types (`todo`, in the type invariant), and that a thread has a pointer only while the call in front is a setter (`SettersHold`): without it a command could begin while its thread is in the middle of one.
A command keeps the *slot* of a record, and that it is a slot of the table needs the search to find one, which is a fact about the table. So the invariant also has what `StateManager_proofs` proves of
it, and that is not proved again: the module is instantiated with the daemon's threads for callers (`Proved`), and `TableStep` takes its step
over. From it follow `FriendsTypeCorrect` and `FriendsKept`: in the running daemon, on whatever peers it has loaded, no two records are of one peer, and a pointer is good unless a removal came
since. `FriendsBook` carries the book of peers over likewise: a step of a thread does to it what an operation is asked to do, or nothing, or writes through a stale pointer.
`FriendsCounts`, the sound ghost counters, has a hypothesis: that the counters of the state file are zero. `state_save` writes the counters and not the
messages, so after a restart with messages waiting they do claim messages that are gone.

`StateManager_proofs`, for any table size, any number of threads and any identifiers:
`Safety` proves one invariant: types, unique ids, the counters' bound, and pointers that
are good unless a removal came since. The parts need each other: the counters' bound survives a removal
because ids are unique, and a setter that writes through a stale pointer
does no harm to ids and counters because the pointer stays inside the array. From it follow
`OneRecordAPeer`, `PointersOutliveAllButRemoval`, `GhostCountsAreBacked` and `TypeCorrect`. `ImplementsBook` is the refinement of
`PeerBook`: each operation is one of the book or changes nothing there, but for a setter that writes through a pointer a removal has made stale. The
array is a function from ids to records because ids are unique (`BookIsFunction`), and a removal, which shifts the rest of
the array, takes one id from its domain and no more.

`Traversal_proofs` is about six. `ParallelRunner`, for any number of strategies and any stubs: the invariant says how far the
join has come, that the winner is a task that succeeded, and that no more completions are
counted than tasks started. From it follow `FreedSafely`, `SuccessReal` and `TypeCorrect`; with a second
invariant about why the polling ended, `GivesUp`. `MixedId`: `MixedIdRoundTrips` and `MixedIds`, that a mixed id comes back as the id, address and
port it was made of, for all of them; it rests on the lemma about packing two octets in 16 bits.
`NatPunch`, for any number of first punches, turns and calls: `PunchInv` says that the udp port is tried once, and first (`Ordered`); that whoever has
punched has opened its own NAT (`Opened`); and of attempts in which no datagram was held up (`Met`), that when both ends have punched one
has a punch in its buffer, and that once they have overlapped one end has heard or has fewer datagrams in front of the punch than turns left. The last part is
what is wanted, and the one before says why it comes true: the later of the two first punches finds the NAT and the socket of the peer open. From it follow `OneHears` and `PunchTypeCorrect`.

Its second half is about the other three algorithms, which are loops. A loop is a recursive function of its turns, and the induction is stated
over a set of turns, not over a predicate: a set that has the first turn, and with each turn the next, has them all (`EveryTurn`, from the least number that
is not in it). `Recursion` says that such a function exists and does what its equation says, `OnlyOne` that no other does.

`StrategiesAgree` (`Agreement`) is proved for all profiles in three parts. What may be used between two ends is the same from either side
(`BothAgree`), and the filter lists it without repetition. The bubble sort neither loses nor repeats a type, and after each round one more is settled
at the end, none before it above it (`RoundSettles`, `SortSorts`), so any list of different types comes out in the order of priority
(`SortedInOrder`). Of given types only one list is in that order, as priorities differ: so whatever order the applicable strategies are given in, the sort
makes the filter's list of them (`AnyList`).

`NextPortIsTried` (`NextPort`, from `NextTried`) holds for any 3 to 6 ports, each between 1 and `step` above the one before, wherever they
lie in the range of ports. In all patterns but the fitted line, and in the roll, the predicted port is a step, or at most 5, from the last, and that is in reach of the next
port as the steps are short. On the fitted line the forecast is off by at most 4/3 of the step less one, and one more for rounding (`LineOfFour`,
`LineOfFive`, `LineOfSix`): that, against `Reach`, is where `StridesAssumption` comes from.

`VerdictsAreEarned` (`Verdicts`) rests on `AnyOrder`, for any number of datagrams of any kind: the verdict is by the sets of addresses and ports that the answers
came from, since counting those that differ from the first tells whether there is one or more than one, whichever is the first (`ManyOrOne`). And it rests on `Earned`, of all
fates of the probes: ninety percent need a gateway that was found twice, and a type is known just when something was found.

`FriendRelay_proofs`, for any number of nodes, callers, slots and packets: the invariant of `SuccessAnswered` (`Answers`) follows
an answer from the handshake it is for: on its way, in a buffer or received, it says that the handshake was accepted. Beside it stands `Established`: a session
in the table that is established was answered or opened from elsewhere, for `relay_connect` reports success at once when it finds one. That of `OwnSessionsWritten` is about the
pointer kept without the mutex (`OwnPointers`): it is to a session in the table, of the peer the call is for. The listener adds sessions behind the others and
moves none; a disconnect does move them, so the theorem has the hypothesis `OneCaller`: no two callers share a node, as in the run, since
two that do may write into each other's sessions. `TypeCorrect` says beside the types that the table is never overrun.

`TurnClient_proofs`, for any number of callers, peers, slots and allocations: `Inv` has two parts beside the types.
`Calls` says that a peer has one session, that until a disconnect moves the table both pointers of a
call are to that session, and that a call which has succeeded has an address there; without the first two, an
address found through one pointer says nothing of the session the other marks as established.
`GivenOnce` says that an allocation is in one answer under way or in one session, and none is above the number made. From
them follow `EstablishedSessionsHaveRelays`, `AllocationsAreNotShared` and `TypeCorrect`.

`IdentityStore_proofs`, for any number of programs, registrations, runs and crashes: the invariant `Inv` has the types,
`Places` (where in the list of files each program may be) and, while no two changes have overlapped, `Kept`: one program changes
files at a time; identity.json comes first, so that while it is absent or empty nothing else is there, and once it holds a
registration nothing but parts of that one; a program that saves has written what is before its place in the list and nothing behind it;
what a login has read belongs to the registration identity.json still holds. Each part needs the others: a reset begins only with an empty
identity.json, so it deletes nothing of a registration, and therefore what a login has read stays true. From it follow `NeverMixedHolds`, `LoadedWholeHolds`,
`IdentityKeptHolds` and `TypeCorrect`.

`DhtSearch_proofs`, for any nodes, ids, distances and limits: `Inv` has the types and, for each search, `Good`: who replied and gives
tokens has given one, and a node that gives tokens and counts as having acknowledged has the announcement. The first part is needed because
`search_step` counts a node without a token as one that has acknowledged; the second, because lists are cut off and made new while answers
are under way, needs that an acknowledgement under way is of an announcement that has arrived. From them follow `AcknowledgedHaveIt`,
`AnswersAreFresh` and `TypeCorrect`; `LibraryHasOneNode` is inductive by itself. `EndsThere`, that no search ends without the closest node that answers,
has an invariant of its own (`Led`): a node that has replied is on the list and answers, and unless it is the closest of those that answer, so does a
closer one. For the nodes it names are put on the list before its reply counts, and what pushes them out is closer still. It has the hypothesis
`LeadsCloser`, that a node which is not the closest names one that is closer: what Kademlia rests on and this code cannot see to. `MCDhtSearch` assumes it
of its nodes, and TLC evaluates that.

`SimOpen_proofs`, for any number of rounds and of data packets: `Inv` bounds, beside the types, which packets may be on their way
to an end (`Allowed`). An accepting end sends nothing before it is established, and never a SYNC; towards it a connecting end sends
nothing but SYNCs of its own token until its call has returned. Therefore an accepting end that hears anything is established with the
connecting end's token, and a connecting end that hears anything knows that the accepting call has succeeded. `Replies` says this of one packet,
`Waited` of one round; each action carries it on, because what was allowed stays so as the calls proceed (`AllowedGrows`).
From it follow `OneToken`, `TypeCorrect` and `CallsMeet`, the refinement of `Rendezvous`.

The assumptions are the named ones of the modules: sizes are positive, `NoId` and `NoEvent` are
not among the values they stand beside, ports are positive numbers, an id's distances are all different, the number of registrations is a natural number. Of
predictions: the lowest port is positive and not above the highest, and the ports tried reach at least 4 beyond the last (in the code 10); of the
NAT that `NextPortIsTried` is about, that its steps are at most `1 + 3 * (Reach - 1) / 4`, which with the code's reach is 7.

*Only model-checked*: liveness, since the prover does not do fairness (`EveryEventTaken`, `StopEndsTheLoop`, `CommandsAnswered`, `EventsHandled`, `Returns`,
`ListenWorks`, `StopStops`, `FileCatchesUp`, `HalfOpenEnds`, `EverySearchEnds`, and `CallsReturn` of four modules), and `AcceptedHadAsked`, which needs the pointer of one thread and the calls of
all. Every other invariant or action property of a passing run is the subject of a theorem.

## Not modelled, and why

Of `dht.c`: the buckets (with fewer than 128 nodes there is one, and it refuses nobody), the `find_node` requests that maintain them
(1555-1642) and the nodes their answers add to searches and table (1691-1713), what
expires after an hour, tokens' secrets, the limits on searches and stored peers, and the parsing and printing of messages. The announcement
that is signed (`dht_node_announce_secure`) is reached by no caller. `dht_impl.c` is a hash, random
bytes and a list of addresses nothing is added to. The cryptography is numerical code over buffers. The
logger and what is printed have no bearing on behaviour. UPnP is a sequence of probes whose
outcome is the network's. `ttl_punch.c` is called by nobody, and of `orcashi.c` only `orcashi_get_local_ip` is: the
rest are one-line commands to the daemon, some of which (calls and notes) it does not know. In `orca_identity.c` the
functions on a directory for each id (list, delete, change of passcode) work on directories nothing creates.

The session keys of a P2P connection, and what would be sent under them, are not modelled because no run of the code gets there:
`handle_handshake` verifies the signature over its own name, key and clock and not the sender's, and `generate_session_keys`
reads as 64 hexadecimal digits the key that had to be a PEM for the signature. The model has the refusal (`ProcessRefused`)
and the ways that do lead to an established connection. The chat history (`state_add_message`) fills a buffer that nobody
reads. `g_tasks` of `parallel_runner.c` is only written. A relay's announcements and the discovery of relays use a DHT node of their own on another port, but nobody calls
`relay_manager_enable_relay` or `relay_discover_peers`; the table of TURN servers is filled once and only read.

## Plan

1. The ghost store over a restart, when the counters are saved and the messages are not.
2. The reply to the user when the ghost store is full.
3. The overwriting of a peer's state in `p2p_connect` (hazard at `p2p_manager.c:349`) against a peer that
   does complete a handshake, should `handle_handshake` be made to verify the sender's data.

The proofs take in what is in reach of the provers; new parts bring their own theorems. Bounds as above: two or three of everything that can interleave, one more than
a capacity of what can fill it.
