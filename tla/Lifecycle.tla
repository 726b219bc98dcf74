----------------------------- MODULE Lifecycle ------------------------------
(***************************************************************************)
(* The processes of Orcashi on one machine and the three files between     *)
(* them: daemon.pid, daemon.sock and state.json.                           *)
(*                                                                         *)
(* A client is a run of the command line (main.c, commands.c): it loads    *)
(* the state file, does its command, and saves what it loaded.  listen     *)
(* forks the daemon (daemon.c), named here after the client that forked    *)
(* it, with a copy of the client's memory.  A book stands for the contents *)
(* of g_peers: the number of changes made to it.                           *)
(*                                                                         *)
(* A process id is not used again, and only the daemon can crash.  Its     *)
(* P2P listener may lock itself out (DaemonFriends, ProcessStranger), and  *)
(* then a command that looks a peer up blocks the IPC thread, too.         *)
(* The names are kept apart from those of EventQueue, the daemon's other   *)
(* module, with which Daemon_proofs takes them up.                         *)
(***************************************************************************)
EXTENDS Naturals, FiniteSets

CONSTANTS
    Clients,    \* runs of the command line, numbered in the order they begin
    Nobody,     \* no such file, no such process
    Torn,       \* what is loaded from a state file that is not whole
    Hasty,      \* clients run at any time; others, when nothing is starting or stopping
    MaxBook,    \* bound: changes of the book
    MaxCrash    \* bound: crashes

ASSUME ClientsAssumption == Clients \subseteq Nat
ASSUME NobodyAssumption == Nobody \notin Clients
ASSUME TornAssumption == Torn \notin Nat
ASSUME HastyAssumption == Hasty \subseteq Clients
ASSUME BoundsAssumption == MaxBook \in Nat /\ MaxCrash \in Nat

Commands == {"listen", "stop", "other"}
Books == (0 .. MaxBook) \cup {Torn}
Processes == Clients \X {"client", "daemon"}

VARIABLES
    pidFile,    \* whose process id daemon.pid holds
    sockFile,   \* who bound the socket that daemon.sock names
    file,       \* contents of state.json
    writing,    \* a process in the middle of state_save, and whether another is too
    command,    \* what a client was run for
    place,      \* where the client is
    book,       \* its g_peers
    target,     \* the daemon it has found
    daemon,     \* where the daemon is
    told,       \* its g_running is false
    memory,     \* its g_peers
    stuck,      \* which of its threads waits for ever: "no", "listener", or "ipc" too
    raced,      \* history: a daemon was started while a start or a stop was under way
    changes,    \* changes so far
    crashes     \* crashes so far, for the bound only

files == <<pidFile, sockFile>>
client == <<command, place, book, target>>
server == <<daemon, told, memory, stuck>>
lifeVars == <<files, file, writing, client, server, raced, changes, crashes>>

LifeTypeOK ==
    /\ pidFile \in Clients \cup {Nobody}
    /\ sockFile \in Clients \cup {Nobody}
    /\ file \in Books
    /\ writing \in [Processes -> {"no", "alone", "mixed"}]
    /\ command \in [Clients -> Commands]
    /\ place \in [Clients -> {"new", "loaded", "start", "fork", "connect", "asked",
                           "kill", "interrupted", "poll", "save", "done"}]
    /\ book \in [Clients -> Books]
    /\ target \in [Clients -> Clients \cup {Nobody}]
    /\ daemon \in [Clients -> {"none", "init", "bind", "bound", "running",
                               "closing", "cleanup", "leaving", "done", "dead"}]
    /\ told \in [Clients -> BOOLEAN]
    /\ memory \in [Clients -> Books]
    /\ stuck \in [Clients -> {"no", "listener", "ipc"}]
    /\ raced \in BOOLEAN
    /\ changes \in 0 .. MaxBook
    /\ crashes \in 0 .. MaxCrash

LifeInit ==
    /\ pidFile = Nobody
    /\ sockFile = Nobody
    /\ file = 0
    /\ writing = [p \in Processes |-> "no"]
    /\ command = [c \in Clients |-> "other"]
    /\ place = [c \in Clients |-> "new"]
    /\ book = [c \in Clients |-> 0]
    /\ target = [c \in Clients |-> Nobody]
    /\ daemon = [c \in Clients |-> "none"]
    /\ told = [c \in Clients |-> FALSE]
    /\ memory = [c \in Clients |-> 0]
    /\ stuck = [c \in Clients |-> "no"]
    /\ raced = FALSE
    /\ changes = 0
    /\ crashes = 0

-----------------------------------------------------------------------------
(* Processes and files *)

Alive(d) == daemon[d] \notin {"none", "done", "dead"}

\* The pid file names a process that lives.
IsRunning == pidFile # Nobody /\ Alive(pidFile)

\* Nothing is starting, stopping or saving at a client's end.
Quiet ==
    /\ \A c \in Clients : place[c] \in {"new", "done"}
    /\ \A d \in Clients : Alive(d) => daemon[d] = "running" /\ ~told[d]

Go(c, next) == place' = [place EXCEPT ![c] = next]
Become(d, next) == daemon' = [daemon EXCEPT ![d] = next]

\* state_save: fopen(STATE_FILE, "w") empties the file, ...
SaveBegin(p) ==
    LET others == {q \in Processes : writing[q] # "no"} IN
    /\ writing[p] = "no"
    /\ file' = Torn
    /\ writing' = [q \in Processes |->
                     IF q = p THEN (IF others = {} THEN "alone" ELSE "mixed")
                     ELSE IF q \in others THEN "mixed" ELSE "no"]

\* ... and fclose writes the book b over whatever is there by then.
SaveEnd(p, b) ==
    /\ writing[p] # "no"
    /\ file' \in IF writing[p] = "alone" THEN {b} ELSE {b, Torn}
    /\ writing' = [writing EXCEPT ![p] = "no"]

-----------------------------------------------------------------------------
(* main.c, commands.c: a client *)

\* state_load skips what it cannot read: a file cut short gives some peers.
Loaded == file

\* state_init, for every command.
Load(c) ==
    /\ place[c] = "new"
    /\ \A b \in Clients : b < c => place[b] # "new"
    /\ c \in Hasty \/ Quiet
    /\ \E k \in Commands : command' = [command EXCEPT ![c] = k]
    /\ book' = [book EXCEPT ![c] = Loaded]
    /\ Go(c, "loaded")
    /\ UNCHANGED <<files, file, writing, target, server, raced, changes, crashes>>

\* cmd_listen: the daemon runs already, or daemon_start is called.
Listen(c) ==
    /\ place[c] = "loaded"
    /\ command[c] = "listen"
    /\ Go(c, IF IsRunning THEN "save" ELSE "start")
    /\ UNCHANGED <<files, file, writing, command, book, target, server, raced, changes, crashes>>

\* Another command is about to fork or to stop a daemon, or a daemon is on its way up or
\* down: the moments in which daemon_is_running may find none though there is one, or soon is.
Racing(c) ==
    \/ \E b \in Clients \ {c} : place[b] \in {"fork", "connect", "asked", "kill", "poll"}
    \/ \E d \in Clients : Alive(d) /\ (daemon[d] # "running" \/ told[d])

\* A slip: daemon_start takes the word of cmd_listen.
StartCheckNot(c) ==
    /\ place[c] = "start"
    /\ Go(c, "fork")
    /\ raced' = (raced \/ Racing(c))
    /\ UNCHANGED <<files, file, writing, command, book, target, server, changes, crashes>>

\* daemon_is_running in daemon_start looks again, and removes the pid file of
\* a process that is gone.
StartCheck(c) ==
    /\ place[c] = "start"
    /\ Go(c, IF IsRunning THEN "save" ELSE "fork")
    /\ pidFile' = IF IsRunning THEN pidFile ELSE Nobody
    /\ raced' = (raced \/ (~IsRunning /\ Racing(c)))
    /\ UNCHANGED <<sockFile, file, writing, command, book, target, server, changes, crashes>>

Fork(c) ==
    /\ place[c] = "fork"
    /\ Go(c, "save")
    /\ Become(c, "init")
    /\ memory' = [memory EXCEPT ![c] = book[c]]
    /\ UNCHANGED <<files, file, writing, command, book, target, told, stuck, raced,
                   changes, crashes>>

\* cmd_stop reads the pid file.
StopCommand(c) ==
    /\ place[c] = "loaded"
    /\ command[c] = "stop"
    /\ Go(c, IF IsRunning THEN "connect" ELSE "save")
    /\ target' = [target EXCEPT ![c] = IF IsRunning THEN pidFile ELSE Nobody]
    /\ UNCHANGED <<files, file, writing, command, book, server, raced, changes, crashes>>

\* command_send_to_daemon connects to whoever owns the socket and sends "stop".
Connect(c) ==
    /\ place[c] = "connect"
    /\ IF IsRunning /\ sockFile # Nobody /\ Alive(sockFile)
       THEN /\ Go(c, "asked")
            /\ target' = [target EXCEPT ![c] = sockFile]
       ELSE /\ Go(c, "kill")
            /\ UNCHANGED target
    /\ UNCHANGED <<files, file, writing, command, book, server, raced, changes, crashes>>

\* A slip: the daemon says goodbye and goes on.
StopAnsweredOnly(c) ==
    /\ place[c] = "asked"
    /\ daemon[target[c]] = "running"
    /\ Go(c, "save")
    /\ UNCHANGED <<files, file, writing, command, book, target, server, raced, changes, crashes>>

\* The daemon's IPC thread handles the request, unless it waits for g_p2p_mutex:
\* daemon_cmd_stop.  The client's read has no timeout.
StopAnswered(c) ==
    /\ place[c] = "asked"
    /\ daemon[target[c]] = "running" /\ stuck[target[c]] # "ipc"
    /\ told' = [told EXCEPT ![target[c]] = TRUE]
    /\ Go(c, "save")
    /\ UNCHANGED <<files, file, writing, command, book, target, daemon, memory, stuck, raced,
                   changes, crashes>>

\* The daemon ends without answering: read finds the end, or fails and
\* cmd_stop goes on to kill whom it found in the pid file.
StopUnanswered(c) ==
    /\ place[c] = "asked"
    /\ daemon[target[c]] \in {"closing", "cleanup", "leaving", "done", "dead"}
    /\ \/ Go(c, "save")
       \/ Go(c, "kill")
    /\ UNCHANGED <<files, file, writing, command, book, target, server, raced, changes, crashes>>

\* kill(pid, SIGTERM), and both files are removed.
Kill(c) ==
    /\ place[c] = "kill"
    /\ told' = [told EXCEPT ![target[c]] = told[target[c]] \/ Alive(target[c])]
    /\ pidFile' = Nobody
    /\ sockFile' = Nobody
    /\ Go(c, "save")
    /\ UNCHANGED <<file, writing, command, book, target, daemon, memory, stuck, raced,
                   changes, crashes>>

\* A command that leaves processes and files alone.
Other(c) ==
    /\ place[c] = "loaded"
    /\ command[c] = "other"
    /\ Go(c, "save")
    /\ UNCHANGED <<files, file, writing, command, book, target, server, raced, changes, crashes>>

\* Every command saves what it has loaded before it exits.
ClientSave(c) ==
    LET p == <<c, "client">> IN
    /\ place[c] = "save"
    /\ \/ SaveBegin(p) /\ UNCHANGED place
       \/ SaveEnd(p, book[c]) /\ Go(c, "done")
    /\ UNCHANGED <<files, command, book, target, server, raced, changes, crashes>>

\* Ctrl-C: main's signal_handler stops the daemon, whatever the command was.
Interrupt(c) ==
    /\ place[c] \in {"loaded", "start", "connect", "asked", "save"}
    /\ writing[<<c, "client">>] = "no"
    /\ Go(c, "interrupted")
    /\ UNCHANGED <<files, file, writing, command, book, target, server, raced, changes, crashes>>

\* daemon_is_running; daemon_stop sends SIGTERM.
InterruptStops(c) ==
    /\ place[c] = "interrupted"
    /\ IF IsRunning
       THEN /\ told' = [told EXCEPT ![pidFile] = TRUE]
            /\ target' = [target EXCEPT ![c] = pidFile]
            /\ Go(c, "poll")
            /\ UNCHANGED pidFile
       ELSE /\ pidFile' = Nobody
            /\ Go(c, "done")
            /\ UNCHANGED <<told, target>>
    /\ UNCHANGED <<sockFile, file, writing, command, book, daemon, memory, stuck, raced,
                   changes, crashes>>

\* daemon_stop polls ten times and removes both files, whether the daemon has
\* ended or not.
InterruptEnds(c) ==
    /\ place[c] = "poll"
    /\ pidFile' = Nobody
    /\ sockFile' = Nobody
    /\ Go(c, "done")
    /\ UNCHANGED <<file, writing, command, book, target, server, raced, changes, crashes>>

-----------------------------------------------------------------------------
(* daemon.c *)

\* A slip: the socket's name is left to the one who has it.
UnlinkSocketNot(d) ==
    /\ daemon[d] = "init"
    /\ Become(d, "bind")
    /\ UNCHANGED <<files, file, writing, client, told, memory, stuck, raced, changes, crashes>>

\* daemon_ipc_init removes the socket, whosever it is, ...
UnlinkSocket(d) ==
    /\ daemon[d] = "init"
    /\ sockFile' = Nobody
    /\ Become(d, "bind")
    /\ UNCHANGED <<pidFile, file, writing, client, told, memory, stuck, raced, changes, crashes>>

\* ... and binds it, which fails if there is one again.
BindSocket(d) ==
    /\ daemon[d] = "bind"
    /\ IF sockFile = Nobody
       THEN sockFile' = d /\ Become(d, "bound")
       ELSE UNCHANGED sockFile /\ Become(d, "leaving")
    /\ UNCHANGED <<pidFile, file, writing, client, told, memory, stuck, raced, changes, crashes>>

\* A slip: the pid is not written.
WritePidNot(d) ==
    /\ daemon[d] = "bound"
    /\ Become(d, "running")
    /\ UNCHANGED <<files, file, writing, client, told, memory, stuck, raced, changes, crashes>>

\* daemon_run writes the pid file and starts the threads.
WritePid(d) ==
    /\ daemon[d] = "bound"
    /\ pidFile' = d
    /\ Become(d, "running")
    /\ UNCHANGED <<sockFile, file, writing, client, told, memory, stuck, raced, changes, crashes>>

\* A thread of the daemon adds, removes or changes a peer.
Change(d) ==
    /\ daemon[d] = "running"
    /\ changes < MaxBook
    /\ changes' = changes + 1
    /\ memory' = [memory EXCEPT ![d] = changes + 1]
    /\ UNCHANGED <<files, file, writing, client, daemon, told, stuck, raced, crashes>>

\* A slip: the daemon saves when it ends only.
EventSaveNot(d) ==
    /\ daemon[d] = "running"
    /\ writing[<<d, "daemon">>] # "no"
    /\ SaveEnd(<<d, "daemon">>, memory[d])
    /\ UNCHANGED <<files, client, server, raced, changes, crashes>>

\* The event thread saves at every turn.
EventSave(d) ==
    LET p == <<d, "daemon">> IN
    /\ daemon[d] = "running"
    /\ \/ ~told[d] /\ SaveBegin(p)
       \/ SaveEnd(p, memory[d])
    /\ UNCHANGED <<files, client, server, raced, changes, crashes>>

\* A handshake from a peer that is not in the table: the listener waits for the mutex it
\* holds.  The thread runs from p2p_init until it is joined.
LockOut(d) ==
    /\ daemon[d] \in {"init", "bind", "bound", "running"}
    /\ stuck[d] = "no"
    /\ stuck' = [stuck EXCEPT ![d] = "listener"]
    /\ UNCHANGED <<files, file, writing, client, daemon, told, memory, raced, changes, crashes>>

\* A command that looks a peer up: the IPC thread waits for the listener's mutex.
BlockIpc(d) ==
    /\ daemon[d] = "running"
    /\ stuck[d] = "listener"
    /\ stuck' = [stuck EXCEPT ![d] = "ipc"]
    /\ UNCHANGED <<files, file, writing, client, daemon, told, memory, raced, changes, crashes>>

\* The loops have seen g_running and the threads are joined, the listener with
\* them: p2p_cleanup waits for ever for one that has locked itself out.
Close(d) ==
    /\ daemon[d] = "running"
    /\ told[d] /\ stuck[d] = "no"
    /\ writing[<<d, "daemon">>] = "no"
    /\ Become(d, "closing")
    /\ UNCHANGED <<files, file, writing, client, told, memory, stuck, raced, changes, crashes>>

\* daemon_cleanup saves, and so does main once daemon_start has returned.
LastSave(d) ==
    LET p == <<d, "daemon">> IN
    /\ daemon[d] \in {"closing", "leaving"}
    /\ \/ SaveBegin(p) /\ UNCHANGED daemon
       \/ SaveEnd(p, memory[d]) /\ Become(d, IF daemon[d] = "closing" THEN "cleanup" ELSE "done")
    /\ UNCHANGED <<files, client, told, memory, stuck, raced, changes, crashes>>

\* daemon_cleanup removes socket and pid file, whosever they are.
RemoveFiles(d) ==
    /\ daemon[d] = "cleanup"
    /\ sockFile' = Nobody
    /\ pidFile' = Nobody
    /\ Become(d, "leaving")
    /\ UNCHANGED <<file, writing, client, told, memory, stuck, raced, changes, crashes>>

\* kill -9, a power cut, a fault.
Crash(d) ==
    /\ Alive(d)
    /\ crashes < MaxCrash
    /\ crashes' = crashes + 1
    /\ Become(d, "dead")
    /\ writing' = [writing EXCEPT ![<<d, "daemon">>] = "no"]
    /\ UNCHANGED <<files, file, client, told, memory, stuck, raced, changes>>

-----------------------------------------------------------------------------
ClientStep(c) ==
    \/ Listen(c) \/ StartCheck(c) \/ Fork(c)
    \/ StopCommand(c) \/ Connect(c) \/ StopAnswered(c) \/ StopUnanswered(c) \/ Kill(c)
    \/ Other(c) \/ ClientSave(c)
    \/ InterruptStops(c) \/ InterruptEnds(c)

DaemonStep(d) ==
    \/ UnlinkSocket(d) \/ BindSocket(d) \/ WritePid(d)
    \/ EventSave(d) \/ Close(d) \/ LastSave(d) \/ RemoveFiles(d)

LifeNext ==
    \E c \in Clients :
        \/ Load(c) \/ Interrupt(c) \/ ClientStep(c)
        \/ DaemonStep(c) \/ Change(c) \/ Crash(c)
        \/ LockOut(c) \/ BlockIpc(c)

LifeSpec == LifeInit /\ [][LifeNext]_lifeVars

\* Processes run on, those of their threads at least that wait for no mutex.  A
\* command need not be given, interrupted or change anything, and nothing need crash
\* or be locked out.
LifeFairness ==
    \A c \in Clients : WF_lifeVars(ClientStep(c)) /\ WF_lifeVars(DaemonStep(c))

LifeFairSpec == LifeSpec /\ LifeFairness

-----------------------------------------------------------------------------
(* Properties *)

\* "Only ONE daemon can run at a time" (commands.c).
OneDaemon == Cardinality({d \in Clients : Alive(d)}) <= 1

\* There is one daemon, however the commands overlap and whatever files crashes leave
\* behind, as long as no daemon was started in the middle of another start or of a stop:
\* that is the one way to a second one.
OneUnlessRaced == ~raced => OneDaemon

\* Up to then, too: once nothing is starting or stopping, the daemon that runs can be
\* found and told to stop, for both files are its own; no late kill, no end of another
\* daemon has removed them.
Reachable ==
    \A d \in Clients : Quiet /\ daemon[d] = "running" => pidFile = d /\ sockFile = d

ReachableUnlessRaced == ~raced => Reachable

\* listen gives a running daemon, whatever files an earlier one has left,
\* unless the user or a crash stops it on its way, or it comes while a daemon is stopping:
\* then it finds that one and is content.
ListenWorks ==
    \A c \in Clients :
        place[c] = "loaded" /\ command[c] = "listen"
        ~> \/ \E d \in Clients : daemon[d] = "running" \/ (Alive(d) /\ told[d])
           \/ daemon[c] = "dead"
           \/ place[c] = "interrupted"
           \/ raced

\* The command that has found a daemon to stop is through, and the daemon has ended, or
\* its listener has locked itself out.
Stopped(c) ==
    \/ place[c] = "done" /\ daemon[target[c]] \in {"done", "dead"}
    \/ stuck[target[c]] # "no"

\* A daemon that is to stop ends, and so does the command that stops it: it comes back to
\* nothing being left to stop.  A daemon whose listener has locked itself out is another
\* matter: its end hangs in the join and, with the IPC thread blocked, so does the
\* command that asks.
StopStops == []<>(raced \/ \A c \in Clients : target[c] # Nobody => Stopped(c))

\* Commands write an outdated book over the file while a daemon runs; the
\* daemon puts it right again as long as it runs, and alone.
FileCatchesUp ==
    \A d \in Clients :
        <>[](daemon[d] = "running" /\ ~told[d] /\ ~raced) => []<>(file = memory[d])
=============================================================================
