----------------------------- MODULE TurnClient -----------------------------
(***************************************************************************)
(* src/turn_client.c: relay allocations at TURN servers.                   *)
(*                                                                         *)
(* A manager has a dense array of sessions under a mutex and one UDP       *)
(* socket, on which every turn_allocate waits for its answer: it takes the *)
(* first datagram there is, and an answer carries nothing that the code    *)
(* compares with the request.  turn_connect and turn_allocate each keep a  *)
(* pointer into the array when they release the mutex.                     *)
(*                                                                         *)
(* The listener thread is never started.  turn_send and the readers change *)
(* nothing.  The lifetime of an allocation is read by nobody.              *)
(***************************************************************************)
EXTENDS Naturals, Sequences

CONSTANTS
    Peers,        \* peer ids
    NoPeer,       \* the empty peer_id of a slot not used yet
    Callers,      \* threads that call turn_*
    MaxSessions,  \* TURN_MAX_SESSIONS
    MaxCalls,     \* bound: calls of each caller
    MaxRelay,     \* bound: allocations the servers make
    MaxInbox,     \* bound: datagrams in the socket's receive buffer
    MaxNoise      \* bound: duplicated datagrams and datagrams of others

ASSUME NoPeerAssumption == NoPeer \notin Peers
ASSUME SessionsAssumption == MaxSessions \in Nat \ {0}
ASSUME BoundsAssumption ==
    MaxCalls \in [Callers -> Nat] /\ MaxRelay \in Nat /\ MaxInbox \in Nat /\ MaxNoise \in Nat

Slots == 1 .. MaxSessions
States == {"IDLE", "CONNECTING", "ESTABLISHED", "CLOSED", "ERROR"}

\* A relay address is the number of its allocation; 0 is none.
Relays == 0 .. MaxRelay
Session == [peer : Peers \cup {NoPeer}, state : States, relay : Relays]
New(p, st) == [peer |-> p, state |-> st, relay |-> 0]

\* What arrives at the socket; an ALLOCATED may come without an address.
Datagram == [kind : {"ALLOCATED", "REFUSED", "REFRESHED", "DATA"}, relay : Relays]
Plain(k) == [kind |-> k, relay |-> 0]

VARIABLES
    sessions,   \* mgr->sessions
    count,      \* mgr->count
    open,       \* mgr->initialized
    requests,   \* allocate and refresh requests the servers have not answered
    inbox,      \* the socket's receive buffer
    allocated,  \* allocations made so far
    pc,         \* where a caller is in its call
    direct,     \* its call is turn_allocate, not turn_connect
    peer,       \* the peer_id of its call
    mine,       \* turn_connect's pointer to a session
    slot,       \* turn_allocate's pointer to a session
    calls,      \* calls made, for the bound only
    duplicates, \* datagrams duplicated so far
    noise,      \* datagrams of others so far, for the bound only
    moved       \* history: a disconnect has moved the table under a call

table == <<sessions, count, open>>
network == <<requests, inbox, allocated, duplicates, noise>>
call == <<pc, direct, peer, mine, slot>>
vars == <<table, network, call, calls, moved>>

TypeOK ==
    /\ sessions \in [Slots -> Session]
    /\ count \in 0 .. MaxSessions
    /\ open \in BOOLEAN
    /\ requests \in [{"ALLOCATE", "REFRESH"} -> Nat]
    /\ inbox \in Seq(Datagram) /\ Len(inbox) <= MaxInbox
    /\ allocated \in Relays
    /\ pc \in [Callers -> {"idle", "allocate", "select", "recv", "succeeded", "failed"}]
    /\ direct \in [Callers -> BOOLEAN]
    /\ peer \in [Callers -> Peers \cup {NoPeer}]
    /\ mine \in [Callers -> Slots]
    /\ slot \in [Callers -> Slots]
    /\ calls \in [Callers -> Nat] /\ \A t \in Callers : calls[t] <= MaxCalls[t]
    /\ duplicates \in Nat /\ noise \in Nat /\ duplicates + noise <= MaxNoise
    /\ moved \in BOOLEAN

Init ==
    /\ sessions = [i \in Slots |-> New(NoPeer, "IDLE")]
    /\ count = 0
    /\ open = TRUE
    /\ requests = [k \in {"ALLOCATE", "REFRESH"} |-> 0]
    /\ inbox = << >>
    /\ allocated = 0
    /\ pc = [t \in Callers |-> "idle"]
    /\ direct = [t \in Callers |-> FALSE]
    /\ peer = [t \in Callers |-> NoPeer]
    /\ mine = [t \in Callers |-> 1]
    /\ slot = [t \in Callers |-> 1]
    /\ calls = [t \in Callers |-> 0]
    /\ duplicates = 0
    /\ noise = 0
    /\ moved = FALSE

-----------------------------------------------------------------------------
(* The session table *)

Live == 1 .. count

\* turn_find_session: the first with that id.
Found(i, p) ==
    /\ i \in Live
    /\ sessions[i].peer = p
    /\ \A j \in Live : sessions[j].peer = p => i <= j
Unknown(p) == \A i \in Live : sessions[i].peer # p

\* turn_add_session, which clears the slot, and what the caller sets at once.
Added(s) ==
    /\ count < MaxSessions
    /\ sessions' = [sessions EXCEPT ![count + 1] = s]
    /\ count' = count + 1

SetState(i, st) ==
    /\ sessions' = [sessions EXCEPT ![i].state = st]
    /\ UNCHANGED count

-----------------------------------------------------------------------------
(* The servers and the network.  A datagram is lost if it is never answered. *)

Arrives(d) ==
    /\ open
    /\ Len(inbox) < MaxInbox
    /\ inbox' = Append(inbox, d)

Answer(k) ==
    /\ requests[k] > 0
    /\ requests' = [requests EXCEPT ![k] = @ - 1]
    /\ \/ /\ k = "ALLOCATE"
          /\ allocated < MaxRelay
          /\ allocated' = allocated + 1
          /\ Arrives([kind |-> "ALLOCATED", relay |-> allocated + 1])
       \/ /\ k = "ALLOCATE"
          /\ \/ Arrives(Plain("ALLOCATED"))
             \/ Arrives(Plain("REFUSED"))
          /\ UNCHANGED allocated
       \/ /\ k = "REFRESH"
          /\ Arrives(Plain("REFRESHED"))
          /\ UNCHANGED allocated
    /\ UNCHANGED <<table, duplicates, noise, call, calls, moved>>

Duplicate ==
    /\ duplicates + noise < MaxNoise
    /\ inbox # << >>
    /\ Arrives(Head(inbox))
    /\ duplicates' = duplicates + 1
    /\ UNCHANGED <<table, requests, allocated, noise, call, calls, moved>>

\* A data indication, or anything else that is no answer.
Indication ==
    /\ duplicates + noise < MaxNoise
    /\ Arrives(Plain("DATA"))
    /\ noise' = noise + 1
    /\ UNCHANGED <<table, requests, allocated, duplicates, call, calls, moved>>

Taken == inbox # << >> /\ inbox' = Tail(inbox)

-----------------------------------------------------------------------------
(* Calls *)

Begins(t) ==
    /\ open
    /\ pc[t] = "idle"
    /\ calls[t] < MaxCalls[t]
    /\ calls' = [calls EXCEPT ![t] = @ + 1]

Go(t, where) == pc' = [pc EXCEPT ![t] = where]

\* The call returns and its locals are gone.
Return(t) ==
    /\ Go(t, "idle")
    /\ direct' = [direct EXCEPT ![t] = FALSE]
    /\ peer' = [peer EXCEPT ![t] = NoPeer]
    /\ mine' = [mine EXCEPT ![t] = 1]
    /\ slot' = [slot EXCEPT ![t] = 1]

\* turn_connect to a server that add_server does not know: a session is left
\* behind.
ConnectNowhere(t, p) ==
    /\ Begins(t)
    /\ Unknown(p)
    /\ Added(New(p, "IDLE"))
    /\ UNCHANGED <<open, network, call, moved>>

\* turn_connect up to the unlock.  A full table and an established session
\* end it at once.
Connect(t, p) ==
    /\ Begins(t)
    /\ \E i \in Slots :
          /\ \/ /\ Found(i, p)
                /\ sessions[i].state # "ESTABLISHED"
                /\ SetState(i, "CONNECTING")
             \/ /\ Unknown(p)
                /\ i = count + 1
                /\ Added(New(p, "CONNECTING"))
          /\ mine' = [mine EXCEPT ![t] = i]
    /\ peer' = [peer EXCEPT ![t] = p]
    /\ Go(t, "allocate")
    /\ UNCHANGED <<open, network, direct, slot, moved>>

\* turn_allocate called by itself.
AllocateOnly(t, p) ==
    /\ Begins(t)
    /\ ~Unknown(p)
    /\ peer' = [peer EXCEPT ![t] = p]
    /\ direct' = [direct EXCEPT ![t] = TRUE]
    /\ Go(t, "allocate")
    /\ UNCHANGED <<table, network, mine, slot, moved>>

\* turn_allocate returns, to the caller or to turn_connect.
AllocateReturns(t, how) ==
    IF direct[t] THEN Return(t)
    ELSE Go(t, how) /\ UNCHANGED <<direct, peer, mine, slot>>

\* turn_allocate up to the unlock: it looks the session up again and sends.
Allocate(t) ==
    /\ pc[t] = "allocate"
    /\ \/ \E i \in Slots :
             /\ Found(i, peer[t])
             /\ slot' = [slot EXCEPT ![t] = i]
             /\ Go(t, "select")
             /\ requests' = [requests EXCEPT !["ALLOCATE"] = @ + 1]
             /\ UNCHANGED <<direct, peer, mine>>
       \/ \* the session is gone, or sendto fails
          AllocateReturns(t, "failed") /\ UNCHANGED requests
    /\ UNCHANGED <<table, inbox, allocated, duplicates, noise, calls, moved>>

\* A slip: the wait for the answer has no limit.
AnswerTimeoutNever(t) == FALSE /\ pc[t] = "select" /\ UNCHANGED vars

\* Five seconds without a datagram.
AnswerTimeout(t) ==
    /\ pc[t] = "select"
    /\ AllocateReturns(t, "failed")
    /\ UNCHANGED <<table, network, calls, moved>>

\* select reports the socket readable.
AnswerReadable(t) ==
    /\ pc[t] = "select"
    /\ inbox # << >>
    /\ Go(t, "recv")
    /\ UNCHANGED <<table, network, direct, peer, mine, slot, calls, moved>>

\* A slip: any success response establishes the session.
ParsedUnchecked(s, d) ==
    IF d.kind = "ALLOCATED"
    THEN [s EXCEPT !.relay = IF d.relay > 0 THEN d.relay ELSE @, !.state = "ESTABLISHED"]
    ELSE s

\* turn_parse_allocate_response: the address in the response, or one from an
\* earlier response, establishes the session.
Parsed(s, d) ==
    LET relay == IF d.relay > 0 THEN d.relay ELSE s.relay IN
    IF d.kind = "ALLOCATED" /\ relay > 0
    THEN [s EXCEPT !.relay = relay, !.state = "ESTABLISHED"]
    ELSE s

\* recvfrom takes the first datagram, whosever answer it is, and parses it into
\* the session the pointer points to, without the mutex.
ReceiveAnswer(t) ==
    LET new == Parsed(sessions[slot[t]], Head(inbox))
        good == Head(inbox).kind = "ALLOCATED" /\ new.relay > 0
    IN
    /\ pc[t] = "recv"
    /\ Taken
    /\ sessions' = [sessions EXCEPT ![slot[t]] = new]
    /\ AllocateReturns(t, IF good THEN "succeeded" ELSE "failed")
    /\ UNCHANGED <<count, open, requests, allocated, duplicates, noise, calls, moved>>

\* turn_connect writes how it went, through its own pointer.
ConnectEnds(t) ==
    /\ pc[t] \in {"succeeded", "failed"}
    /\ SetState(mine[t], IF pc[t] = "succeeded" THEN "ESTABLISHED" ELSE "ERROR")
    /\ Return(t)
    /\ UNCHANGED <<open, network, calls, moved>>

\* A caller that holds a pointer to slot i or a later one.
Holds(t, i) ==
    \/ pc[t] # "idle" /\ ~direct[t] /\ mine[t] >= i
    \/ pc[t] \in {"select", "recv"} /\ slot[t] >= i

\* A slip: the array is compacted, the count is not.
DisconnectKeepingCount(t, p) ==
    /\ Begins(t)
    /\ \E i \in Slots :
          /\ Found(i, p)
          /\ sessions' = [j \in Slots |-> IF i <= j /\ j < count THEN sessions[j + 1] ELSE sessions[j]]
          /\ moved' = (moved \/ \E u \in Callers : Holds(u, i))
    /\ UNCHANGED <<count, open, network, call>>

\* turn_disconnect removes the first session of p.
Disconnect(t, p) ==
    /\ Begins(t)
    /\ \E i \in Slots :
          /\ Found(i, p)
          /\ sessions' = [j \in Slots |->
                            CASE i <= j /\ j < count -> sessions[j + 1]
                              [] j = count /\ i = count -> [sessions[j] EXCEPT !.state = "CLOSED"]
                              [] OTHER -> sessions[j]]
          /\ moved' = (moved \/ \E u \in Callers : Holds(u, i))
    /\ count' = count - 1
    /\ UNCHANGED <<open, network, call>>

\* turn_refresh_allocation sends and leaves the answer to whoever reads next.
Refresh(t, p) ==
    /\ Begins(t)
    /\ \E i \in Slots : Found(i, p) /\ sessions[i].state = "ESTABLISHED"
    /\ requests' = [requests EXCEPT !["REFRESH"] = @ + 1]
    /\ UNCHANGED <<table, inbox, allocated, duplicates, noise, call, moved>>

\* turn_recv takes the next datagram, whatever it is.
Recv(t, p) ==
    /\ Begins(t)
    /\ \E i \in Slots : Found(i, p) /\ sessions[i].state = "ESTABLISHED"
    /\ Taken
    /\ UNCHANGED <<table, requests, allocated, duplicates, noise, call, moved>>

\* turn_manager_cleanup, when no call is under way.
Cleanup(t) ==
    /\ Begins(t)
    /\ \A u \in Callers : pc[u] = "idle"
    /\ open' = FALSE
    /\ count' = 0
    /\ inbox' = << >>
    /\ UNCHANGED <<sessions, requests, allocated, duplicates, noise, call, moved>>

-----------------------------------------------------------------------------
Call(t) ==
    \/ \E p \in Peers :
          \/ ConnectNowhere(t, p) \/ Connect(t, p) \/ AllocateOnly(t, p)
          \/ Disconnect(t, p) \/ Refresh(t, p) \/ Recv(t, p)
    \/ Cleanup(t)

Continue(t) ==
    Allocate(t) \/ AnswerTimeout(t) \/ AnswerReadable(t) \/ ReceiveAnswer(t) \/ ConnectEnds(t)

Next ==
    \/ \E t \in Callers : Call(t) \/ Continue(t)
    \/ \E k \in {"ALLOCATE", "REFRESH"} : Answer(k)
    \/ Duplicate
    \/ Indication

Spec == Init /\ [][Next]_vars

\* A caller that can take its next step takes it: select times out.
FairSpec == Spec /\ \A t \in Callers : WF_vars(Continue(t))

-----------------------------------------------------------------------------
(* Properties *)

\* turn_send to an established session has a relay address to send to, whatever
\* answers come late, come for others or do not come, as long as turn_disconnect
\* has not moved the table under a call.
EstablishedHasRelay ==
    ~moved => \A i \in Live : sessions[i].state = "ESTABLISHED" => sessions[i].relay > 0

\* Answers may reach the wrong session, since none is compared with its
\* request, but two peers never share an allocation unless the network has
\* duplicated an answer.
OneSessionAnAllocation ==
    duplicates = 0 =>
        \A i, j \in Live : sessions[i].relay = sessions[j].relay => i = j \/ sessions[i].relay = 0

\* A caller is in recvfrom for a datagram that another one has taken.
Robbed == inbox = << >> /\ \E t \in Callers : pc[t] = "recv"

\* Every call returns, except that a caller may wait in recvfrom for a datagram
\* that another caller has taken after both saw it.
CallsReturn == \A t \in Callers : pc[t] # "idle" ~> pc[t] = "idle" \/ Robbed
=============================================================================
