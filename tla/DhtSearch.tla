------------------------------ MODULE DhtSearch ------------------------------
(***************************************************************************)
(* The searches of dht.c, by which a node announces its own id at the      *)
(* nodes that are closest to it and finds who has announced another, and   *)
(* the DHTNode of dht_node.c that uses them: announce, lookup, start and   *)
(* stop.                                                                   *)
(*                                                                         *)
(* dht.c is one library for the whole process, and keeps one search for an *)
(* id however often that id is searched for.  Its node list is sorted by   *)
(* distance and cut off, so it is modelled as the set of its nodes: the    *)
(* i-th is the one with i - 1 closer to the id.                            *)
(*                                                                         *)
(* Left out: what takes an hour or more (searches, peers and secrets that  *)
(* expire), the limits of 1024 searches and 16384 ids, the blacklist,      *)
(* IPv6, and the buckets: with fewer than 128 nodes there is one, which    *)
(* refuses none; that it loses those that do not answer is left out too,   *)
(* and so are the find_node requests of bucket_maintenance and             *)
(* neighbourhood_maintenance, and the nodes their answers add to searches  *)
(* and bucket: in the model a list grows by answers to searches only.      *)
(* Time passes in steps of DHT_SEARCH_RETRANSMIT: what was asked before    *)
(* the step may then be asked again, whatever the seconds in between, and  *)
(* every search that is not done is due.  The calls into the               *)
(* library do not overlap.  bootstrap.c is never given a node, so a        *)
(* library that is opened knows none until one asks it something.          *)
(***************************************************************************)
EXTENDS Integers, FiniteSets

CONSTANTS
  Nodes,       \* the other nodes
  Alive,       \* the ones among them that answer
  Askers,      \* the ones that ask this node something of themselves
  Givers,      \* the ones that send a token with their nodes
  Keys, Own,   \* the ids that are searched for, and the id of this node
  Distance,    \* how far a node is from an id
  Told,        \* the nodes a node sends when it is asked for an id
  Known,       \* the ids that others have announced at a node
  SearchNodes, \* SEARCH_NODES
  Enough,      \* the 8 closest nodes
  Pings,       \* a node that has not answered so many requests is given up
  InFlight,    \* DHT_INFLIGHT_QUERIES
  MaxCommands  \* bound: what the user asks for

ASSUME NodesAssumption == {Alive, Askers, Givers} \subseteq SUBSET Nodes /\ Own \in Keys
ASSUME DistanceAssumption ==
  /\ Distance \in [Keys -> [Nodes -> Nat]]
  /\ \A k \in Keys : \A m, n \in Nodes : Distance[k][m] = Distance[k][n] => m = n
ASSUME ToldAssumption ==
  /\ Told \in [Nodes -> [Keys -> SUBSET Nodes]]
  /\ Known \in [Nodes -> SUBSET Keys]
ASSUME BoundsAssumption ==
  /\ {SearchNodes, Enough, Pings, InFlight} \subseteq Nat \ {0}
  /\ Enough <= SearchNodes /\ MaxCommands \in Nat

VARIABLES
  search,   \* the search for each id
  table,    \* the nodes in the bucket
  net,      \* the datagrams on their way, some for ever
  stored,   \* the ids announced at each node
  local,    \* the ids others have announced here
  running,  \* the DHTNodes that are running
  open,     \* dht_socket: the DHTNode the library works for, or "none"
  call,     \* what the IPC thread is about to call, or waits in
  lookup,   \* lookup_done of the running DHTNode; and, a history, whether it was set
            \* since the last call
  commands

vars == <<search, table, net, stored, local, running, open, call, lookup, commands>>

\* announce: whether port is not 0.  due: step_time is DHT_SEARCH_RETRANSMIT ago.  Of
\* the nodes on the list: how often each was asked in vain, and which have replied, gave
\* a token, acknowledged the announcement, were asked a short time ago (request_time),
\* and have ever been heard of (reply_time).
Search == [status : {"none", "going", "done"}, announce : BOOLEAN, due : BOOLEAN,
           list : SUBSET Nodes, pinged : [Nodes -> Nat],
           replied : SUBSET Nodes, token : SUBSET Nodes, acked : SUBSET Nodes,
           asked : SUBSET Nodes, heard : SUBSET Nodes]

NoSearch == [status |-> "none", announce |-> FALSE, due |-> TRUE, list |-> {},
             pinged |-> [n \in Nodes |-> 0], replied |-> {}, token |-> {}, acked |-> {},
             asked |-> {}, heard |-> {}]

Message == [type : {"get_peers", "announce_peer", "announced"}, node : Nodes, key : Keys]
             \cup [type : {"nodes"}, node : Nodes, key : Keys, values : BOOLEAN]

\* The daemon's node lives until the daemon ends; p2p_connect and the others make one of
\* their own for a single lookup.
DhtNodes == {"daemon", "transient"}

Call == [op : {"none", "announce", "lookup", "wait"}, key : Keys]
Lookup == [done : BOOLEAN, fresh : BOOLEAN]

Init ==
  /\ search = [k \in Keys |-> NoSearch]
  /\ table = {}
  /\ net = {}
  /\ stored = [n \in Nodes |-> Known[n]]
  /\ local = {}
  /\ running = {}
  /\ open = "none"
  /\ call = [op |-> "none", key |-> Own]
  /\ lookup = [done |-> FALSE, fresh |-> FALSE]
  /\ commands = 0

----------------------------------------------------------------------------
(* The list of a search.                                                   *)

\* The c closest of the nodes S.
Closest(S, k, c) ==
  {n \in S : Cardinality({m \in S : Distance[k][m] < Distance[k][n]}) < c}

Farthest(S, k) == {n \in S : \A m \in S : Distance[k][m] <= Distance[k][n]}

\* What is known of a node goes with its place on the list.
Keep(sr, kept) ==
  [sr EXCEPT !.list = kept,
             !.pinged = [n \in Nodes |-> IF n \in kept THEN @[n] ELSE 0],
             !.replied = @ \cap kept, !.token = @ \cap kept, !.acked = @ \cap kept,
             !.asked = @ \cap kept, !.heard = @ \cap kept]

\* insert_search_node, of one node after the other: the closest stay.
Offer(sr, k, S) == Keep(sr, Closest(sr.list \cup S, k, SearchNodes))

\* A slip: the requests are not counted.
AskUncounted(sr, S) == [sr EXCEPT !.asked = @ \cup S]

\* A request to each of S is under way.
Ask(sr, S) ==
  [sr EXCEPT !.pinged = [n \in Nodes |-> IF n \in S THEN @[n] + 1 ELSE @[n]],
             !.asked = @ \cup S]

\* insert_search_node of a node that has replied.
Replied(sr, n) ==
  IF n \notin sr.list THEN sr
  ELSE [sr EXCEPT !.replied = @ \cup {n}, !.heard = @ \cup {n}, !.asked = @ \ {n},
                  !.pinged = [@ EXCEPT ![n] = 0], !.token = @ \cup ({n} \cap Givers)]

GivenUp(sr) == {n \in sr.list : sr.pinged[n] >= Pings}

\* The nodes search_send_get_peers would send to.
Askable(sr) == (sr.list \ GivenUp(sr)) \ (sr.replied \cup sr.asked)

\* The nodes that have to reply for a search to end.
Relevant(sr, k) == Closest(sr.list \ GivenUp(sr), k, Enough)

GetPeers(k, S) == {[type |-> "get_peers", node |-> n, key |-> k] : n \in S \cap Alive}

----------------------------------------------------------------------------
(* search_step: the search ends, or announces, or asks some nodes.         *)

\* A slip: a node that was asked lately is not waited for.
EndedInFlight(sr, k) == Relevant(sr, k) \subseteq sr.replied \cup sr.asked

Ended(sr, k) == Relevant(sr, k) \subseteq sr.replied

\* A node without a token to send back counts as one that has acknowledged.
ToAnnounce(sr, k) == (Relevant(sr, k) \cap sr.token) \ sr.acked

Done(sr) == [sr EXCEPT !.status = "done", !.due = FALSE]

\* A slip: a node has the announcement when it is sent.
AnnouncingOnce(sr, k) ==
  LET s == [sr EXCEPT !.acked = @ \cup Relevant(sr, k)]
  IN  IF ToAnnounce(sr, k) = {} THEN Done(s)
      ELSE [Ask(s, ToAnnounce(sr, k)) EXCEPT !.due = FALSE]

Announcing(sr, k) ==
  LET s == [sr EXCEPT !.acked = @ \cup (Relevant(sr, k) \ sr.token)]
  IN  IF ToAnnounce(sr, k) = {} THEN Done(s)
      ELSE [Ask(s, ToAnnounce(sr, k)) EXCEPT !.due = FALSE]

ToAsk(sr, k) == IF sr.due THEN Closest(Askable(sr), k, InFlight) ELSE {}

SearchStep(sr, k) ==
  IF ~Ended(sr, k) THEN [Ask(sr, ToAsk(sr, k)) EXCEPT !.due = FALSE]
  ELSE IF sr.announce THEN Announcing(sr, k)
  ELSE Done(sr)

StepMessages(sr, k) ==
  IF ~Ended(sr, k) THEN GetPeers(k, ToAsk(sr, k))
  ELSE IF sr.announce
  THEN {[type |-> "announce_peer", node |-> n, key |-> k] : n \in ToAnnounce(sr, k) \cap Alive}
  ELSE {}

----------------------------------------------------------------------------
(* dht_search: the search is made, or the old one for the id made new.     *)

\* What stays of an old search are the nodes that have answered.
Renewed(sr) ==
  LET s == Keep(sr, (sr.list \cap sr.heard) \ GivenUp(sr))
  IN  [s EXCEPT !.pinged = [n \in Nodes |-> 0],
                !.replied = {}, !.token = {}, !.acked = {}]

Begun(k, announce) ==
  LET old == IF search[k].status = "none" THEN NoSearch ELSE Renewed(search[k])
  IN  Offer([old EXCEPT !.status = "going", !.announce = announce], k, table)

DhtSearch(k, announce) ==
  LET sr == Begun(k, announce) IN
  /\ search' = [search EXCEPT ![k] = SearchStep(sr, k)]
  /\ net' = net \cup StepMessages(sr, k)

----------------------------------------------------------------------------
(* dht_node.c: the callback, and the calls of a DHTNode.                   *)

\* dht_node_callback: the first answer stays, whichever search it is for.
Called(l) == IF l.done THEN l ELSE [l EXCEPT !.done = TRUE, !.fresh = TRUE]

\* What others have announced here answers a search at once.
Answered(l, k) == IF k \in local THEN Called(l) ELSE l

\* dht_init refuses when the library is in use.
Start(node) ==
  /\ open = "none"
  /\ open' = node
  /\ running' = running \cup {node}

\* dht_node_destroy, with dht_node_stop and dht_uninit: of a node that has not started
\* nothing is left to close.  What is under way is lost: the next library draws new
\* transaction ids.
Destroy(node) ==
  IF node \in running
  THEN /\ running' = running \ {node}
       /\ open' = "none"
       /\ search' = [k \in Keys |-> NoSearch]
       /\ table' = {} /\ net' = {} /\ local' = {}
  ELSE UNCHANGED <<running, open, search, table, net, local>>

Command ==
  /\ call.op = "none"
  /\ commands < MaxCommands
  /\ commands' = commands + 1
  /\ UNCHANGED <<search, table, net, stored, local>>

\* daemon_cmd_listen: the node is made and started.  Its thread runs from then on.
Listen ==
  /\ Command
  /\ "daemon" \notin running
  /\ Start("daemon")
  /\ call' = [op |-> "announce", key |-> Own]
  /\ lookup' = [lookup EXCEPT !.done = FALSE]

\* daemon_cmd_search.
SearchCommand(k) ==
  /\ Command
  /\ "daemon" \in running
  /\ call' = [op |-> "lookup", key |-> k]
  /\ UNCHANGED <<running, open, lookup>>

\* p2p_connect and p2p_get_peer_capability: a node that starts, to look up,
ConnectCommand(k) ==
  /\ Command
  /\ Start("transient")
  /\ call' = [op |-> "lookup", key |-> k]
  /\ lookup' = [lookup EXCEPT !.done = FALSE]

\* or that cannot, and is destroyed.
ConnectRefused ==
  /\ call.op = "none"
  /\ open # "none"
  /\ Destroy("transient")
  /\ UNCHANGED <<stored, call, lookup, commands>>

\* dht_node_announce.
Announce ==
  /\ call.op = "announce"
  /\ call' = [call EXCEPT !.op = "none"]
  /\ DhtSearch(call.key, TRUE)
  /\ lookup' = Answered(lookup, call.key)
  /\ UNCHANGED <<table, stored, local, running, open, commands>>

\* A slip: the answer of an earlier lookup is still there.
BeginLookupStale ==
  /\ call.op = "lookup"
  /\ call' = [call EXCEPT !.op = "wait"]
  /\ lookup' = [lookup EXCEPT !.fresh = FALSE]
  /\ DhtSearch(call.key, FALSE)
  /\ UNCHANGED <<table, stored, local, running, open, commands>>

\* dht_node_lookup until it waits.
BeginLookup ==
  /\ call.op = "lookup"
  /\ call' = [call EXCEPT !.op = "wait"]
  /\ lookup' = Answered([done |-> FALSE, fresh |-> FALSE], call.key)
  /\ DhtSearch(call.key, FALSE)
  /\ UNCHANGED <<table, stored, local, running, open, commands>>

\* It has its answer, or ten seconds are over; a transient node goes with it.
EndLookup ==
  /\ call.op = "wait"
  /\ call' = [call EXCEPT !.op = "none"]
  /\ Destroy("transient")
  /\ UNCHANGED <<stored, lookup, commands>>

Ipc ==
  \/ Listen \/ ConnectRefused
  \/ \E k \in Keys : SearchCommand(k) \/ ConnectCommand(k)
  \/ Announce \/ BeginLookup \/ EndLookup

----------------------------------------------------------------------------
(* dht_periodic, of the node's thread.                                     *)

\* add_search_node: a node that has answered anything is offered to every search with
\* room for it, the finished ones too, and asked.
Added(k, n) ==
  LET sr == search[k] IN
  IF sr.status = "none" \/ Cardinality(sr.list) >= SearchNodes THEN sr
  ELSE LET s == Offer(sr, k, {n}) IN Ask(s, {n} \cap Askable(s))

AddedMessages(k, n) ==
  LET sr == search[k] IN
  IF sr.status = "none" \/ Cardinality(sr.list) >= SearchNodes THEN {}
  ELSE GetPeers(k, {n} \cap Askable(Offer(sr, k, {n})))

\* The reply to a get_peers: the nodes it names are offered, one more is asked, and only
\* then the replier counts as having replied.
ReceiveNodes(m) ==
  LET k == m.key
      offered == Offer(Added(k, m.node), k, Told[m.node][k])
      next == Farthest(Askable(offered), k)
      replied == Replied(Offer(Ask(offered, next), k, {m.node}), m.node)
  IN
  /\ m.type = "nodes"
  /\ search' = [q \in Keys |-> IF q = k THEN replied ELSE Added(q, m.node)]
  /\ net' = (net \ {m}) \cup GetPeers(k, next) \cup UNION {AddedMessages(q, m.node) : q \in Keys}
  /\ table' = table \cup {m.node} \cup Told[m.node][k]
  /\ lookup' = IF m.values THEN Called(lookup) ELSE lookup
  /\ UNCHANGED <<stored, local, running, open, call, commands>>

\* The reply to an announce_peer.
ReceiveAnnounced(m) ==
  LET k == m.key
      n == m.node
      added == Added(k, n)
      acked == IF n \notin added.list THEN added
               ELSE [added EXCEPT !.asked = @ \ {n}, !.heard = @ \cup {n},
                                  !.acked = @ \cup {n}, !.pinged = [@ EXCEPT ![n] = 0]]
      next == Farthest(Askable(acked), k)
  IN
  /\ m.type = "announced"
  /\ search' = [q \in Keys |-> IF q = k THEN Ask(acked, next) ELSE Added(q, n)]
  /\ net' = (net \ {m}) \cup GetPeers(k, next) \cup UNION {AddedMessages(q, n) : q \in Keys}
  /\ table' = table \cup {n}
  /\ UNCHANGED <<stored, local, running, open, call, lookup, commands>>

\* A request from another node: it is known from then on, and what it announces is kept.
ReceiveRequest(n) ==
  /\ open # "none"
  /\ table' = table \cup {n}
  /\ local' = local \/ \E k \in Keys : local' = local \cup {k}
  /\ UNCHANGED <<search, net, stored, running, open, call, lookup, commands>>

\* The searches whose time has come.
Step(k) ==
  /\ search[k].status = "going" /\ search[k].due
  /\ search' = [search EXCEPT ![k] = SearchStep(@, k)]
  /\ net' = net \cup StepMessages(search[k], k)
  /\ UNCHANGED <<table, stored, local, running, open, call, lookup, commands>>

\* DHT_SEARCH_RETRANSMIT seconds.  The code counts them for each request and each search
\* from a time of its own; here all begin together.
Tick ==
  /\ \E k \in Keys : search[k].status # "none" /\ (~search[k].due \/ search[k].asked # {})
  /\ search' = [k \in Keys |-> [search[k] EXCEPT !.due = TRUE, !.asked = {}]]
  /\ UNCHANGED <<table, net, stored, local, running, open, call, lookup, commands>>

----------------------------------------------------------------------------
(* The other nodes, which answer as this one does.                         *)

Answer(m) ==
  \/ /\ m.type = "get_peers"
     /\ net' = (net \ {m}) \cup {[type |-> "nodes", node |-> m.node, key |-> m.key,
                                  values |-> m.key \in stored[m.node]]}
     /\ UNCHANGED stored
  \/ /\ m.type = "announce_peer"
     /\ net' = (net \ {m}) \cup {[type |-> "announced", node |-> m.node, key |-> m.key]}
     /\ stored' = [stored EXCEPT ![m.node] = @ \cup {m.key}]

Network ==
  \E m \in net :
    \/ Answer(m) /\ UNCHANGED <<search, table, local, running, open, call, lookup, commands>>
    \/ ReceiveNodes(m)
    \/ ReceiveAnnounced(m)

Next ==
  \/ Ipc
  \/ Network
  \/ \E n \in Askers : ReceiveRequest(n)
  \/ \E k \in Keys : Step(k)
  \/ Tick

Spec == Init /\ [][Next]_vars

\* The node's thread runs every second; the network owes nothing.
FairSpec == Spec /\ WF_vars(Tick) /\ \A k \in Keys : WF_vars(Step(k))

----------------------------------------------------------------------------
TypeOK ==
  /\ search \in [Keys -> Search]
  /\ table \subseteq Nodes
  /\ net \subseteq Message
  /\ stored \in [Nodes -> SUBSET Keys]
  /\ local \subseteq Keys
  /\ running \subseteq DhtNodes
  /\ open \in DhtNodes \cup {"none"}
  /\ call \in Call
  /\ lookup \in Lookup
  /\ commands \in 0 .. MaxCommands

\* The library works for the one node that is running, whichever nodes fail to start and
\* are destroyed meanwhile.
OwnerRuns == running = {open} \ {"none"}

\* A lookup that returns an address returns one that came since it was called, not what
\* an earlier one has left in the node.
FreshAnswer == call.op = "wait" /\ lookup.done => lookup.fresh

\* A node that counts as having acknowledged the announcement has it, for all the replies
\* that come late and all the times the search was made new.
AckedIsStored ==
  \A k \in Keys : \A n \in search[k].acked \cap search[k].token : k \in stored[n]

\* A search that ends has asked the closest of the nodes that answer, unless it has given
\* one of those up, and an announcement has arrived there.  (Not said of a search that ends
\* with none of them on its list, as that of the announcement at the start, when the
\* library knows nobody.)
EndsAtClosest ==
  [][\A k \in Keys :
       LET sr == search'[k]
           closest == Closest(Alive, k, 1)
       IN  /\ search[k].status = "going" /\ sr.status = "done"
           /\ sr.list \cap Alive # {} /\ GivenUp(sr) \cap Alive = {}
           => /\ closest \subseteq sr.replied
              /\ sr.announce => \A n \in closest \cap Givers : k \in stored'[n]]_vars

\* What EndsAtClosest asks of the other nodes: one that answers and is not the closest names
\* one that answers and is closer.
LeadsCloser ==
  \A k \in Keys : \A n \in Alive \ Closest(Alive, k, 1) :
    \E m \in Told[n][k] \cap Alive : Distance[k][m] < Distance[k][n]

\* Every search ends, whatever the network loses.
EverySearchEnds ==
  \A k \in Keys : search[k].status = "going" ~> search[k].status # "going"
==============================================================================
