-------------------------- MODULE DhtSearch_proofs --------------------------
(***************************************************************************)
(* The searches of dht.c, for any nodes, ids, distances and limits.        *)
(***************************************************************************)
EXTENDS DhtSearch, FiniteSetTheorems, WellFoundedInduction, TLAPS

\* What a search keeps to, when the nodes S have its announcement: a node that
\* has replied and gives tokens has given one, and if it counts as having
\* acknowledged, it has the announcement.
Good(sr, S) ==
  /\ sr \in Search
  /\ sr.token \subseteq Givers
  /\ sr.replied \cap Givers \subseteq sr.token
  /\ sr.acked \cap Givers \subseteq S

Holders(k) == {n \in Nodes : k \in stored[n]}

\* The datagrams that do not say that an announcement has arrived.
Plain == {m \in Message : m.type # "announced"}

----------------------------------------------------------------------------
LEMMA KeepGood ==
  ASSUME NEW S, NEW sr, Good(sr, S), NEW kept \in SUBSET Nodes
  PROVE  Good(Keep(sr, kept), S)
BY DEF Good, Keep, Search

LEMMA ClosestWithin ==
  ASSUME NEW T, NEW k, NEW c
  PROVE  Closest(T, k, c) \subseteq T
BY DEF Closest

LEMMA OfferGood ==
  ASSUME NEW S, NEW sr, Good(sr, S), NEW k, NEW T \in SUBSET Nodes
  PROVE  Good(Offer(sr, k, T), S)
<1>1. sr.list \cup T \subseteq Nodes
  BY DEF Good, Search
<1>2. Closest(sr.list \cup T, k, SearchNodes) \in SUBSET Nodes
  BY <1>1, ClosestWithin
<1> QED
  BY <1>2, KeepGood DEF Offer

LEMMA AskGood ==
  ASSUME NEW S, NEW sr, Good(sr, S), NEW T \in SUBSET Nodes
  PROVE  Good(Ask(sr, T), S)
<1> DEFINE f == [n \in Nodes |-> IF n \in T THEN sr.pinged[n] + 1 ELSE sr.pinged[n]]
<1>1. f \in [Nodes -> Nat]
  BY DEF Good, Search
<1>2. Ask(sr, T) = [sr EXCEPT !.pinged = f, !.asked = @ \cup T]
  BY DEF Ask
<1> HIDE DEF f
<1>3. Good([sr EXCEPT !.pinged = f, !.asked = @ \cup T], S)
  BY <1>1 DEF Good, Search
<1> QED
  BY <1>2, <1>3

LEMMA RepliedGood ==
  ASSUME NEW S, NEW sr, Good(sr, S), NEW n \in Nodes
  PROVE  Good(Replied(sr, n), S)
BY NodesAssumption DEF Good, Replied, Search

LEMMA DueGood ==
  ASSUME NEW S, NEW sr, Good(sr, S), NEW due \in BOOLEAN
  PROVE  Good([sr EXCEPT !.due = due], S)
BY DEF Good, Search

LEMMA DoneGood ==
  ASSUME NEW S, NEW sr, Good(sr, S)
  PROVE  Good(Done(sr), S)
BY DEF Good, Search, Done

LEMMA RelevantWithin ==
  ASSUME NEW S, NEW sr, Good(sr, S), NEW k
  PROVE  Relevant(sr, k) \in SUBSET Nodes
BY ClosestWithin DEF Relevant, Good, Search

\* A node without a token has not replied, or gives none.
LEMMA AnnouncingGood ==
  ASSUME NEW S, NEW sr, Good(sr, S), NEW k, Ended(sr, k)
  PROVE  Good(Announcing(sr, k), S)
<1> DEFINE s == [sr EXCEPT !.acked = @ \cup (Relevant(sr, k) \ sr.token)]
<1>1. Good(s, S)
  BY RelevantWithin DEF Good, Search, Ended
<1>2. ToAnnounce(sr, k) \in SUBSET Nodes
  BY RelevantWithin DEF ToAnnounce
<1>3. Good(Done(s), S)
  BY <1>1, DoneGood
<1>4. Good([Ask(s, ToAnnounce(sr, k)) EXCEPT !.due = FALSE], S)
  BY <1>1, <1>2, AskGood, DueGood
<1> QED
  BY <1>3, <1>4 DEF Announcing

LEMMA SearchStepGood ==
  ASSUME NEW S, NEW sr, Good(sr, S), NEW k
  PROVE  Good(SearchStep(sr, k), S)
<1>1. ToAsk(sr, k) \in SUBSET Nodes
  BY ClosestWithin DEF ToAsk, Askable, Good, Search
<1>2. Good([Ask(sr, ToAsk(sr, k)) EXCEPT !.due = FALSE], S)
  BY <1>1, AskGood, DueGood
<1>3. Ended(sr, k) => Good(Announcing(sr, k), S)
  BY AnnouncingGood
<1>4. Good(Done(sr), S)
  BY DoneGood
<1> QED
  BY <1>2, <1>3, <1>4 DEF SearchStep

LEMMA StepMessagesPlain ==
  ASSUME NEW S, NEW sr, Good(sr, S), NEW k \in Keys
  PROVE  StepMessages(sr, k) \subseteq Plain
BY NodesAssumption DEF StepMessages, GetPeers, Plain, Message

LEMMA RenewedGood ==
  ASSUME NEW S, NEW sr, Good(sr, S)
  PROVE  Good(Renewed(sr), S)
<1> DEFINE s == Keep(sr, (sr.list \cap sr.heard) \ GivenUp(sr))
<1>1. (sr.list \cap sr.heard) \ GivenUp(sr) \in SUBSET Nodes
  BY DEF Good, Search
<1>2. Good(s, S)
  BY <1>1, KeepGood
<1> HIDE DEF s
<1>3. Good([s EXCEPT !.pinged = [n \in Nodes |-> 0],
                     !.replied = {}, !.token = {}, !.acked = {}], S)
  BY <1>2 DEF Good, Search
<1> QED
  BY <1>3 DEF Renewed, s

LEMMA NoSearchGood ==
  ASSUME NEW S
  PROVE  Good(NoSearch, S)
BY DEF Good, Search, NoSearch

----------------------------------------------------------------------------
\* The inductive invariant.  An acknowledgement that is under way is of an
\* announcement that has arrived.
Inv ==
  /\ TypeOK
  /\ \A k \in Keys : Good(search[k], Holders(k))
  /\ \A m \in net : m.type = "announced" => m.key \in stored[m.node]

LEMMA AddedGood ==
  ASSUME Inv, NEW k \in Keys, NEW n \in Nodes
  PROVE  Good(Added(k, n), Holders(k))
<1> DEFINE s == Offer(search[k], k, {n})
<1>1. Good(search[k], Holders(k))
  BY DEF Inv
<1>2. Good(s, Holders(k))
  BY <1>1, OfferGood
<1>3. {n} \cap Askable(s) \in SUBSET Nodes
  OBVIOUS
<1>4. Good(Ask(s, {n} \cap Askable(s)), Holders(k))
  BY <1>2, <1>3, AskGood
<1> QED
  BY <1>1, <1>4 DEF Added

LEMMA GetPeersPlain ==
  ASSUME NEW k \in Keys, NEW T
  PROVE  GetPeers(k, T) \subseteq Plain
BY NodesAssumption DEF GetPeers, Plain, Message

LEMMA AddedMessagesPlain ==
  ASSUME NEW n
  PROVE  UNION {AddedMessages(q, n) : q \in Keys} \subseteq Plain
BY GetPeersPlain DEF AddedMessages

LEMMA BegunGood ==
  ASSUME Inv, NEW k \in Keys, NEW announce \in BOOLEAN
  PROVE  Good(Begun(k, announce), Holders(k))
<1> DEFINE old == IF search[k].status = "none" THEN NoSearch ELSE Renewed(search[k])
<1>1. Good(old, Holders(k))
  BY NoSearchGood, RenewedGood DEF Inv
<1> HIDE DEF old
<1>2. Good([old EXCEPT !.status = "going", !.announce = announce], Holders(k))
  BY <1>1 DEF Good, Search
<1>3. table \in SUBSET Nodes
  BY DEF Inv, TypeOK
<1> QED
  BY <1>2, <1>3, OfferGood DEF Begun, old

\* A step that keeps what is stored and puts only requests and plain answers
\* on their way.
LEMMA SearchesStay ==
  ASSUME Inv, TypeOK', UNCHANGED stored, net' \subseteq net \cup Plain,
         \A k \in Keys : Good(search'[k], Holders(k))
  PROVE  Inv'
<1>1. \A k \in Keys : Holders(k)' = Holders(k)
  BY DEF Holders
<1>2. (\A k \in Keys : Good(search[k], Holders(k)))'
  BY <1>1
<1>3. (\A m \in net : m.type = "announced" => m.key \in stored[m.node])'
  BY DEF Inv, Plain
<1> QED
  BY <1>2, <1>3 DEF Inv

LEMMA GoodTyped ==
  ASSUME Inv, search' = [k \in Keys |-> search'[k]], net' \subseteq net \cup Plain,
         \A k \in Keys : Good(search'[k], Holders(k))
  PROVE  search' \in [Keys -> Search] /\ net' \subseteq Message
BY DEF Good, Inv, TypeOK, Plain

\* What a search or an answer has found.
LEMMA CalledTyped ==
  ASSUME NEW l \in Lookup
  PROVE  Called(l) \in Lookup
BY DEF Called, Lookup

LEMMA AnsweredTyped ==
  ASSUME NEW l \in Lookup, NEW k
  PROVE  Answered(l, k) \in Lookup
BY CalledTyped DEF Answered

LEMMA DhtSearchGood ==
  ASSUME Inv, NEW k \in Keys, NEW announce \in BOOLEAN, DhtSearch(k, announce)
  PROVE  /\ search' = [q \in Keys |-> search'[q]]
         /\ net' \subseteq net \cup Plain
         /\ \A q \in Keys : Good(search'[q], Holders(q))
<1> DEFINE sr == Begun(k, announce)
<1>1. Good(sr, Holders(k))
  BY BegunGood
<1>2. /\ search' = [search EXCEPT ![k] = SearchStep(sr, k)]
      /\ net' = net \cup StepMessages(sr, k)
  BY DEF DhtSearch
<1> HIDE DEF sr
<1>3. Good(SearchStep(sr, k), Holders(k)) /\ StepMessages(sr, k) \subseteq Plain
  BY <1>1, SearchStepGood, StepMessagesPlain
<1>4. search \in [Keys -> Search]
  BY DEF Inv, TypeOK
<1> QED
  BY <1>2, <1>3, <1>4 DEF Inv

\* A node that is destroyed takes everything with it, or nothing.
LEMMA DestroyGood ==
  ASSUME Inv, NEW node \in DhtNodes, Destroy(node)
  PROVE  /\ search' = [q \in Keys |-> search'[q]]
         /\ net' \subseteq net \cup Plain
         /\ \A q \in Keys : Good(search'[q], Holders(q))
         /\ table' \subseteq Nodes /\ local' \subseteq Keys
         /\ running' \subseteq DhtNodes /\ open' \in DhtNodes \cup {"none"}
<1>1. /\ search \in [Keys -> Search] /\ table \subseteq Nodes /\ local \subseteq Keys
      /\ running \subseteq DhtNodes /\ open \in DhtNodes \cup {"none"}
      /\ \A q \in Keys : Good(search[q], Holders(q))
  BY DEF Inv, TypeOK
<1>2. CASE node \in running
  <2>1. /\ search' = [q \in Keys |-> NoSearch] /\ net' = {} /\ table' = {} /\ local' = {}
        /\ running' = running \ {node} /\ open' = "none"
    BY <1>2 DEF Destroy
  <2> QED
    BY <1>1, <2>1, NoSearchGood
<1>3. CASE node \notin running
  BY <1>1, <1>3 DEF Destroy
<1> QED
  BY <1>2, <1>3

LEMMA ReceiveNodesGood ==
  ASSUME Inv, NEW m \in net, ReceiveNodes(m)
  PROVE  /\ search' = [q \in Keys |-> search'[q]]
         /\ net' \subseteq net \cup Plain
         /\ \A q \in Keys : Good(search'[q], Holders(q))
         /\ table' \subseteq Nodes
<1> DEFINE k == m.key
           offered == Offer(Added(k, m.node), k, Told[m.node][k])
           next == Farthest(Askable(offered), k)
           replied == Replied(Offer(Ask(offered, next), k, {m.node}), m.node)
<1>1. m.node \in Nodes /\ m.key \in Keys /\ table \subseteq Nodes
  BY DEF Inv, TypeOK, Message
<1>2. Told[m.node][k] \in SUBSET Nodes
  BY <1>1, ToldAssumption
<1>3. Good(offered, Holders(k))
  BY <1>1, <1>2, AddedGood, OfferGood
<1>4. next \in SUBSET Nodes
  <2> HIDE DEF offered
  <2> QED
    BY <1>3 DEF Farthest, Askable, Good, Search
<1>5. Good(Ask(offered, next), Holders(k))
  BY <1>3, <1>4, AskGood
<1>6. Good(replied, Holders(k))
  BY <1>1, <1>5, OfferGood, RepliedGood
<1>7. /\ search' = [q \in Keys |-> IF q = k THEN replied ELSE Added(q, m.node)]
      /\ net' = (net \ {m}) \cup GetPeers(k, next) \cup UNION {AddedMessages(q, m.node) : q \in Keys}
      /\ table' = table \cup {m.node} \cup Told[m.node][k]
  BY DEF ReceiveNodes
<1>8. \A q \in Keys : Good(Added(q, m.node), Holders(q))
  BY <1>1, AddedGood
<1>9. GetPeers(k, next) \subseteq Plain /\ UNION {AddedMessages(q, m.node) : q \in Keys} \subseteq Plain
  BY <1>1, GetPeersPlain, AddedMessagesPlain
<1> HIDE DEF next, replied, k
<1> QED
  BY <1>1, <1>2, <1>6, <1>7, <1>8, <1>9

\* The announcement that is acknowledged has arrived.
LEMMA ReceiveAnnouncedGood ==
  ASSUME Inv, NEW m \in net, ReceiveAnnounced(m)
  PROVE  /\ search' = [q \in Keys |-> search'[q]]
         /\ net' \subseteq net \cup Plain
         /\ \A q \in Keys : Good(search'[q], Holders(q))
         /\ table' \subseteq Nodes
<1> DEFINE k == m.key
           n == m.node
           added == Added(k, n)
           acked == IF n \notin added.list THEN added
                    ELSE [added EXCEPT !.asked = @ \ {n}, !.heard = @ \cup {n},
                                       !.acked = @ \cup {n}, !.pinged = [@ EXCEPT ![n] = 0]]
           next == Farthest(Askable(acked), k)
<1>1. n \in Nodes /\ k \in Keys /\ table \subseteq Nodes /\ n \in Holders(k)
  BY DEF Inv, TypeOK, Message, ReceiveAnnounced, Holders
<1>2. /\ search' = [q \in Keys |-> IF q = k THEN Ask(acked, next) ELSE Added(q, n)]
      /\ net' = (net \ {m}) \cup GetPeers(k, next) \cup UNION {AddedMessages(q, n) : q \in Keys}
      /\ table' = table \cup {n}
  BY DEF ReceiveAnnounced
<1> HIDE DEF k, n
<1>3. Good(added, Holders(k))
  BY <1>1, AddedGood
<1>4. Good(acked, Holders(k))
  <2> HIDE DEF added
  <2> QED
    BY <1>1, <1>3 DEF Good, Search
<1> HIDE DEF acked
<1>5. next \in SUBSET Nodes
  BY <1>4 DEF Farthest, Askable, Good, Search
<1>6. Good(Ask(acked, next), Holders(k))
  BY <1>4, <1>5, AskGood
<1>7. \A q \in Keys : Good(Added(q, n), Holders(q))
  BY <1>1, AddedGood
<1>8. GetPeers(k, next) \subseteq Plain /\ UNION {AddedMessages(q, n) : q \in Keys} \subseteq Plain
  BY <1>1, GetPeersPlain, AddedMessagesPlain
<1> HIDE DEF next
<1> QED
  BY <1>1, <1>2, <1>6, <1>7, <1>8

----------------------------------------------------------------------------
LEMMA InitInv == Init => Inv
<1> SUFFICES ASSUME Init PROVE Inv
  OBVIOUS
<1>1. \A k \in Keys : Good(search[k], Holders(k))
  BY NoSearchGood DEF Init
<1>2. search \in [Keys -> Search]
  BY <1>1 DEF Init, Good
<1>3. stored \in [Nodes -> SUBSET Keys]
  BY ToldAssumption DEF Init
<1>4. call \in Call /\ lookup \in Lookup
  BY NodesAssumption DEF Init, Call, Lookup
<1>5. commands \in 0 .. MaxCommands
  BY BoundsAssumption DEF Init
<1> QED
  BY <1>1, <1>2, <1>3, <1>4, <1>5 DEF Init, Inv, TypeOK

LEMMA CommandTyped ==
  ASSUME commands \in 0 .. MaxCommands, Command
  PROVE  commands' \in 0 .. MaxCommands
BY BoundsAssumption DEF Command

\* The calls of the users.
LEMMA IpcInv == ASSUME Inv, Ipc PROVE Inv'
<1> USE DEF Inv
<1>1. ASSUME Listen PROVE Inv'
  <2>1. TypeOK'
    BY <1>1, NodesAssumption, CommandTyped DEF Listen, Command, Start, TypeOK, Call, Lookup, DhtNodes
  <2> QED
    BY <1>1, <2>1, SearchesStay DEF Listen, Command
<1>2. ASSUME NEW k \in Keys, SearchCommand(k) PROVE Inv'
  <2>1. TypeOK'
    BY <1>2, CommandTyped DEF SearchCommand, Command, TypeOK, Call
  <2> QED
    BY <1>2, <2>1, SearchesStay DEF SearchCommand, Command
<1>3. ASSUME NEW k \in Keys, ConnectCommand(k) PROVE Inv'
  <2>1. TypeOK'
    BY <1>3, CommandTyped DEF ConnectCommand, Command, Start, TypeOK, Call, Lookup, DhtNodes
  <2> QED
    BY <1>3, <2>1, SearchesStay DEF ConnectCommand, Command
<1>4. ASSUME ConnectRefused PROVE Inv'
  <2>1. Destroy("transient") /\ "transient" \in DhtNodes
    BY <1>4 DEF ConnectRefused, DhtNodes
  <2>2. TypeOK'
    BY <1>4, <2>1, DestroyGood, GoodTyped DEF ConnectRefused, TypeOK
  <2> QED
    BY <1>4, <2>1, <2>2, DestroyGood, SearchesStay DEF ConnectRefused
<1>5. ASSUME Announce PROVE Inv'
  <2>1. DhtSearch(call.key, TRUE) /\ call.key \in Keys
    BY <1>5 DEF Announce, TypeOK, Call
  <2>2. call' \in Call /\ lookup' \in Lookup
    BY <1>5, AnsweredTyped DEF Announce, TypeOK, Call
  <2>3. TypeOK'
    BY <1>5, <2>1, <2>2, DhtSearchGood, GoodTyped DEF Announce, TypeOK
  <2> QED
    BY <1>5, <2>1, <2>3, DhtSearchGood, SearchesStay DEF Announce
<1>6. ASSUME BeginLookup PROVE Inv'
  <2>1. DhtSearch(call.key, FALSE) /\ call.key \in Keys
    BY <1>6 DEF BeginLookup, TypeOK, Call
  <2>2. [done |-> FALSE, fresh |-> FALSE] \in Lookup
    BY DEF Lookup
  <2>3. call' \in Call /\ lookup' \in Lookup
    BY <1>6, <2>2, AnsweredTyped DEF BeginLookup, TypeOK, Call
  <2>4. TypeOK'
    BY <1>6, <2>1, <2>3, DhtSearchGood, GoodTyped DEF BeginLookup, TypeOK
  <2> QED
    BY <1>6, <2>1, <2>4, DhtSearchGood, SearchesStay DEF BeginLookup
<1>7. ASSUME EndLookup PROVE Inv'
  <2>1. Destroy("transient") /\ "transient" \in DhtNodes
    BY <1>7 DEF EndLookup, DhtNodes
  <2>2. call' \in Call
    BY <1>7 DEF EndLookup, TypeOK, Call
  <2>3. TypeOK'
    BY <1>7, <2>1, <2>2, DestroyGood, GoodTyped DEF EndLookup, TypeOK
  <2> QED
    BY <1>7, <2>1, <2>3, DestroyGood, SearchesStay DEF EndLookup
<1> QED
  BY <1>1, <1>2, <1>3, <1>4, <1>5, <1>6, <1>7 DEF Ipc

\* What another node does: an announcement is stored before it is acknowledged.
LEMMA AnswerInv ==
  ASSUME Inv, NEW m \in net, Answer(m),
         UNCHANGED <<search, table, local, running, open, call, lookup, commands>>
  PROVE  Inv'
<1> USE DEF Inv
<1>1. m \in Message /\ m.node \in Nodes /\ m.key \in Keys
  BY DEF TypeOK, Message
<1>2. CASE m.type = "get_peers"
  <2> DEFINE r == [type |-> "nodes", node |-> m.node, key |-> m.key,
                   values |-> m.key \in stored[m.node]]
  <2>1. net' = (net \ {m}) \cup {r} /\ UNCHANGED stored
    BY <1>2 DEF Answer
  <2>2. r \in Plain
    BY <1>1 DEF Plain, Message
  <2> HIDE DEF r
  <2>3. TypeOK'
    BY <2>1, <2>2 DEF TypeOK, Plain
  <2> QED
    BY <2>1, <2>2, <2>3, SearchesStay
<1>3. CASE m.type # "get_peers"
  <2> DEFINE r == [type |-> "announced", node |-> m.node, key |-> m.key]
  <2>1. net' = (net \ {m}) \cup {r} /\ stored' = [stored EXCEPT ![m.node] = @ \cup {m.key}]
    BY <1>3 DEF Answer
  <2>2. r \in Message /\ r.node = m.node /\ r.key = m.key
    BY <1>1 DEF Message
  <2> HIDE DEF r
  <2>3. stored' \in [Nodes -> SUBSET Keys]
    BY <1>1, <2>1 DEF TypeOK
  <2>4. TypeOK'
    BY <2>1, <2>2, <2>3 DEF TypeOK
  <2>5. \A n \in Nodes : stored[n] \subseteq stored'[n]
    BY <1>1, <2>1 DEF TypeOK
  <2>6. \A k \in Keys : Holders(k) \subseteq Holders(k)'
    BY <2>5 DEF Holders
  <2>7. (\A k \in Keys : Good(search[k], Holders(k)))'
    BY <2>6 DEF Good
  <2>8. m.key \in stored'[m.node]
    BY <1>1, <2>1 DEF TypeOK
  <2>9. \A q \in net : q.node \in Nodes
    BY DEF TypeOK, Message
  <2>10. (\A q \in net : q.type = "announced" => q.key \in stored[q.node])'
    BY <2>1, <2>2, <2>5, <2>8, <2>9
  <2> QED
    BY <2>4, <2>7, <2>10
<1> QED
  BY <1>2, <1>3

LEMMA NextInv == ASSUME Inv, [Next]_vars PROVE Inv'
<1>1. ASSUME Ipc PROVE Inv'
  BY <1>1, IpcInv
<1>2. ASSUME NEW m \in net, ReceiveNodes(m) PROVE Inv'
  <2>1. lookup' \in Lookup
    BY <1>2, CalledTyped DEF ReceiveNodes, Inv, TypeOK
  <2>2. TypeOK'
    BY <1>2, <2>1, ReceiveNodesGood, GoodTyped DEF ReceiveNodes, Inv, TypeOK
  <2> QED
    BY <1>2, <2>2, ReceiveNodesGood, SearchesStay DEF ReceiveNodes
<1>3. ASSUME NEW m \in net, ReceiveAnnounced(m) PROVE Inv'
  <2>1. TypeOK'
    BY <1>3, ReceiveAnnouncedGood, GoodTyped DEF ReceiveAnnounced, Inv, TypeOK
  <2> QED
    BY <1>3, <2>1, ReceiveAnnouncedGood, SearchesStay DEF ReceiveAnnounced
<1>4. ASSUME NEW m \in net, Answer(m),
             UNCHANGED <<search, table, local, running, open, call, lookup, commands>>
      PROVE  Inv'
  BY <1>4, AnswerInv
<1>5. ASSUME NEW n \in Askers, ReceiveRequest(n) PROVE Inv'
  <2>1. TypeOK'
    BY <1>5, NodesAssumption DEF ReceiveRequest, Inv, TypeOK
  <2> QED
    BY <1>5, <2>1, SearchesStay DEF ReceiveRequest, Inv
<1>6. ASSUME NEW k \in Keys, Step(k) PROVE Inv'
  <2>1. /\ search' = [search EXCEPT ![k] = SearchStep(search[k], k)]
        /\ net' = net \cup StepMessages(search[k], k)
        /\ search \in [Keys -> Search]
    BY <1>6 DEF Step, Inv, TypeOK
  <2>2. \A q \in Keys : Good(search[q], Holders(q))
    BY DEF Inv
  <2>3. Good(SearchStep(search[k], k), Holders(k)) /\ StepMessages(search[k], k) \subseteq Plain
    BY <2>2, SearchStepGood, StepMessagesPlain
  <2>4. /\ \A q \in Keys : Good(search'[q], Holders(q))
        /\ search' = [q \in Keys |-> search'[q]] /\ net' \subseteq net \cup Plain
    BY <2>1, <2>2, <2>3
  <2>5. TypeOK'
    BY <1>6, <2>4, GoodTyped DEF Step, Inv, TypeOK
  <2> QED
    BY <1>6, <2>4, <2>5, SearchesStay DEF Step
<1>7. ASSUME Tick PROVE Inv'
  <2>1. search' = [k \in Keys |-> [search[k] EXCEPT !.due = TRUE, !.asked = {}]]
    BY <1>7 DEF Tick
  <2>2. \A k \in Keys : Good([search[k] EXCEPT !.due = TRUE, !.asked = {}], Holders(k))
    <3> SUFFICES ASSUME NEW k \in Keys
                 PROVE  Good([search[k] EXCEPT !.due = TRUE, !.asked = {}], Holders(k))
      OBVIOUS
    <3> DEFINE sr == search[k]
    <3>1. Good(sr, Holders(k))
      BY DEF Inv
    <3> HIDE DEF sr
    <3>2. Good([sr EXCEPT !.due = TRUE, !.asked = {}], Holders(k))
      BY <3>1 DEF Good, Search
    <3> QED
      BY <3>2 DEF sr
  <2>3. /\ \A q \in Keys : Good(search'[q], Holders(q))
        /\ search' = [q \in Keys |-> search'[q]]
    BY <2>1, <2>2
  <2>4. TypeOK'
    BY <1>7, <2>3, GoodTyped DEF Tick, Inv, TypeOK
  <2> QED
    BY <1>7, <2>3, <2>4, SearchesStay DEF Tick
<1>8. ASSUME UNCHANGED vars PROVE Inv'
  BY <1>8 DEF vars, Inv, TypeOK, Holders
<1> QED
  BY <1>1, <1>2, <1>3, <1>4, <1>5, <1>6, <1>7, <1>8 DEF Next, Network

LEMMA InvHolds == Spec => []Inv
BY InitInv, NextInv, PTL DEF Spec

\* The searches, the datagrams and the nodes of dht.c and dht_node.c have their types.
THEOREM TypeCorrect == Spec => []TypeOK
BY InvHolds, PTL DEF Inv

\* dht_periodic (1767-1786) takes an answer for an acknowledgement whenever it comes, and
\* search_step (981) counts a node without a token: still, a node that gives tokens and
\* counts as having acknowledged has the announcement.
THEOREM AcknowledgedHaveIt == Spec => []AckedIsStored
<1>1. Inv => AckedIsStored
  BY DEF Inv, AckedIsStored, Good, Holders
<1> QED
  BY <1>1, InvHolds, PTL

\* dht_node_lookup (270) forgets what an earlier call left before it searches, so the
\* address it returns came after it was called.
THEOREM AnswersAreFresh == Spec => []FreshAnswer
<1>1. Init => FreshAnswer
  BY DEF Init, FreshAnswer
<1>2. ASSUME Inv, FreshAnswer, [Next]_vars PROVE FreshAnswer'
  <2>1. lookup \in Lookup
    BY <1>2 DEF Inv, TypeOK
  <2>2. \A l \in Lookup : /\ Called(l).done => l.done \/ Called(l).fresh
                          /\ l.fresh => Called(l).fresh
    BY DEF Called, Lookup
  <2>3. CASE Ipc
    <3>1. CASE Listen
      BY <3>1 DEF Listen, FreshAnswer
    <3>2. ASSUME NEW k \in Keys, SearchCommand(k) PROVE FreshAnswer'
      BY <3>2 DEF SearchCommand, FreshAnswer
    <3>3. ASSUME NEW k \in Keys, ConnectCommand(k) PROVE FreshAnswer'
      BY <3>3 DEF ConnectCommand, FreshAnswer
    <3>4. CASE ConnectRefused
      BY <1>2, <3>4 DEF ConnectRefused, FreshAnswer
    <3>5. CASE Announce
      <4>1. call.op = "announce" /\ call' = [call EXCEPT !.op = "none"] /\ call \in Call
        BY <1>2, <3>5 DEF Announce, Inv, TypeOK
      <4> QED
        BY <4>1 DEF FreshAnswer, Call
    <3>6. CASE BeginLookup
      BY <3>6 DEF BeginLookup, FreshAnswer, Answered, Called
    <3>7. CASE EndLookup
      <4>1. call' = [call EXCEPT !.op = "none"] /\ call \in Call
        BY <1>2, <3>7 DEF EndLookup, Inv, TypeOK
      <4> QED
        BY <4>1 DEF FreshAnswer, Call
    <3> QED
      BY <2>3, <3>1, <3>2, <3>3, <3>4, <3>5, <3>6, <3>7 DEF Ipc
  <2>4. ASSUME NEW m \in net, ReceiveNodes(m) PROVE FreshAnswer'
    BY <1>2, <2>1, <2>2, <2>4 DEF ReceiveNodes, FreshAnswer
  <2>5. ASSUME UNCHANGED <<call, lookup>> PROVE FreshAnswer'
    BY <1>2, <2>5 DEF FreshAnswer
  <2>6. (\E m \in net : ReceiveAnnounced(m)) => UNCHANGED <<call, lookup>>
    BY DEF ReceiveAnnounced
  <2>7. (\E n \in Askers : ReceiveRequest(n)) => UNCHANGED <<call, lookup>>
    BY DEF ReceiveRequest
  <2>8. (\E k \in Keys : Step(k)) \/ Tick \/ UNCHANGED vars => UNCHANGED <<call, lookup>>
    BY DEF Step, Tick, vars
  <2> QED
    BY <1>2, <2>3, <2>4, <2>5, <2>6, <2>7, <2>8 DEF Next, Network
<1> QED
  BY <1>1, <1>2, InvHolds, PTL DEF Spec

\* dht_init (dht.c) refuses while the library is in use, and a node that is destroyed
\* closes it only if it has started (dht_node.c:72-145): so the nodes that p2p_connect
\* and others make, and destroy when they cannot start, never close the daemon's.
THEOREM LibraryHasOneNode == Spec => []OwnerRuns
<1>1. Init => OwnerRuns
  BY DEF Init, OwnerRuns
<1>2. ASSUME OwnerRuns, [Next]_vars PROVE OwnerRuns'
  <2>1. \A node \in DhtNodes : Start(node) => OwnerRuns'
    BY <1>2 DEF Start, OwnerRuns, DhtNodes
  <2>2. \A node \in DhtNodes : Destroy(node) => OwnerRuns'
    BY <1>2 DEF Destroy, OwnerRuns
  <2>3. UNCHANGED <<running, open>> => OwnerRuns'
    BY <1>2 DEF OwnerRuns
  <2>4. Ipc => OwnerRuns'
    <3>1. Listen => OwnerRuns'
      BY <2>1 DEF Listen, DhtNodes
    <3>2. \A k \in Keys : SearchCommand(k) => OwnerRuns'
      BY <2>3 DEF SearchCommand
    <3>3. \A k \in Keys : ConnectCommand(k) => OwnerRuns'
      BY <2>1 DEF ConnectCommand, DhtNodes
    <3>4. ConnectRefused \/ EndLookup => OwnerRuns'
      BY <2>2 DEF ConnectRefused, EndLookup, DhtNodes
    <3>5. Announce \/ BeginLookup => OwnerRuns'
      BY <2>3 DEF Announce, BeginLookup
    <3> QED
      BY <3>1, <3>2, <3>3, <3>4, <3>5 DEF Ipc
  <2>5. Network => OwnerRuns'
    BY <2>3 DEF Network, ReceiveNodes, ReceiveAnnounced
  <2>6. (\E n \in Askers : ReceiveRequest(n)) => OwnerRuns'
    BY <2>3 DEF ReceiveRequest
  <2>7. (\E k \in Keys : Step(k)) \/ Tick \/ UNCHANGED vars => OwnerRuns'
    BY <2>3 DEF Step, Tick, vars
  <2> QED
    BY <1>2, <2>4, <2>5, <2>6, <2>7 DEF Next
<1> QED
  BY <1>1, <1>2, PTL DEF Spec

----------------------------------------------------------------------------
(* Where a search ends.                                                     *)

\* The nodes of S that are closer than n.
Closer(S, k, n) == {m \in S : Distance[k][m] < Distance[k][n]}

\* A node that has replied is on the list and answers; unless it is the closest of those
\* that answer, so does a closer one.
Led(sr, k) ==
  \A n \in sr.replied :
    /\ n \in sr.list \cap Alive
    /\ n \in Closest(Alive, k, 1) \/ Closer(sr.list \cap Alive, k, n) # {}

\* Only nodes that answer are written to, and heard of.
FromAlive == \A m \in net : m.node \in Alive

LedInv == Inv /\ FromAlive /\ \A k \in Keys : Led(search[k], k)

\* Finitely many nodes are closer than a given one: distances are numbers, and no two
\* nodes are equally far.
LEMMA CloserFinite ==
  ASSUME NEW k \in Keys, NEW S \in SUBSET Nodes, NEW n \in Nodes
  PROVE  IsFiniteSet(Closer(S, k, n)) /\ Cardinality(Closer(S, k, n)) \in Nat
<1> DEFINE f == [m \in Closer(S, k, n) |-> Distance[k][m]]
           R == 0 .. Distance[k][n] - 1
<1>1. Distance[k] \in [Nodes -> Nat]
  BY DistanceAssumption
<1>2. IsFiniteSet(R)
  BY <1>1, FS_Interval
<1>3. \A m \in Closer(S, k, n) : m \in Nodes /\ Distance[k][m] \in R
  BY <1>1 DEF Closer
<1> HIDE DEF R
<1>4. f \in [Closer(S, k, n) -> R]
  BY <1>3
<1>5. f \in Injection(Closer(S, k, n), R)
  BY <1>3, <1>4, DistanceAssumption DEF Injection, IsInjective
<1> HIDE DEF f
<1> QED
  BY <1>2, <1>5, FS_Injection, FS_CardinalityType

\* Some node is the nearest.
LEMMA Nearest ==
  ASSUME NEW k \in Keys, NEW S \in SUBSET Nodes, S # {}
  PROVE  \E n \in S : \A m \in S : ~(Distance[k][m] < Distance[k][n])
<1> DEFINE R == {ss \in Nat \X Nat : ss[1] < ss[2]}
           T == {Distance[k][m] : m \in S}
<1>1. IsWellFoundedOn(R, Nat)
  BY NatLessThanWellFounded DEF OpToRel
<1>2. \A x, y \in Nat : x < y => <<x, y>> \in R
  OBVIOUS
<1>3. T \subseteq Nat /\ T # {}
  BY DistanceAssumption
<1> HIDE DEF R, T
<1>4. PICK x \in T : \A y \in T : ~(<<y, x>> \in R)
  BY <1>1, <1>3, WFMin
<1>5. \A y \in T : ~(y < x)
  BY <1>2, <1>3, <1>4
<1> QED
  BY <1>4, <1>5 DEF T

\* The closest are closed downwards, and the nearest is one of them.
LEMMA ClosestDown ==
  ASSUME NEW k \in Keys, NEW S \in SUBSET Nodes, NEW c \in Nat, NEW n \in Closest(S, k, c),
         NEW m \in S, Distance[k][m] < Distance[k][n]
  PROVE  m \in Closest(S, k, c)
<1>1. Distance[k] \in [Nodes -> Nat] /\ n \in S
  BY DistanceAssumption DEF Closest
<1>2. Closer(S, k, m) \in SUBSET Closer(S, k, n)
  BY <1>1 DEF Closer
<1>3. /\ IsFiniteSet(Closer(S, k, n)) /\ Cardinality(Closer(S, k, n)) \in Nat
      /\ Cardinality(Closer(S, k, m)) \in Nat
  BY <1>1, CloserFinite
<1>4. Cardinality(Closer(S, k, m)) <= Cardinality(Closer(S, k, n))
  BY <1>2, <1>3, FS_Subset
<1>5. Cardinality(Closer(S, k, n)) < c
  BY DEF Closest, Closer
<1>6. Cardinality(Closer(S, k, m)) < c
  BY <1>3, <1>4, <1>5
<1> QED
  BY <1>6 DEF Closest, Closer

LEMMA NearestIsClosest ==
  ASSUME NEW k, NEW S, NEW c \in Nat \ {0}, NEW n \in S,
         \A m \in S : ~(Distance[k][m] < Distance[k][n])
  PROVE  n \in Closest(S, k, c)
<1>1. Closer(S, k, n) = {}
  BY DEF Closer
<1>2. Cardinality(Closer(S, k, n)) < c
  BY <1>1, FS_EmptySet
<1> QED
  BY <1>2 DEF Closest, Closer

\* Who is not among the c closest has c of them before it.
LEMMA Crowded ==
  ASSUME NEW k \in Keys, NEW S \in SUBSET Nodes, NEW c \in Nat,
         NEW m \in S, m \notin Closest(S, k, c)
  PROVE  ~(Cardinality(Closer(Closest(S, k, c), k, m)) < c)
<1> DEFINE X == Closer(S, k, m)
           Z == Closer(Closest(S, k, c), k, m)
<1> SUFFICES ASSUME Cardinality(Z) < c PROVE FALSE
  OBVIOUS
<1>1. Distance[k] \in [Nodes -> Nat]
  BY DistanceAssumption
<1>2. Z \subseteq X /\ Closest(S, k, c) \in SUBSET Nodes
  BY DEF Closer, Closest
<1>3. IsFiniteSet(Z) /\ Cardinality(Z) \in Nat /\ Cardinality(X) \in Nat
  BY <1>2, CloserFinite
<1>4. ~(Cardinality(X) < c)
  BY DEF Closest, Closer
<1>5. X \ Z \in SUBSET Nodes
  BY DEF Closer
<1> HIDE DEF X, Z
<1>6. X \ Z # {}
  <2> SUFFICES ASSUME X \subseteq Z PROVE FALSE
    OBVIOUS
  <2>1. X = Z
    BY <1>2
  <2> QED
    BY <1>4, <2>1
<1>7. PICK x \in X \ Z : \A y \in X \ Z : ~(Distance[k][y] < Distance[k][x])
  BY <1>5, <1>6, Nearest
<1>8. x \in S /\ x \in Nodes /\ Distance[k][x] < Distance[k][m]
  BY <1>7 DEF X, Closer
<1>9. Closer(S, k, x) \in SUBSET Z
  <2> SUFFICES ASSUME NEW y \in Closer(S, k, x) PROVE y \in Z
    OBVIOUS
  <2>1. y \in S /\ Distance[k][y] < Distance[k][x]
    BY DEF Closer
  <2>2. y \in X
    BY <1>1, <1>8, <2>1 DEF X, Closer
  <2> QED
    BY <1>7, <2>1, <2>2
<1>10. Cardinality(Closer(S, k, x)) <= Cardinality(Z) /\ Cardinality(Closer(S, k, x)) \in Nat
  BY <1>3, <1>8, <1>9, FS_Subset, CloserFinite
<1>11. Cardinality(Closer(S, k, x)) < c
  BY <1>3, <1>10
<1>12. x \in Closest(S, k, c)
  BY <1>8, <1>11 DEF Closest, Closer
<1> QED
  BY <1>7, <1>8, <1>12 DEF Z, Closer

----------------------------------------------------------------------------
(* What the list of a search is changed by.                                 *)

\* A search with the same list and the same replies leads as far.
LEMMA SameLed ==
  ASSUME NEW k, NEW sr, NEW t, t.list = sr.list, t.replied = sr.replied, Led(sr, k)
  PROVE  Led(t, k)
BY DEF Led

LEMMA OfferIs ==
  ASSUME NEW S, NEW sr, Good(sr, S), NEW k, NEW T \in SUBSET Nodes
  PROVE  /\ Offer(sr, k, T).list = Closest(sr.list \cup T, k, SearchNodes)
         /\ Offer(sr, k, T).replied = sr.replied \cap Closest(sr.list \cup T, k, SearchNodes)
         /\ Offer(sr, k, T).status = sr.status
         /\ sr.list \cup T \in SUBSET Nodes
BY DEF Offer, Keep, Good, Search

LEMMA AskIs ==
  ASSUME NEW S, NEW sr, Good(sr, S), NEW T
  PROVE  /\ Ask(sr, T).list = sr.list /\ Ask(sr, T).replied = sr.replied
         /\ Ask(sr, T).status = sr.status
BY DEF Ask, Good, Search

\* Nodes that are offered push others out, but none that is closer than one that stays.
LEMMA OfferLed ==
  ASSUME NEW S, NEW sr, Good(sr, S), NEW k \in Keys, Led(sr, k), NEW T \in SUBSET Nodes
  PROVE  Led(Offer(sr, k, T), k)
<1> DEFINE all == sr.list \cup T
           kept == Closest(all, k, SearchNodes)
           t == Offer(sr, k, T)
<1>1. t.list = kept /\ t.replied = sr.replied \cap kept /\ all \in SUBSET Nodes
  <2>1. /\ Offer(sr, k, T).list = Closest(sr.list \cup T, k, SearchNodes)
        /\ Offer(sr, k, T).replied = sr.replied \cap Closest(sr.list \cup T, k, SearchNodes)
        /\ sr.list \cup T \in SUBSET Nodes
    BY DEF Offer, Keep, Good, Search
  <2> QED
    BY <2>1, Zenon
<1>2. SearchNodes \in Nat
  BY BoundsAssumption
<1> HIDE DEF t
<1> SUFFICES ASSUME NEW n \in t.replied
             PROVE  /\ n \in t.list \cap Alive
                    /\ n \in Closest(Alive, k, 1) \/ Closer(t.list \cap Alive, k, n) # {}
  BY DEF Led, t
<1>3. n \in sr.replied /\ n \in kept
  BY <1>1
<1>4. n \in t.list \cap Alive
  BY <1>1, <1>3 DEF Led
<1>5. CASE Closer(sr.list \cap Alive, k, n) # {}
  <2>1. PICK m \in sr.list \cap Alive : Distance[k][m] < Distance[k][n]
    BY <1>5 DEF Closer
  <2>2. m \in kept
    BY <1>1, <1>2, <1>3, <2>1, ClosestDown
  <2>3. m \in Closer(t.list \cap Alive, k, n)
    BY <1>1, <2>1, <2>2 DEF Closer
  <2> QED
    BY <1>4, <2>3
<1> QED
  BY <1>3, <1>4, <1>5 DEF Led

LEMMA SearchStepIs ==
  ASSUME NEW S, NEW sr, Good(sr, S), NEW k
  PROVE  LET t == SearchStep(sr, k)
         IN  t.list = sr.list /\ t.replied = sr.replied /\ t.announce = sr.announce
             /\ t.status \in {sr.status, "done"}
<1>1. /\ Done(sr).list = sr.list /\ Done(sr).replied = sr.replied
      /\ Done(sr).announce = sr.announce /\ Done(sr).status = "done"
  BY DEF Done, Good, Search
<1>2. LET t == [Ask(sr, ToAsk(sr, k)) EXCEPT !.due = FALSE]
      IN  t.list = sr.list /\ t.replied = sr.replied /\ t.announce = sr.announce
          /\ t.status = sr.status
  BY DEF Ask, Good, Search
<1>3. LET t == Announcing(sr, k)
      IN  t.list = sr.list /\ t.replied = sr.replied /\ t.announce = sr.announce
          /\ t.status \in {sr.status, "done"}
  <2> DEFINE s == [sr EXCEPT !.acked = @ \cup (Relevant(sr, k) \ sr.token)]
             u == [Ask(s, ToAnnounce(sr, k)) EXCEPT !.due = FALSE]
  <2>1. /\ Done(s).list = sr.list /\ Done(s).replied = sr.replied
        /\ Done(s).announce = sr.announce /\ Done(s).status = "done"
    BY DEF Done, Good, Search
  <2>2. /\ u.list = sr.list /\ u.replied = sr.replied
        /\ u.announce = sr.announce /\ u.status = sr.status
    BY DEF Ask, Good, Search
  <2> HIDE DEF s, u
  <2>3. Announcing(sr, k) = IF ToAnnounce(sr, k) = {} THEN Done(s) ELSE u
    BY DEF Announcing, s, u
  <2> QED
    BY <2>1, <2>2, <2>3
<1> HIDE DEF Done, Announcing
<1> QED
  BY <1>1, <1>2, <1>3 DEF SearchStep

\* A search that ends: its nearest node that is not given up has replied.  It answers, so
\* the nearer one it has named would be nearer still; and it has the announcement.
LEMMA EndsLed ==
  ASSUME NEW S, NEW k \in Keys, NEW sr, Good(sr, S), Led(sr, k), sr.status = "going",
         NEW t, t = SearchStep(sr, k), t.status = "done",
         t.list \cap Alive # {}, GivenUp(t) \cap Alive = {}
  PROVE  /\ Closest(Alive, k, 1) \subseteq t.replied
         /\ t.announce => \A n \in Closest(Alive, k, 1) \cap Givers : n \in S
<1>1. t.list = sr.list /\ t.replied = sr.replied /\ t.announce = sr.announce
  BY SearchStepIs
<1>2. Ended(sr, k)
  BY DEF SearchStep, Ask, Good, Search
<1>3. sr.announce => ToAnnounce(sr, k) = {}
  BY <1>2 DEF SearchStep, Announcing, Ask, Good, Search
<1>4. GivenUp(t) = GivenUp(sr)
  <2>1. t.pinged = sr.pinged
    BY <1>2, <1>3 DEF SearchStep, Announcing, Done, Good, Search
  <2> QED
    BY <1>1, <2>1 DEF GivenUp
<1> DEFINE U == sr.list \ GivenUp(sr)
<1>5. U \in SUBSET Nodes /\ U # {} /\ sr.list \cap Alive \subseteq U
  BY <1>1, <1>4 DEF Good, Search
<1> HIDE DEF U
<1>6. PICK r \in U : \A m \in U : ~(Distance[k][m] < Distance[k][r])
  BY <1>5, Nearest
<1>7. r \in Relevant(sr, k)
  BY <1>6, NearestIsClosest, BoundsAssumption DEF Relevant, U
<1>8. r \in sr.replied
  BY <1>2, <1>7 DEF Ended
<1>9. r \in Closest(Alive, k, 1)
  BY <1>5, <1>6, <1>8 DEF Led, Closer
<1>10. \A n \in Closest(Alive, k, 1) : n = r
  <2> SUFFICES ASSUME NEW n \in Closest(Alive, k, 1) PROVE n = r
    OBVIOUS
  <2>1. Alive \in SUBSET Nodes /\ n \in Alive /\ r \in Alive /\ n \in Nodes /\ r \in Nodes
    BY <1>9, NodesAssumption DEF Closest
  <2>2. \A x \in Closest(Alive, k, 1) : Closer(Alive, k, x) = {}
    <3> SUFFICES ASSUME NEW x \in Closest(Alive, k, 1) PROVE Closer(Alive, k, x) = {}
      OBVIOUS
    <3>1. x \in Nodes /\ Cardinality(Closer(Alive, k, x)) < 1
      BY <2>1 DEF Closest, Closer
    <3>2. IsFiniteSet(Closer(Alive, k, x)) /\ Cardinality(Closer(Alive, k, x)) \in Nat
      BY <2>1, <3>1, CloserFinite
    <3>3. Cardinality(Closer(Alive, k, x)) = 0
      BY <3>1, <3>2
    <3> QED
      BY <3>2, <3>3, FS_EmptySet
  <2>3. ~(Distance[k][n] < Distance[k][r]) /\ ~(Distance[k][r] < Distance[k][n])
    BY <1>9, <2>1, <2>2 DEF Closer
  <2>4. Distance[k][n] \in Nat /\ Distance[k][r] \in Nat
    BY <2>1, DistanceAssumption
  <2>5. Distance[k][n] = Distance[k][r]
    BY <2>3, <2>4
  <2> QED
    BY <2>1, <2>5, DistanceAssumption
<1>11. ASSUME sr.announce, r \in Givers PROVE r \in S
  <2>1. r \in sr.token
    BY <1>8, <1>11 DEF Good
  <2>2. r \in sr.acked
    BY <1>3, <1>7, <1>11, <2>1 DEF ToAnnounce
  <2> QED
    BY <1>11, <2>2 DEF Good
<1> QED
  BY <1>1, <1>8, <1>10, <1>11

\* What a search can come to in a step, other than staying as it was or starting anew: it
\* takes a step of its own, from a state it may have been brought to first.
Stepped(k) ==
  /\ UNCHANGED stored
  /\ \E sr : Good(sr, Holders(k)) /\ Led(sr, k) /\ sr.status = "going"
             /\ search'[k] = SearchStep(sr, k)

LedStep ==
  \A q \in Keys :
    /\ Led(search'[q], q)
    /\ search[q].status = "going" /\ search'[q].status = "done" => Stepped(q)

Written == \A m \in net' : m.node \in Alive

LEMMA NoSearchLed ==
  ASSUME NEW k
  PROVE  Led(NoSearch, k) /\ NoSearch.status = "none"
BY DEF Led, NoSearch

LEMMA SearchStepLed ==
  ASSUME NEW S, NEW sr, Good(sr, S), NEW k, Led(sr, k)
  PROVE  Led(SearchStep(sr, k), k)
<1>1. LET t == SearchStep(sr, k) IN t.list = sr.list /\ t.replied = sr.replied
  BY SearchStepIs
<1> QED
  BY <1>1, SameLed

LEMMA AskLed ==
  ASSUME NEW S, NEW sr, Good(sr, S), NEW k, Led(sr, k), NEW T
  PROVE  Led(Ask(sr, T), k)
<1>1. Ask(sr, T).list = sr.list /\ Ask(sr, T).replied = sr.replied
  BY DEF Ask, Good, Search
<1> QED
  BY <1>1, SameLed

LEMMA AddedLed ==
  ASSUME LedInv, NEW k \in Keys, NEW n \in Nodes
  PROVE  Led(Added(k, n), k) /\ Added(k, n).status = search[k].status
<1> DEFINE s == Offer(search[k], k, {n})
           u == Ask(s, {n} \cap Askable(s))
<1>1. Good(search[k], Holders(k)) /\ Led(search[k], k)
  BY DEF LedInv, Inv
<1>2. Good(s, Holders(k)) /\ Led(s, k) /\ s.status = search[k].status
  <2>1. s.status = search[k].status
    BY <1>1 DEF Offer, Keep, Good, Search
  <2> QED
    BY <1>1, <2>1, OfferGood, OfferLed
<1> HIDE DEF s
<1>3. u.status = s.status
  BY <1>2 DEF Ask, Good, Search
<1>4. Led(u, k)
  BY <1>2, AskLed
<1>5. Added(k, n) \in {search[k], u}
  BY DEF Added, s
<1> HIDE DEF u
<1> QED
  BY <1>1, <1>2, <1>3, <1>4, <1>5

\* A search that is made new has no replies.
LEMMA BegunLed ==
  ASSUME LedInv, NEW k \in Keys, NEW announce \in BOOLEAN
  PROVE  Led(Begun(k, announce), k) /\ Begun(k, announce).status = "going"
<1> DEFINE old == IF search[k].status = "none" THEN NoSearch ELSE Renewed(search[k])
           s == [old EXCEPT !.status = "going", !.announce = announce]
<1>1. Good(search[k], Holders(k))
  BY DEF LedInv, Inv
<1>2. old.replied = {} /\ Good(old, Holders(k))
  <2>1. Renewed(search[k]).replied = {}
    BY <1>1 DEF Renewed, Keep, Good, Search
  <2>2. NoSearch.replied = {}
    BY DEF NoSearch
  <2>3. Good(Renewed(search[k]), Holders(k)) /\ Good(NoSearch, Holders(k))
    BY <1>1, RenewedGood, NoSearchGood
  <2> QED
    BY <2>1, <2>2, <2>3
<1> HIDE DEF old
<1>3. Good(s, Holders(k)) /\ s.replied = {} /\ s.status = "going"
  BY <1>2 DEF Good, Search
<1> HIDE DEF s
<1>4. table \in SUBSET Nodes
  BY DEF LedInv, Inv, TypeOK
<1>5. Led(s, k)
  BY <1>3 DEF Led
<1>6. Led(Offer(s, k, table), k)
  BY <1>3, <1>4, <1>5, OfferLed
<1>7. Offer(s, k, table).status = "going"
  BY <1>3 DEF Offer, Keep, Good, Search
<1> QED
  BY <1>6, <1>7 DEF Begun, old, s

LEMMA GetPeersWritten ==
  ASSUME NEW k, NEW T, NEW m \in GetPeers(k, T)
  PROVE  m.node \in Alive
BY DEF GetPeers

LEMMA AddedMessagesWritten ==
  ASSUME NEW k, NEW n, NEW m \in AddedMessages(k, n)
  PROVE  m.node \in Alive
BY GetPeersWritten DEF AddedMessages

LEMMA StepMessagesWritten ==
  ASSUME NEW sr, NEW k, NEW m \in StepMessages(sr, k)
  PROVE  m.node \in Alive
BY GetPeersWritten DEF StepMessages

\* dht_search: the search is brought up and takes its step.
LEMMA DhtSearchLed ==
  ASSUME LedInv, NEW k \in Keys, NEW announce \in BOOLEAN, DhtSearch(k, announce),
         UNCHANGED stored
  PROVE  LedStep /\ Written
<1> DEFINE sr == Begun(k, announce)
<1>1. Good(sr, Holders(k)) /\ Led(sr, k) /\ sr.status = "going"
  BY BegunGood, BegunLed DEF LedInv
<1>2. /\ search' = [search EXCEPT ![k] = SearchStep(sr, k)]
      /\ net' = net \cup StepMessages(sr, k)
  BY DEF DhtSearch
<1> HIDE DEF sr
<1>3. Led(SearchStep(sr, k), k)
  BY <1>1, SearchStepLed
<1>4. search \in [Keys -> Search] /\ \A q \in Keys : Led(search[q], q)
  BY DEF LedInv, Inv, TypeOK
<1>5. search'[k] = SearchStep(sr, k) /\ \A q \in Keys : q # k => search'[q] = search[q]
  BY <1>2, <1>4
<1>6. Stepped(k)
  BY <1>1, <1>5 DEF Stepped
<1>7. LedStep
  BY <1>3, <1>4, <1>5, <1>6 DEF LedStep
<1>8. Written
  BY <1>2, StepMessagesWritten DEF Written, LedInv, FromAlive
<1> QED
  BY <1>7, <1>8

LEMMA SearchesUntouched ==
  ASSUME LedInv, UNCHANGED <<search, net>>
  PROVE  LedStep /\ Written
BY DEF LedInv, FromAlive, LedStep, Written

LEMMA DestroyLed ==
  ASSUME LedInv, NEW node, Destroy(node)
  PROVE  LedStep /\ Written
<1>1. CASE node \in running
  <2>1. search' = [q \in Keys |-> NoSearch] /\ net' = {}
    BY <1>1 DEF Destroy
  <2>2. \A q \in Keys : search'[q] = NoSearch
    BY <2>1
  <2> QED
    BY <2>1, <2>2, NoSearchLed DEF LedStep, Written
<1>2. CASE node \notin running
  <2>1. UNCHANGED <<search, net>>
    BY <1>2 DEF Destroy
  <2> QED
    BY <2>1, SearchesUntouched
<1> QED
  BY <1>1, <1>2

\* Who replies has been offered the nodes it names first: if the closer one is pushed out, so
\* is the one that names it.
LEMMA NamedStays ==
  ASSUME NEW k \in Keys, NEW A \in SUBSET Nodes, NEW c \in Nat, NEW n \in Nodes, NEW m \in A,
         Distance[k][m] < Distance[k][n],
         n \in Closest(Closest(A, k, c) \cup {n}, k, c)
  PROVE  m \in Closest(Closest(A, k, c) \cup {n}, k, c)
<1> DEFINE B == Closest(A, k, c)
<1>1. B \in SUBSET Nodes /\ B \cup {n} \in SUBSET Nodes
  BY ClosestWithin
<1>2. Distance[k] \in [Nodes -> Nat] /\ m \in Nodes
  BY DistanceAssumption
<1>3. CASE m \in B
  BY <1>1, <1>3, ClosestDown
<1>4. CASE m \notin B
  <2>1. ~(Cardinality(Closer(B, k, m)) < c)
    BY <1>4, Crowded
  <2> HIDE DEF B
  <2>2. Closer(B, k, m) \in SUBSET Closer(B \cup {n}, k, n)
    BY <1>1, <1>2 DEF Closer
  <2>3. /\ IsFiniteSet(Closer(B \cup {n}, k, n))
        /\ Cardinality(Closer(B \cup {n}, k, n)) \in Nat
        /\ Cardinality(Closer(B, k, m)) \in Nat
    BY <1>1, <1>2, CloserFinite
  <2>4. Cardinality(Closer(B, k, m)) <= Cardinality(Closer(B \cup {n}, k, n))
    BY <2>2, <2>3, FS_Subset
  <2>5. Cardinality(Closer(B \cup {n}, k, n)) < c
    BY DEF Closest, Closer, B
  <2> QED
    BY <2>1, <2>3, <2>4, <2>5
<1> QED
  BY <1>3, <1>4

LEMMA ReceiveNodesLed ==
  ASSUME LeadsCloser, LedInv, NEW m \in net, ReceiveNodes(m)
  PROVE  LedStep /\ Written
<1> DEFINE k == m.key
           n == m.node
           added == Added(k, n)
           offered == Offer(added, k, Told[n][k])
           next == Farthest(Askable(offered), k)
           asked == Ask(offered, next)
           again == Offer(asked, k, {n})
           replied == Replied(again, n)
<1>1. n \in Nodes /\ k \in Keys /\ n \in Alive
  BY DEF LedInv, Inv, TypeOK, Message, FromAlive
<1>2. /\ search' = [q \in Keys |-> IF q = k THEN replied ELSE Added(q, n)]
      /\ net' = (net \ {m}) \cup GetPeers(k, next) \cup UNION {AddedMessages(q, n) : q \in Keys}
  BY DEF ReceiveNodes
<1>3. Told[n][k] \in SUBSET Nodes
  BY <1>1, ToldAssumption
<1> HIDE DEF k, n
<1>4. /\ Good(added, Holders(k)) /\ Led(added, k) /\ added.status = search[k].status
      /\ added.list \in SUBSET Nodes
  <2>1. Good(added, Holders(k)) /\ Led(added, k) /\ added.status = search[k].status
    BY <1>1, AddedGood, AddedLed DEF LedInv
  <2> HIDE DEF added
  <2> QED
    BY <2>1 DEF Good, Search
<1> HIDE DEF added
<1>5. Good(offered, Holders(k)) /\ Led(offered, k)
  BY <1>1, <1>3, <1>4, OfferGood, OfferLed
<1>6. /\ offered.list = Closest(added.list \cup Told[n][k], k, SearchNodes)
      /\ offered.status = added.status
  BY <1>3, <1>4 DEF Offer, Keep, Good, Search
<1> HIDE DEF offered
<1>7. next \in SUBSET Nodes
  BY <1>5 DEF Farthest, Askable, Good, Search
<1>8. Good(asked, Holders(k)) /\ Led(asked, k)
  BY <1>5, <1>7, AskGood, AskLed
<1>9. asked.list = offered.list /\ asked.status = offered.status
  BY <1>5 DEF Ask, Good, Search
<1> HIDE DEF asked, next
<1>10. Good(again, Holders(k)) /\ Led(again, k)
  BY <1>1, <1>8, OfferGood, OfferLed
<1>11. /\ again.list = Closest(offered.list \cup {n}, k, SearchNodes)
       /\ again.status = asked.status
  BY <1>1, <1>8, <1>9 DEF Offer, Keep, Good, Search
<1> HIDE DEF again
<1>12. /\ replied.list = again.list /\ replied.status = again.status
       /\ replied.replied \subseteq again.replied \cup (again.list \cap {n})
  BY <1>10 DEF Replied, Good, Search
<1>13. ASSUME n \in again.list, n \notin Closest(Alive, k, 1)
       PROVE  Closer(again.list \cap Alive, k, n) # {}
  <2>1. PICK x \in Told[n][k] \cap Alive : Distance[k][x] < Distance[k][n]
    BY <1>1, <1>13 DEF LeadsCloser
  <2>2. added.list \cup Told[n][k] \in SUBSET Nodes
    BY <1>3, <1>4
  <2>3. x \in again.list
    BY <1>1, <1>6, <1>11, <1>13, <2>1, <2>2, NamedStays, BoundsAssumption
  <2> QED
    BY <2>1, <2>3 DEF Closer
<1> HIDE DEF replied
<1>14. Led(replied, k)
  BY <1>1, <1>10, <1>12, <1>13 DEF Led
<1>15. \A q \in Keys : Led(Added(q, n), q) /\ Added(q, n).status = search[q].status
  BY <1>1, AddedLed
<1>16. \A q \in Keys : search'[q] = IF q = k THEN replied ELSE Added(q, n)
  BY <1>2
<1>17. \A q \in Keys : search'[q].status = search[q].status
  BY <1>4, <1>6, <1>9, <1>11, <1>12, <1>15, <1>16
<1>18. LedStep
  BY <1>14, <1>15, <1>16, <1>17 DEF LedStep
<1>19. Written
  BY <1>2, GetPeersWritten, AddedMessagesWritten DEF Written, LedInv, FromAlive
<1> QED
  BY <1>18, <1>19

LEMMA ReceiveAnnouncedLed ==
  ASSUME LedInv, NEW m \in net, ReceiveAnnounced(m)
  PROVE  LedStep /\ Written
<1> DEFINE k == m.key
           n == m.node
           added == Added(k, n)
           acked == IF n \notin added.list THEN added
                    ELSE [added EXCEPT !.asked = @ \ {n}, !.heard = @ \cup {n},
                                       !.acked = @ \cup {n}, !.pinged = [@ EXCEPT ![n] = 0]]
           next == Farthest(Askable(acked), k)
           t == Ask(acked, next)
<1>1. n \in Nodes /\ k \in Keys
  BY DEF LedInv, Inv, TypeOK, Message
<1>2. /\ search' = [q \in Keys |-> IF q = k THEN t ELSE Added(q, n)]
      /\ net' = (net \ {m}) \cup GetPeers(k, next) \cup UNION {AddedMessages(q, n) : q \in Keys}
  BY DEF ReceiveAnnounced
<1> HIDE DEF k, n
<1>3. Good(added, Holders(k)) /\ Led(added, k) /\ added.status = search[k].status
  BY <1>1, AddedGood, AddedLed DEF LedInv
<1> HIDE DEF added
<1>4. acked.list = added.list /\ acked.replied = added.replied /\ acked.status = added.status
  BY <1>3 DEF Good, Search
<1>5. t.list = acked.list /\ t.replied = acked.replied /\ t.status = acked.status
  <2>1. acked \in Search
    BY <1>1, <1>3 DEF Good, Search
  <2> HIDE DEF acked
  <2> QED
    BY <2>1 DEF Ask, Search
<1> HIDE DEF acked, t
<1>6. Led(t, k)
  BY <1>3, <1>4, <1>5, SameLed
<1>7. \A q \in Keys : Led(Added(q, n), q) /\ Added(q, n).status = search[q].status
  BY <1>1, AddedLed
<1>8. \A q \in Keys : search'[q] = IF q = k THEN t ELSE Added(q, n)
  BY <1>2
<1>9. \A q \in Keys : search'[q].status = search[q].status
  BY <1>3, <1>4, <1>5, <1>7, <1>8
<1>10. LedStep
  BY <1>6, <1>7, <1>8, <1>9 DEF LedStep
<1> HIDE DEF next
<1>11. Written
  BY <1>2, GetPeersWritten, AddedMessagesWritten DEF Written, LedInv, FromAlive
<1> QED
  BY <1>10, <1>11

LEMMA StepLed ==
  ASSUME LedInv, NEW k \in Keys, Step(k)
  PROVE  LedStep /\ Written
<1> DEFINE sr == search[k]
<1>1. Good(sr, Holders(k)) /\ Led(sr, k) /\ sr.status = "going"
  BY DEF LedInv, Inv, Step
<1>2. /\ search' = [search EXCEPT ![k] = SearchStep(sr, k)]
      /\ net' = net \cup StepMessages(sr, k) /\ UNCHANGED stored
  BY DEF Step
<1> HIDE DEF sr
<1>3. Led(SearchStep(sr, k), k)
  BY <1>1, SearchStepLed
<1>4. search \in [Keys -> Search] /\ \A q \in Keys : Led(search[q], q)
  BY DEF LedInv, Inv, TypeOK
<1>5. search'[k] = SearchStep(sr, k) /\ \A q \in Keys : q # k => search'[q] = search[q]
  BY <1>2, <1>4
<1>6. Stepped(k)
  BY <1>1, <1>2, <1>5 DEF Stepped
<1>7. LedStep
  BY <1>3, <1>4, <1>5, <1>6 DEF LedStep
<1>8. Written
  BY <1>2, StepMessagesWritten DEF Written, LedInv, FromAlive
<1> QED
  BY <1>7, <1>8

LEMMA TickLed ==
  ASSUME LedInv, Tick
  PROVE  LedStep /\ Written
<1>1. \A q \in Keys : search'[q] = [search[q] EXCEPT !.due = TRUE, !.asked = {}]
  BY DEF Tick
<1>2. \A q \in Keys : search[q] \in Search /\ Led(search[q], q)
  BY DEF LedInv, Inv, TypeOK
<1>3. \A q \in Keys : /\ search'[q].list = search[q].list
                      /\ search'[q].replied = search[q].replied
                      /\ search'[q].status = search[q].status
  <2> SUFFICES ASSUME NEW q \in Keys
               PROVE  /\ search'[q].list = search[q].list
                      /\ search'[q].replied = search[q].replied
                      /\ search'[q].status = search[q].status
    OBVIOUS
  <2> DEFINE sr == search[q]
  <2>1. sr \in Search /\ search'[q] = [sr EXCEPT !.due = TRUE, !.asked = {}]
    BY <1>1, <1>2
  <2> HIDE DEF sr
  <2>2. search'[q].list = sr.list /\ search'[q].replied = sr.replied /\ search'[q].status = sr.status
    BY <2>1 DEF Search
  <2> QED
    BY <2>2 DEF sr
<1>4. LedStep
  BY <1>2, <1>3, SameLed DEF LedStep
<1>5. Written
  BY DEF Tick, LedInv, FromAlive, Written
<1> QED
  BY <1>4, <1>5

LEMMA IpcLed ==
  ASSUME LedInv, Ipc
  PROVE  LedStep /\ Written
<1>1. ASSUME Listen \/ \E k \in Keys : SearchCommand(k) \/ ConnectCommand(k)
      PROVE  LedStep /\ Written
  BY <1>1, SearchesUntouched DEF Listen, SearchCommand, ConnectCommand, Command
<1>2. ASSUME ConnectRefused \/ EndLookup PROVE LedStep /\ Written
  BY <1>2, DestroyLed DEF ConnectRefused, EndLookup
<1>3. ASSUME Announce \/ BeginLookup PROVE LedStep /\ Written
  <2>1. call.key \in Keys
    BY DEF LedInv, Inv, TypeOK, Call
  <2>2. UNCHANGED stored /\ \E b \in BOOLEAN : DhtSearch(call.key, b)
    BY <1>3 DEF Announce, BeginLookup
  <2> QED
    BY <2>1, <2>2, DhtSearchLed
<1> QED
  BY <1>1, <1>2, <1>3 DEF Ipc

LEMMA AnswerLed ==
  ASSUME LedInv, NEW m \in net, Answer(m), UNCHANGED search
  PROVE  LedStep /\ Written
<1>1. Written
  BY DEF Answer, Written, LedInv, FromAlive
<1>2. LedStep
  BY DEF LedStep, LedInv
<1> QED
  BY <1>1, <1>2

LEMMA NextLed ==
  ASSUME LeadsCloser, LedInv, [Next]_vars
  PROVE  LedStep /\ Written
<1>1. ASSUME Network PROVE LedStep /\ Written
  BY <1>1, AnswerLed, ReceiveNodesLed, ReceiveAnnouncedLed DEF Network
<1>2. ASSUME NEW n \in Askers, ReceiveRequest(n) PROVE LedStep /\ Written
  BY <1>2, SearchesUntouched DEF ReceiveRequest
<1>3. ASSUME UNCHANGED vars PROVE LedStep /\ Written
  BY <1>3, SearchesUntouched DEF vars
<1> QED
  BY <1>1, <1>2, <1>3, IpcLed, StepLed, TickLed DEF Next

\* search_step (dht.c:955-1026): a search ends when the closest nodes it has not given up have
\* replied.  If every node that answers and is not the closest of them names one that is
\* closer, that is where it ends: what a node names is on the list before its reply counts
\* (dht.c:1716-1754), and only nodes that are closer still can push it out.  A node that is
\* announced to has the announcement by then, or gave no token.
THEOREM EndsThere == ASSUME LeadsCloser PROVE Spec => EndsAtClosest
<1>1. Init => LedInv
  <2> SUFFICES ASSUME Init PROVE LedInv
    OBVIOUS
  <2>1. Inv
    BY InitInv
  <2>2. FromAlive /\ \A k \in Keys : Led(search[k], k)
    BY NoSearchLed DEF Init, FromAlive
  <2> QED
    BY <2>1, <2>2 DEF LedInv
<1>2. ASSUME LedInv, [Next]_vars PROVE LedInv'
  <2>1. Inv'
    BY <1>2, NextInv DEF LedInv
  <2>2. LedStep /\ Written
    BY <1>2, NextLed
  <2>3. FromAlive' /\ (\A k \in Keys : Led(search[k], k))'
    BY <2>2 DEF LedStep, Written, FromAlive
  <2> QED
    BY <2>1, <2>3 DEF LedInv
<1> DEFINE A == \A k \in Keys :
             LET sr == search'[k]
                 closest == Closest(Alive, k, 1)
             IN  /\ search[k].status = "going" /\ sr.status = "done"
                 /\ sr.list \cap Alive # {} /\ GivenUp(sr) \cap Alive = {}
                 => /\ closest \subseteq sr.replied
                    /\ sr.announce => \A n \in closest \cap Givers : k \in stored'[n]
<1>3. ASSUME LedInv, [Next]_vars PROVE A
  <2> SUFFICES ASSUME NEW k \in Keys, search[k].status = "going", search'[k].status = "done",
                      search'[k].list \cap Alive # {}, GivenUp(search'[k]) \cap Alive = {}
               PROVE  /\ Closest(Alive, k, 1) \subseteq search'[k].replied
                      /\ search'[k].announce =>
                           \A n \in Closest(Alive, k, 1) \cap Givers : k \in stored'[n]
    OBVIOUS
  <2>1. Stepped(k)
    BY <1>3, NextLed DEF LedStep
  <2>2. PICK sr : Good(sr, Holders(k)) /\ Led(sr, k) /\ sr.status = "going"
                  /\ search'[k] = SearchStep(sr, k)
    BY <2>1 DEF Stepped
  <2>3. /\ Closest(Alive, k, 1) \subseteq search'[k].replied
        /\ search'[k].announce =>
             \A n \in Closest(Alive, k, 1) \cap Givers : n \in Holders(k)
    BY <2>2, EndsLed
  <2>4. UNCHANGED stored
    BY <2>1 DEF Stepped
  <2> QED
    BY <2>3, <2>4 DEF Holders
<1> QED
  BY <1>1, <1>2, <1>3, PTL DEF Spec, EndsAtClosest
=============================================================================
